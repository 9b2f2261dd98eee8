--------------------------- MODULE KestrelCodecProofs ---------------------------
(***************************************************************************)
(* The codec keeps its buffer, its block and its values within bounds, for *)
(* any widths of bytes, words, buffer and blocks, and any bytes to read;   *)
(* and what it writes it reads back, unless the length is another one.     *)
(***************************************************************************)
EXTENDS KestrelCodec, FiniteSetTheorems, SequenceTheorems, WellFoundedInduction, TLAPS

-----------------------------------------------------------------------------
(* Numbers.                                                                *)

\* A set of natural numbers that is not empty has a least one.
LEMMA Least ==
  ASSUME NEW S, S \subseteq Nat, S # {}
  PROVE  \E m \in S : \A j \in S : m <= j
<1>1. PICK m \in S : \A j \in S : ~(<<j, m>> \in OpToRel(<, Nat))
  BY NatLessThanWellFounded, WFMin
<1>2. ASSUME NEW j \in S PROVE m <= j
  <2>1. j \in Nat /\ m \in Nat
    OBVIOUS
  <2>2. ~(<<j, m>> \in OpToRel(<, Nat))
    BY <1>1
  <2>3. ~(j < m)
    BY <2>1, <2>2 DEF OpToRel
  <2> QED BY <2>1, <2>3
<1> QED BY <1>2

\* A set with zero and with every successor has all natural numbers.
LEMMA Induction ==
  ASSUME NEW S, 0 \in S, \A n \in Nat : n \in S => n + 1 \in S
  PROVE  Nat \subseteq S
<1> SUFFICES ASSUME Nat \ S # {} PROVE FALSE
  OBVIOUS
<1>1. PICK m \in Nat \ S : \A j \in Nat \ S : m <= j
  BY Least
<1>2. m - 1 \in Nat /\ ~(m <= m - 1)
  BY <1>1
<1>3. m - 1 \in S
  BY <1>1, <1>2
<1>4. (m - 1) + 1 = m
  BY <1>1
<1> QED BY <1>1, <1>2, <1>3, <1>4

\* Powers of two count subsets.
LEMMA PowerIs ==
  /\ 2^0 = 1
  /\ \A n \in Nat : 2^n \in Nat \ {0} /\ 2^(n + 1) = 2 * 2^n
<1>1. ASSUME NEW n \in Nat
      PROVE  /\ IsFiniteSet(SUBSET (1..n)) /\ Cardinality(SUBSET (1..n)) = 2^n
             /\ 2^n \in Nat \ {0}
  <2>1. IsFiniteSet(1..n) /\ Cardinality(1..n) = n
    BY FS_Interval
  <2>2. IsFiniteSet(SUBSET (1..n)) /\ Cardinality(SUBSET (1..n)) = 2^n
    BY <2>1, FS_SUBSET
  <2>3. SUBSET (1..n) # {}
    OBVIOUS
  <2> QED BY <2>2, <2>3, FS_CardinalityType, FS_EmptySet
<1>2. 2^0 = 1
  <2>1. SUBSET (1..0) = {{}}
    OBVIOUS
  <2>2. Cardinality(SUBSET (1..0)) = 1
    BY <2>1, FS_Singleton
  <2> QED BY <1>1, <2>2
<1>3. ASSUME NEW n \in Nat PROVE 2^(n + 1) = 2 * 2^n
  <2> DEFINE S == SUBSET (1..n)
             T == {A \cup {n + 1} : A \in S}
             f == [A \in S |-> A \cup {n + 1}]
  <2>1. SUBSET (1..(n + 1)) = S \cup T
    <3>1. 1..(n + 1) = (1..n) \cup {n + 1}
      OBVIOUS
    <3>2. ASSUME NEW A \in SUBSET ((1..n) \cup {n + 1}), n + 1 \in A
          PROVE  A \in T
      <4>1. A \ {n + 1} \in S /\ A = (A \ {n + 1}) \cup {n + 1}
        BY <3>2
      <4> QED BY <4>1
    <3> QED BY <3>1, <3>2
  <2>2. S \cap T = {}
    <3>1. n + 1 \notin 1..n
      OBVIOUS
    <3> QED BY <3>1
  <2>3. f \in Surjection(S, T)
    BY DEF Surjection
  <2>4. f \in Injection(S, T)
    <3>1. n + 1 \notin 1..n
      OBVIOUS
    <3>2. ASSUME NEW A \in S, NEW B \in S, f[A] = f[B] PROVE A = B
      BY <3>1, <3>2
    <3>3. f \in [S -> T]
      OBVIOUS
    <3> HIDE DEF f, S, T
    <3> QED BY <3>2, <3>3 DEF Injection, IsInjective
  <2>5. IsFiniteSet(S) /\ Cardinality(S) = 2^n /\ 2^n \in Nat
    BY <1>1
  <2> HIDE DEF S, T, f
  <2>6. IsFiniteSet(T) /\ Cardinality(T) = 2^n
    BY <2>3, <2>4, <2>5, FS_Surjection
  <2>7. Cardinality(S \cup T) = 2^n + 2^n
    BY <2>2, <2>5, <2>6, FS_Union, FS_EmptySet
  <2>8. Cardinality(SUBSET (1..(n + 1))) = 2^(n + 1)
    BY <1>1
  <2> QED BY <2>1, <2>5, <2>7, <2>8
<1> QED BY <1>1, <1>2, <1>3

\* Powers grow with the exponent.
LEMMA PowerGrows ==
  ASSUME NEW m \in Nat, NEW n \in Nat, m <= n
  PROVE  2^m <= 2^n
<1> DEFINE S == {k \in Nat : 2^m <= 2^(m + k)}
<1>1. 0 \in S
  BY PowerIs
<1>2. ASSUME NEW k \in Nat, k \in S PROVE k + 1 \in S
  <2>1. m + k \in Nat /\ m + (k + 1) = (m + k) + 1
    OBVIOUS
  <2>2. 2^(m + k) \in Nat /\ 2^m \in Nat /\ 2^((m + k) + 1) = 2 * 2^(m + k)
    BY <2>1, PowerIs
  <2>3. 2^m <= 2^(m + k)
    BY <1>2
  <2>4. 2^m <= 2^((m + k) + 1)
    BY <2>2, <2>3
  <2> QED BY <2>1, <2>4
<1> HIDE DEF S
<1>3. n - m \in S
  BY <1>1, <1>2, Induction
<1>4. m + (n - m) = n
  OBVIOUS
<1> QED BY <1>3, <1>4 DEF S

\* A number is less than its power of two.
LEMMA PowerSmall ==
  ASSUME NEW n \in Nat
  PROVE  n < 2^n
<1> DEFINE S == {k \in Nat : k < 2^k}
<1>1. 0 \in S
  BY PowerIs
<1>2. ASSUME NEW k \in Nat, k \in S PROVE k + 1 \in S
  BY <1>2, PowerIs
<1> HIDE DEF S
<1>3. n \in S
  BY <1>1, <1>2, Induction
<1> QED BY <1>3 DEF S

\* A function on an interval can be defined by recursion.
Follows(f, n, a, step) == f[0] = a /\ \A i \in 1..n : f[i] = step[i][f[i - 1]]

\* A recursive function on an interval exists, and keeps to its range.
LEMMA Recursion ==
  ASSUME NEW n \in Nat, NEW V, NEW a \in V, NEW step \in [1..n -> [V -> V]]
  PROVE  \E f \in [0..n -> V] : Follows(f, n, a, step)
<1> DEFINE Fix(k, f) ==
             f = [i \in 0..k |-> IF i = 0 THEN a ELSE step[i][f[i - 1]]]
           S == {k \in Nat : k <= n => \E f \in [0..k -> V] : Fix(k, f)}
<1>1. 0 \in S
  <2>1. [i \in 0..0 |-> a] \in [0..0 -> V] /\ Fix(0, [i \in 0..0 |-> a])
    OBVIOUS
  <2> QED BY <2>1
<1>2. ASSUME NEW k \in Nat, k \in S PROVE k + 1 \in S
  <2> SUFFICES ASSUME k + 1 <= n
               PROVE  \E f \in [0..(k + 1) -> V] : Fix(k + 1, f)
    OBVIOUS
  <2>1. PICK f \in [0..k -> V] : Fix(k, f)
    BY <1>2
  <2>2. PICK g : g = [i \in 0..(k + 1) |-> IF i <= k THEN f[i] ELSE step[k + 1][f[k]]]
    OBVIOUS
  <2>3. step[k + 1] \in [V -> V] /\ f[k] \in V
    OBVIOUS
  <2>4. g \in [0..(k + 1) -> V]
    BY <2>2, <2>3
  <2>5. ASSUME NEW i \in 0..(k + 1)
        PROVE  g[i] = IF i = 0 THEN a ELSE step[i][g[i - 1]]
    <3>1. CASE i = 0
      <4>1. g[i] = f[i] /\ f[i] = a
        BY <2>1, <2>2, <3>1
      <4> QED BY <3>1, <4>1
    <3>2. CASE i # 0 /\ i <= k
      <4>1. g[i] = f[i] /\ g[i - 1] = f[i - 1]
        BY <2>2, <3>2
      <4>2. f[i] = step[i][f[i - 1]]
        BY <2>1, <3>2
      <4> QED BY <3>2, <4>1, <4>2
    <3>3. CASE i = k + 1
      <4>1. g[i] = step[k + 1][f[k]] /\ g[i - 1] = f[k]
        BY <2>2, <3>3
      <4> QED BY <3>3, <4>1
    <3> QED BY <3>1, <3>2, <3>3
  <2>6. Fix(k + 1, g)
    <3>1. g = [i \in 0..(k + 1) |-> g[i]]
      BY <2>4
    <3>2. [i \in 0..(k + 1) |-> g[i]]
            = [i \in 0..(k + 1) |-> IF i = 0 THEN a ELSE step[i][g[i - 1]]]
      BY <2>5
    <3> QED BY <3>1, <3>2
  <2> QED BY <2>4, <2>6
<1> HIDE DEF S
<1>3. n \in S
  BY <1>1, <1>2, Induction
<1>4. PICK f \in [0..n -> V] : Fix(n, f)
  BY <1>3 DEF S
<1>5. Follows(f, n, a, step)
  BY <1>4 DEF Follows
<1> QED BY <1>5

-----------------------------------------------------------------------------
(* Bits and numbers.                                                       *)

\* The sums that Number takes, and what they are.
Weights(bits) ==
  CHOOSE upTo : upTo = [i \in 0..Len(bits) |->
    IF i = 0 THEN 0 ELSE upTo[i - 1] + bits[i] * 2^(i - 1)]

\* The sums of Number exist, and each adds the weight of one bit.
LEMMA WeightsAre ==
  ASSUME NEW bits \in Seq(Nat)
  PROVE  /\ Weights(bits) \in [0..Len(bits) -> Nat]
         /\ Weights(bits)[0] = 0
         /\ \A i \in 1..Len(bits) :
              Weights(bits)[i] = Weights(bits)[i - 1] + bits[i] * 2^(i - 1)
         /\ Number(bits) = Weights(bits)[Len(bits)]
<1> DEFINE n == Len(bits)
           Fix(u) == u = [i \in 0..n |->
             IF i = 0 THEN 0 ELSE u[i - 1] + bits[i] * 2^(i - 1)]
<1>0. n \in Nat /\ \A i \in 1..n : bits[i] \in Nat /\ 2^(i - 1) \in Nat
  <2>1. ASSUME NEW i \in 1..n PROVE 2^(i - 1) \in Nat
    <3>1. i - 1 \in Nat
      OBVIOUS
    <3> QED BY <3>1, PowerIs
  <2> QED BY <2>1
<1>1. PICK step : step = [i \in 1..n |-> [x \in Nat |-> x + bits[i] * 2^(i - 1)]]
  OBVIOUS
<1>2. step \in [1..n -> [Nat -> Nat]]
  <2>1. ASSUME NEW i \in 1..n, NEW x \in Nat PROVE x + bits[i] * 2^(i - 1) \in Nat
    BY <1>0
  <2> QED BY <1>1, <2>1
<1> HIDE DEF n
<1>3. PICK f \in [0..n -> Nat] :
        f[0] = 0 /\ \A i \in 1..n : f[i] = step[i][f[i - 1]]
  <2>1. PICK zero \in Nat : zero = 0
    OBVIOUS
  <2>2. n \in Nat
    BY <1>0
  <2>3. \E f \in [0..n -> Nat] : Follows(f, n, zero, step)
    BY ONLY <1>2, <2>1, <2>2, Recursion
  <2> QED BY <2>1, <2>3 DEF Follows
<1>4. Fix(f)
  <2>1. ASSUME NEW i \in 0..n
        PROVE  f[i] = (IF i = 0 THEN 0 ELSE f[i - 1] + bits[i] * 2^(i - 1))
    <3>1. CASE i # 0
      <4>1. i \in 1..n /\ f[i - 1] \in Nat
        BY <1>0, <1>3, <3>1
      <4>2. f[i] = step[i][f[i - 1]]
        BY <1>3, <4>1
      <4> QED BY <1>1, <3>1, <4>1, <4>2
    <3> QED BY <1>3, <3>1
  <2>2. f = [i \in 0..n |-> f[i]]
    BY <1>3
  <2> QED BY <2>1, <2>2
<1>5. Fix(Weights(bits))
  BY <1>4 DEF Weights, n
<1>6. ASSUME NEW u, Fix(u) PROVE \A i \in 0..n : u[i] = f[i]
  <2> DEFINE S == {k \in Nat : k <= n => u[k] = f[k]}
  <2>1. 0 \in S
    BY <1>0, <1>4, <1>6
  <2>2. ASSUME NEW k \in Nat, k \in S PROVE k + 1 \in S
    <3> SUFFICES ASSUME k + 1 <= n PROVE u[k + 1] = f[k + 1]
      OBVIOUS
    <3>1. k + 1 \in 0..n /\ k + 1 # 0 /\ (k + 1) - 1 = k /\ u[k] = f[k]
      BY <1>0, <2>2
    <3>2. u[k + 1] = u[k] + bits[k + 1] * 2^k
      BY <1>6, <3>1
    <3>3. f[k + 1] = f[k] + bits[k + 1] * 2^k
      BY <1>4, <3>1
    <3> QED BY <3>1, <3>2, <3>3
  <2> HIDE DEF S
  <2>3. \A k \in Nat : k \in S
    BY <2>1, <2>2, Induction
  <2> QED BY <1>0, <2>3 DEF S
<1>7. Weights(bits) \in [0..n -> Nat]
  <2>1. Weights(bits) = [i \in 0..n |-> Weights(bits)[i]]
    BY <1>5
  <2>2. \A i \in 0..n : Weights(bits)[i] \in Nat
    <3> HIDE DEF Fix
    <3>1. \A i \in 0..n : Weights(bits)[i] = f[i]
      BY <1>5, <1>6
    <3> QED BY <1>3, <3>1
  <2> QED BY <2>1, <2>2
<1>8. Number(bits) = Weights(bits)[n]
  BY DEF Number, Weights, n
<1>9. /\ Weights(bits)[0] = 0
      /\ \A i \in 1..n :
           Weights(bits)[i] = Weights(bits)[i - 1] + bits[i] * 2^(i - 1)
  BY <1>0, <1>5
<1> QED BY <1>7, <1>8, <1>9 DEF n

\* A number of k bits is below 2^k.
LEMMA NumberIs ==
  ASSUME NEW bits \in Seq({0, 1})
  PROVE  Number(bits) \in 0..(2^Len(bits) - 1)
<1> DEFINE n == Len(bits)
           w == Weights(bits)
<1>1. bits \in Seq(Nat)
  BY SeqDef
<1>2. /\ n \in Nat /\ w \in [0..n -> Nat] /\ w[0] = 0 /\ Number(bits) = w[n]
      /\ \A i \in 1..n : w[i] = w[i - 1] + bits[i] * 2^(i - 1)
  BY <1>1, WeightsAre
<1>3. \A i \in 1..n : bits[i] \in {0, 1}
  OBVIOUS
<1> HIDE DEF n, w
<1> DEFINE S == {k \in Nat : k <= n => w[k] < 2^k}
<1>4. 0 \in S
  BY <1>2, PowerIs
<1>5. ASSUME NEW k \in Nat, k \in S PROVE k + 1 \in S
  <2> SUFFICES ASSUME k + 1 <= n PROVE w[k + 1] < 2^(k + 1)
    OBVIOUS
  <2>1. k + 1 \in 1..n /\ (k + 1) - 1 = k /\ k \in 0..n
    BY <1>2
  <2>2. w[k + 1] = w[k] + bits[k + 1] * 2^k
    BY <1>2, <2>1
  <2>3. w[k] < 2^k /\ w[k] \in Nat /\ 2^k \in Nat /\ 2^(k + 1) = 2 * 2^k
    BY <1>2, <1>5, <2>1, PowerIs
  <2>4. bits[k + 1] = 0 \/ bits[k + 1] = 1
    BY <1>3, <2>1
  <2>5. CASE bits[k + 1] = 0
    <3>1. w[k + 1] = w[k]
      BY <2>2, <2>3, <2>5
    <3> QED BY <2>3, <3>1
  <2>6. CASE bits[k + 1] = 1
    <3>1. w[k + 1] = w[k] + 2^k
      BY <2>2, <2>3, <2>6
    <3> QED BY <2>3, <3>1
  <2> QED BY <2>4, <2>5, <2>6
<1> HIDE DEF S
<1>6. n \in S
  BY <1>2, <1>4, <1>5, Induction
<1>7. w[n] < 2^n /\ w[n] \in Nat /\ 2^n \in Nat
  BY <1>2, <1>6, PowerIs DEF S
<1> QED BY <1>2, <1>7 DEF n

\* A bit of a number is 0 or 1.
LEMMA BitsAre ==
  ASSUME NEW n \in Nat, NEW k \in Nat
  PROVE  Bits(n, k) \in Seq({0, 1}) /\ Len(Bits(n, k)) = k
<1>1. ASSUME NEW i \in 1..k PROVE (n \div 2^(i - 1)) % 2 \in {0, 1}
  <2>1. i - 1 \in Nat
    OBVIOUS
  <2>2. 2^(i - 1) \in Nat \ {0}
    BY <2>1, PowerIs
  <2>3. PICK p \in Nat \ {0} : p = 2^(i - 1)
    BY <2>2
  <2>4. n \div p \in Nat
    OBVIOUS
  <2> QED BY <2>3, <2>4
<1>2. Bits(n, k) = [i \in 1..k |-> (n \div 2^(i - 1)) % 2]
  BY DEF Bits
<1>3. Bits(n, k) \in [1..k -> {0, 1}]
  BY <1>1, <1>2
<1> QED BY <1>2, <1>3, SeqDef

\* The powers that bytes and groups are made of.
LEMMA BytesAre ==
  /\ 2^ByteBits \in Nat /\ ByteBits < 2^ByteBits
  /\ HalfByte \in Nat /\ HalfByte >= 2 /\ 2^ByteBits = 2 * HalfByte
<1>1. ByteBits \in Nat /\ ByteBits - 1 \in Nat /\ ByteBits = (ByteBits - 1) + 1 /\ 1 <= ByteBits - 1
  BY WidthAssumption
<1>2. 2^ByteBits = 2 * HalfByte /\ HalfByte \in Nat
  BY <1>1, PowerIs DEF HalfByte
<1>3. 2^1 <= HalfByte /\ 2^1 = 2
  <2>1. 2^(0 + 1) = 2 * 2^0 /\ 0 + 1 = 1
    BY PowerIs
  <2> QED BY <1>1, <2>1, PowerIs, PowerGrows DEF HalfByte
<1>4. ByteBits < 2^ByteBits
  BY <1>1, PowerSmall
<1> QED BY <1>2, <1>3, <1>4

\* Quotient and remainder.
LEMMA Division ==
  ASSUME NEW n \in Nat, NEW h \in Nat, h >= 2
  PROVE  /\ n % h \in 0..(h - 1) /\ n \div h \in 0..n /\ (n > 0 => n \div h < n)
         /\ n = h * (n \div h) + (n % h)
<1>0. n = h * (n \div h) + (n % h)
  OBVIOUS
<1>1. n % h \in 0..(h - 1)
  OBVIOUS
<1>2. n \div h \in Nat
  OBVIOUS
<1>3. n \div h <= n
  OBVIOUS
<1>4. n > 0 => n \div h < n
  OBVIOUS
<1> QED BY <1>0, <1>1, <1>2, <1>3, <1>4

\* What put_var_u32 appends is a sequence of bytes, the lowest group first.
LEMMA VarBytesFollow ==
  /\ \A n \in Word : VarBytes[n] \in Seq(Byte)
  /\ \A n \in Word : VarBytes[n] =
       IF n < HalfByte THEN <<n>>
       ELSE <<(n % HalfByte) + HalfByte>> \o VarBytes[n \div HalfByte]
<1>0. PICK H \in Nat : H = HalfByte
  BY BytesAre
<1> DEFINE Fix(N, f) == f = [n \in 0..N |->
             IF n < H THEN <<n>> ELSE <<(n % H) + H>> \o f[n \div H]]
           S == {N \in Nat : \E f \in [0..N -> Seq(Byte)] : Fix(N, f)}
<1>1. H >= 2 /\ Byte = 0..(2 * H - 1)
  BY <1>0, BytesAre DEF Byte
<1>2. ASSUME NEW n \in Nat
      PROVE  n % H \in 0..(H - 1) /\ n \div H \in 0..n /\ (n > 0 => n \div H < n)
  BY <1>1, Division
<1>3. 0 \in S
  <2>1. PICK f : f = [n \in 0..0 |-> <<n>>]
    OBVIOUS
  <2>2. f \in [0..0 -> Seq(Byte)]
    BY <1>1, <2>1
  <2>3. Fix(0, f)
    BY <1>1, <2>1
  <2> QED BY <2>2, <2>3
<1>4. ASSUME NEW N \in Nat, N \in S PROVE N + 1 \in S
  <2>1. PICK f \in [0..N -> Seq(Byte)] : Fix(N, f)
    BY <1>4
  <2>a. ASSUME NEW n \in 0..N
        PROVE  f[n] = IF n < H THEN <<n>> ELSE <<(n % H) + H>> \o f[n \div H]
    BY <2>1
  <2> DEFINE last == IF N + 1 < H THEN <<N + 1>>
                     ELSE <<((N + 1) % H) + H>> \o f[(N + 1) \div H]
  <2>2. PICK g : g = [n \in 0..(N + 1) |-> IF n <= N THEN f[n] ELSE last]
    OBVIOUS
  <2>3. last \in Seq(Byte)
    <3>1. CASE N + 1 < H
      BY <1>1, <3>1
    <3>2. CASE ~(N + 1 < H)
      <4>1. (N + 1) \div H \in 0..N /\ ((N + 1) % H) + H \in Byte
        <5>1. PICK k \in Nat : k = N + 1
          OBVIOUS
        <5>2. k % H \in 0..(H - 1) /\ k \div H \in 0..k /\ k \div H < k
          BY <1>2, <5>1
        <5> QED BY <1>1, <5>1, <5>2
      <4>2. <<((N + 1) % H) + H>> \in Seq(Byte) /\ f[(N + 1) \div H] \in Seq(Byte)
        BY <4>1
      <4> QED BY <3>2, <4>2, ConcatProperties
    <3> QED BY <3>1, <3>2
  <2>4. g \in [0..(N + 1) -> Seq(Byte)]
    <3> HIDE DEF last
    <3> QED BY <2>2, <2>3
  <2>5. ASSUME NEW n \in 0..(N + 1)
        PROVE  g[n] = IF n < H THEN <<n>> ELSE <<(n % H) + H>> \o g[n \div H]
    <3>1. n \div H \in 0..n /\ (n > 0 => n \div H < n)
      BY <1>2
    <3>2. CASE n < H
      <4>1. CASE n <= N
        <5>1. g[n] = f[n]
          BY <2>2, <4>1
        <5> QED BY <2>1, <3>2, <4>1, <5>1
      <4>2. CASE n = N + 1
        BY <2>2, <3>2, <4>2
      <4> QED BY <4>1, <4>2
    <3>3. CASE ~(n < H)
      <4>0. n \div H \in 0..N
        BY <1>1, <3>1, <3>3
      <4>1. g[n \div H] = f[n \div H]
        BY <2>2, <4>0
      <4>2. CASE n <= N
        <5>1. g[n] = f[n]
          BY <2>2, <4>2
        <5>2. f[n] = <<(n % H) + H>> \o f[n \div H]
          <6>1. n \in 0..N
            BY <4>2
          <6> QED BY <2>a, <3>3, <6>1
        <5> QED BY <3>3, <4>1, <5>1, <5>2
      <4>3. CASE n = N + 1
        <5>1. g[n] = last
          BY <2>2, <4>3
        <5> QED BY <3>3, <4>1, <4>3, <5>1
      <4> QED BY <4>2, <4>3
    <3> QED BY <3>2, <3>3
  <2>6. Fix(N + 1, g)
    <3>1. g = [n \in 0..(N + 1) |-> g[n]]
      BY <2>4
    <3>2. [n \in 0..(N + 1) |-> g[n]] = [n \in 0..(N + 1) |->
             IF n < H THEN <<n>> ELSE <<(n % H) + H>> \o g[n \div H]]
      BY <2>5
    <3> QED BY ONLY <3>1, <3>2, Zenon
  <2>7. N + 1 \in Nat
    OBVIOUS
  <2> HIDE DEF Fix
  <2> QED BY <2>4, <2>6, <2>7
<1> HIDE DEF S
<1>5. 2^WordBits - 1 \in Nat
  BY WidthAssumption, PowerIs
<1>6. 2^WordBits - 1 \in S
  BY <1>3, <1>4, <1>5, Induction
<1>7. PICK f \in [Word -> Seq(Byte)] : Fix(2^WordBits - 1, f)
  BY <1>6 DEF S, Word
<1>8. VarBytes = CHOOSE g : Fix(2^WordBits - 1, g)
  BY <1>0 DEF VarBytes, Word
<1>9. Fix(2^WordBits - 1, VarBytes)
  BY <1>7, <1>8
<1> DEFINE T == {N \in Nat : \A n \in 0..N : n \in Word => VarBytes[n] = f[n]}
<1>10. 0 \in T
  <2>1. ASSUME 0 \in Word PROVE VarBytes[0] = f[0]
    BY <1>1, <1>7, <1>9, <2>1 DEF Word
  <2> QED BY <2>1
<1>11. ASSUME NEW N \in Nat, N \in T PROVE N + 1 \in T
  <2> SUFFICES ASSUME N + 1 \in Word PROVE VarBytes[N + 1] = f[N + 1]
    BY <1>11
  <2>1. CASE N + 1 < H
    BY <1>7, <1>9, <2>1 DEF Word
  <2>2. CASE ~(N + 1 < H)
    <3>1. (N + 1) \div H \in 0..N
      <4>1. PICK k \in Nat : k = N + 1
        OBVIOUS
      <4>2. k \div H \in 0..k /\ k \div H < k
        BY <1>2, <4>1
      <4> QED BY <4>1, <4>2
    <3>2. (N + 1) \div H \in Word
      BY <1>5, <3>1 DEF Word
    <3>3. VarBytes[(N + 1) \div H] = f[(N + 1) \div H]
      BY <1>11, <3>1, <3>2
    <3>4. /\ VarBytes[N + 1] = <<((N + 1) % H) + H>> \o VarBytes[(N + 1) \div H]
          /\ f[N + 1] = <<((N + 1) % H) + H>> \o f[(N + 1) \div H]
      BY <1>7, <1>9, <2>2 DEF Word
    <3> QED BY <3>3, <3>4
  <2> QED BY <2>1, <2>2
<1> HIDE DEF T
<1>12. \A n \in Nat : n \in T
  BY <1>10, <1>11, Induction
<1>13. ASSUME NEW n \in Word PROVE VarBytes[n] = f[n]
  BY <1>5, <1>12 DEF T, Word
<1>14. \A n \in Word : VarBytes[n] =
         IF n < H THEN <<n>> ELSE <<(n % H) + H>> \o VarBytes[n \div H]
  BY <1>9 DEF Word
<1> QED BY <1>0, <1>7, <1>13, <1>14

\* put_var_u32 writes bytes.
LEMMA VarBytesAre ==
  \A n \in Word : VarBytes[n] \in Seq(Byte)
BY VarBytesFollow

-----------------------------------------------------------------------------
(* Sequences of words.                                                     *)

\* Sequences that are joined, split, and cut.
LEMMA Joined ==
  ASSUME NEW S, NEW s \in Seq(S), NEW t \in Seq(S)
  PROVE  s \o t \in Seq(S) /\ Len(s \o t) = Len(s) + Len(t)
OBVIOUS

LEMMA Split ==
  ASSUME NEW S, NEW s \in Seq(S), s # <<>>
  PROVE  Head(s) \in S /\ Tail(s) \in Seq(S) /\ Len(Tail(s)) = Len(s) - 1
OBVIOUS

LEMMA Part ==
  ASSUME NEW S, NEW s \in Seq(S), NEW a \in 1..(Len(s) + 1), NEW b \in Nat,
         a <= b + 1, b <= Len(s)
  PROVE  SubSeq(s, a, b) \in Seq(S) /\ Len(SubSeq(s, a, b)) = b - a + 1
<1>1. \A i \in a..b : s[i] \in S
  OBVIOUS
<1> QED BY <1>1, SubSeqProperties

\* The sums that Sums takes, and what they are.
Totals(s) ==
  CHOOSE upTo : upTo = [i \in 0..Len(s) |-> IF i = 0 THEN 0 ELSE upTo[i - 1] + s[i]]

\* The running sums of read_packed_deltas.
LEMMA SumsAre ==
  ASSUME NEW s \in Seq(Nat)
  PROVE  /\ Sums(s) \in Seq(Nat) /\ Len(Sums(s)) = Len(s)
         /\ s # <<>> => Sums(s)[1] = s[1]
         /\ \A i \in 2..Len(s) : Sums(s)[i] = Sums(s)[i - 1] + s[i]
<1> DEFINE n == Len(s)
           Fix(u) == u = [i \in 0..n |-> IF i = 0 THEN 0 ELSE u[i - 1] + s[i]]
<1>0. n \in Nat /\ \A i \in 1..n : s[i] \in Nat
  OBVIOUS
<1>1. PICK step : step = [i \in 1..n |-> [x \in Nat |-> x + s[i]]]
  OBVIOUS
<1>2. step \in [1..n -> [Nat -> Nat]]
  <2>1. ASSUME NEW i \in 1..n, NEW x \in Nat PROVE x + s[i] \in Nat
    BY <1>0
  <2> QED BY <1>1, <2>1
<1> HIDE DEF n
<1>3. PICK f \in [0..n -> Nat] :
        f[0] = 0 /\ \A i \in 1..n : f[i] = step[i][f[i - 1]]
  <2>1. PICK zero \in Nat : zero = 0
    OBVIOUS
  <2>2. n \in Nat
    BY <1>0
  <2>3. \E f \in [0..n -> Nat] : Follows(f, n, zero, step)
    BY ONLY <1>2, <2>1, <2>2, Recursion
  <2> QED BY <2>1, <2>3 DEF Follows
<1>4. Fix(f)
  <2>1. ASSUME NEW i \in 0..n
        PROVE  f[i] = (IF i = 0 THEN 0 ELSE f[i - 1] + s[i])
    <3>1. CASE i # 0
      <4>1. i \in 1..n /\ f[i - 1] \in Nat
        BY <1>0, <1>3, <3>1
      <4>2. f[i] = step[i][f[i - 1]]
        BY <1>3, <4>1
      <4> QED BY <1>1, <3>1, <4>1, <4>2
    <3> QED BY <1>3, <3>1
  <2>2. f = [i \in 0..n |-> f[i]]
    BY <1>3
  <2> QED BY <2>1, <2>2
<1>5. PICK u : u = Totals(s)
  OBVIOUS
<1>6. Fix(u)
  BY <1>4, <1>5 DEF Totals, n
<1>7. \A i \in 0..n : u[i] = f[i]
  <2> DEFINE S == {k \in Nat : k <= n => u[k] = f[k]}
  <2>1. 0 \in S
    BY <1>0, <1>4, <1>6
  <2>2. ASSUME NEW k \in Nat, k \in S PROVE k + 1 \in S
    <3> SUFFICES ASSUME k + 1 <= n PROVE u[k + 1] = f[k + 1]
      OBVIOUS
    <3>1. k + 1 \in 0..n /\ k + 1 # 0 /\ (k + 1) - 1 = k /\ u[k] = f[k]
      BY <1>0, <2>2
    <3>2. u[k + 1] = u[k] + s[k + 1]
      BY <1>6, <3>1
    <3>3. f[k + 1] = f[k] + s[k + 1]
      BY <1>4, <3>1
    <3> QED BY <3>1, <3>2, <3>3
  <2> HIDE DEF S
  <2>3. \A k \in Nat : k \in S
    BY <2>1, <2>2, Induction
  <2> QED BY <1>0, <2>3 DEF S
<1>8. Sums(s) = [i \in DOMAIN s |-> u[i]]
  BY <1>5 DEF Sums, Totals
<1>9. Sums(s) = [i \in 1..n |-> f[i]]
  <2>1. DOMAIN s = 1..n
    BY DEF n
  <2> QED BY <1>0, <1>7, <1>8, <2>1
<1>10. Sums(s) \in Seq(Nat) /\ Len(Sums(s)) = n
  <2>1. [i \in 1..n |-> f[i]] \in [1..n -> Nat]
    BY <1>0, <1>3
  <2> QED BY <1>0, <1>9, <2>1, SeqDef
<1>11. s # <<>> => Sums(s)[1] = s[1]
  <2> SUFFICES ASSUME s # <<>> PROVE Sums(s)[1] = s[1]
    OBVIOUS
  <2>1. 1 \in 1..n
    BY <1>0, EmptySeq DEF n
  <2>2. f[1] = f[0] + s[1]
    BY <1>0, <1>4, <2>1
  <2> QED BY <1>0, <1>3, <1>9, <2>1, <2>2
<1>12. ASSUME NEW i \in 2..n PROVE Sums(s)[i] = Sums(s)[i - 1] + s[i]
  <2>1. i \in 1..n /\ i - 1 \in 1..n /\ i \in 0..n /\ i # 0
    BY <1>0
  <2>2. f[i] = f[i - 1] + s[i]
    BY <1>4, <2>1
  <2> QED BY <1>9, <2>1, <2>2
<1> QED BY <1>10, <1>11, <1>12 DEF n

\* A sequence ascends if each member is above the one before it.
LEMMA StepsAscend ==
  ASSUME NEW s \in Seq(Nat), \A i \in 2..Len(s) : s[i - 1] < s[i]
  PROVE  Ascending(s)
<1>0. Len(s) \in Nat /\ DOMAIN s = 1..Len(s)
  OBVIOUS
<1> SUFFICES ASSUME NEW i \in 1..Len(s), NEW j \in 1..Len(s), i < j
             PROVE  s[i] < s[j]
  BY <1>0 DEF Ascending
<1> DEFINE S == {k \in Nat : i + k + 1 <= Len(s) => s[i] < s[i + k + 1]}
<1>1. 0 \in S
  <2>1. i + 1 <= Len(s) => i + 1 \in 2..Len(s) /\ (i + 1) - 1 = i
    OBVIOUS
  <2> QED BY <2>1
<1>2. ASSUME NEW k \in Nat, k \in S PROVE k + 1 \in S
  <2> SUFFICES ASSUME i + (k + 1) + 1 <= Len(s) PROVE s[i] < s[i + (k + 1) + 1]
    OBVIOUS
  <2>1. i + (k + 1) + 1 \in 2..Len(s) /\ (i + (k + 1) + 1) - 1 = i + k + 1
    OBVIOUS
  <2>2. s[i + k + 1] < s[i + (k + 1) + 1]
    BY <2>1
  <2>3. s[i] < s[i + k + 1]
    BY <1>2
  <2>4. i + k + 1 \in 1..Len(s)
    BY <1>0
  <2>5. s[i] \in Nat /\ s[i + k + 1] \in Nat /\ s[i + (k + 1) + 1] \in Nat
    BY <1>0, <2>1, <2>4
  <2> QED BY <2>2, <2>3, <2>5
<1> HIDE DEF S
<1>3. j - i - 1 \in Nat /\ i + (j - i - 1) + 1 = j
  OBVIOUS
<1>4. j - i - 1 \in S
  BY <1>1, <1>2, <1>3, Induction
<1> QED BY <1>3, <1>4 DEF S

\* A value above the last one may follow.
LEMMA AscendsFurther ==
  ASSUME NEW s \in Seq(Nat), Ascending(s), NEW v \in Nat,
         s # <<>> => s[Len(s)] < v
  PROVE  Ascending(Append(s, v))
<1>1. Append(s, v) \in Seq(Nat) /\ Len(Append(s, v)) = Len(s) + 1
  OBVIOUS
<1>2. ASSUME NEW i \in 2..(Len(s) + 1) PROVE Append(s, v)[i - 1] < Append(s, v)[i]
  <2>1. CASE i = Len(s) + 1
    BY <2>1, EmptySeq
  <2>2. CASE i # Len(s) + 1
    <3>1. i \in 1..Len(s) /\ i - 1 \in 1..Len(s) /\ i - 1 < i
      BY <2>2
    <3>2. s[i - 1] < s[i]
      BY <3>1 DEF Ascending
    <3> QED BY <3>1, <3>2
  <2> QED BY <2>1, <2>2
<1> HIDE DEF Ascending
<1> QED BY <1>1, <1>2, StepsAscend

\* Differences of ascending words are words.
LEMMA DeltasAre ==
  ASSUME NEW s \in Seq(Word), Ascending(s)
  PROVE  Deltas(s) \in Seq(Word)
<1>1. 2^WordBits \in Nat
  BY WidthAssumption, PowerIs
<1>2. ASSUME NEW i \in 1..Len(s)
      PROVE  (IF i = 1 THEN s[i] ELSE s[i] - s[i - 1]) \in Word
  <2>1. CASE i = 1
    BY <2>1
  <2>2. CASE i # 1
    <3>1. i - 1 \in 1..Len(s) /\ i - 1 < i
      BY <2>2
    <3>2. s[i - 1] < s[i] /\ s[i - 1] \in Word /\ s[i] \in Word
      BY <3>1 DEF Ascending
    <3> QED BY <1>1, <2>2, <3>2 DEF Word
  <2> QED BY <2>1, <2>2
<1>3. Deltas(s) = [i \in 1..Len(s) |-> IF i = 1 THEN s[i] ELSE s[i] - s[i - 1]]
  BY DEF Deltas
<1>4. Deltas(s) \in [1..Len(s) -> Word]
  BY <1>2, <1>3
<1> QED BY <1>4, SeqDef

\* The width of a block is that of a word at most.
LEMMA WidthIs ==
  ASSUME NEW s \in Seq(Word)
  PROVE  /\ WidthOf(s) \in 0..WordBits
         /\ \A i \in DOMAIN s : s[i] < 2^WidthOf(s)
<1> DEFINE S == {k \in 0..WordBits : \A i \in DOMAIN s : s[i] < 2^k}
           P(k) == /\ \A i \in DOMAIN s : s[i] < 2^k
                   /\ k = 0 \/ \E i \in DOMAIN s : s[i] >= 2^(k - 1)
<1>1. WordBits \in Nat /\ 2^WordBits \in Nat
  BY WidthAssumption, PowerIs
<1>2. WordBits \in S
  BY <1>1 DEF Word
<1>3. PICK k \in S : \A j \in S : k <= j
  <2>1. S \subseteq Nat
    BY <1>1
  <2> HIDE DEF S
  <2> QED BY <1>2, <2>1, Least
<1>4. k \in 0..WordBits /\ P(k)
  <2> SUFFICES ASSUME k # 0 PROVE \E i \in DOMAIN s : s[i] >= 2^(k - 1)
    BY <1>3
  <2>1. k - 1 \in 0..WordBits /\ k - 1 \notin S
    BY <1>1, <1>3
  <2>2. PICK i \in DOMAIN s : ~(s[i] < 2^(k - 1))
    BY <2>1
  <2>3. k - 1 \in Nat /\ s[i] \in Nat
    BY <1>1, <2>1 DEF Word
  <2>4. 2^(k - 1) \in Nat
    BY <2>3, PowerIs
  <2> QED BY <2>2, <2>3, <2>4
<1>5. WidthOf(s) = CHOOSE m \in 0..WordBits : P(m)
  BY DEF WidthOf
<1> HIDE DEF P
<1>6. WidthOf(s) \in 0..WordBits /\ P(WidthOf(s))
  BY <1>4, <1>5
<1> QED BY <1>6 DEF P

-----------------------------------------------------------------------------
(* The inductive invariant.                                                *)

Types ==
  /\ job \in {"plain", "deltas", "positions"} /\ expected \in Nat
  /\ stage \in Stages
  /\ bytes \in Seq(Byte) /\ out \in Seq(Word) /\ todo \in Seq(Word)
  /\ queue \in Seq({0, 1}) /\ Len(queue) <= BufferBits
  /\ block \in Nat /\ width \in 0..WordBits
  /\ at \in 1..(Len(bytes) + 1) /\ end \in Nat

\* Nothing is read yet, and a block has no more values than are to be packed.
NotRead ==
  stage \in {"write", "stored", "check"} =>
    /\ at = 1 /\ out = <<>> /\ block <= Len(todo)
    /\ job = "positions" => block = 0
    /\ stage # "write" => queue = <<>>

\* What is left of a block has its bits in the buffer and in the bytes of the
\* block, and the buffer never has a whole byte more than a value needs.
BlockIsCovered ==
  stage = "unpack" =>
    /\ at <= end /\ end <= Len(bytes) + 1
    /\ block * width <= Len(queue) + ByteBits * (end - at)
    /\ Len(queue) < width + ByteBits

MaxGroup == (WordBits - 1) \div (ByteBits - 1)

\* The buffer has whole groups, and none behind the last that a word can have.
GroupsFit ==
  stage = "groups" =>
    /\ Ascending(out)
    /\ \E k \in 0..MaxGroup : Len(queue) = k * (ByteBits - 1)

Kinds ==
  /\ stage \in {"header", "unpack"} => job # "positions"
  /\ stage = "groups" => job = "positions"

CodecInv ==
  Types /\ NotRead /\ BlockIsCovered /\ GroupsFit /\ Kinds /\ DecodedIsWellFormed

\* What the runs check of types and bounds follows.
LEMMA InvImplies ==
  ASSUME CodecInv
  PROVE  TypeOK /\ InBounds /\ DecodedIsWellFormed
<1>1. TypeOK
  BY DEF CodecInv, Types, TypeOK
<1>2. ASSUME stage = "unpack", block > 0, Len(queue) < width PROVE at < end
  <2>1. /\ block \in Nat /\ width \in Nat /\ at \in Nat /\ end \in Nat /\ at <= end
        /\ ByteBits \in Nat /\ Len(queue) \in Nat
        /\ block * width <= Len(queue) + ByteBits * (end - at)
    BY <1>2, WidthAssumption DEF CodecInv, Types, BlockIsCovered
  <2>2. block * width >= width
    BY <1>2, <2>1
  <2>3. end - at # 0
    <3> SUFFICES ASSUME end - at = 0 PROVE FALSE
      OBVIOUS
    <3>1. ByteBits * (end - at) = 0
      BY <2>1
    <3> QED BY <1>2, <2>1, <2>2, <3>1
  <2> QED BY <2>1, <2>3
<1>3. InBounds
  BY <1>2 DEF InBounds, CodecInv, BlockIsCovered
<1> QED BY <1>1, <1>3 DEF CodecInv

\* What the constants are.
LEMMA Constant ==
  /\ ByteBits \in Nat /\ ByteBits >= 2 /\ WordBits \in Nat /\ WordBits >= 1
  /\ BufferBits \in Nat /\ WordBits + ByteBits - 1 <= BufferBits
  /\ HalfByte \in Nat /\ HalfByte >= 2 /\ Byte = 0..(2 * HalfByte - 1)
  /\ WordBits < 2 * HalfByte /\ BlockMax \in 1..(2 * HalfByte - 1)
  /\ Word \subseteq Nat /\ 2^WordBits \in Nat \ {0} /\ 0 \in Word
<1>1. 2^WordBits \in Nat \ {0}
  BY WidthAssumption, PowerIs
<1> QED BY <1>1, WidthAssumption, BlockAssumption, BytesAre DEF Byte, Word

\* Words are natural numbers.
LEMMA WordsAreNumbers ==
  ASSUME NEW s \in Seq(Word)
  PROVE  s \in Seq(Nat)
<1>1. Word \subseteq Nat
  BY Constant
<1>2. \A i \in 1..Len(s) : s[i] \in Word
  OBVIOUS
<1>3. \A i \in 1..Len(s) : s[i] \in Nat
  BY ONLY <1>1, <1>2
<1> QED BY ONLY s \in Seq(Word), <1>3

\* A reader that gives up keeps the invariant.
LEMMA Rejected ==
  ASSUME CodecInv, Reject
  PROVE  CodecInv'
<1>1. Types'
  BY DEF CodecInv, Types, Reject, inputs, writing, reading, Stages
<1> QED BY <1>1 DEF CodecInv, NotRead, BlockIsCovered, GroupsFit, Kinds,
  DecodedIsWellFormed, Reject

\* A writer with its values, or a reader with foreign bytes.
LEMMA InitInv ==
  ASSUME Init
  PROVE  CodecInv
<1>1. block = 0 /\ width = 0 /\ queue = <<>> /\ at = 1 /\ end = 1 /\ out = <<>>
  BY DEF Init
<1>2. CASE \E s \in {t \in Sections : Writable(t)} :
             /\ job = s.kind /\ values = s.values /\ expected = Len(s.values)
             /\ todo = Integers(s.kind, s.values)
             /\ bytes = <<>>
             /\ stage = "write" /\ damage = "none"
  <2>1. PICK s \in Sections :
          /\ Writable(s) /\ job = s.kind /\ expected = Len(s.values)
          /\ todo = Integers(s.kind, s.values) /\ bytes = <<>> /\ stage = "write"
    BY <1>2
  <2>2. PICK k \in {"plain", "deltas", "positions"},
             v \in UNION {[1..n -> Values] : n \in 0..MaxLen} :
               s = [kind |-> k, values |-> v]
    BY DEF Sections
  <2>3. PICK n \in 0..MaxLen : v \in [1..n -> Values]
    BY <2>2
  <2>4. v \in Seq(Word) /\ Len(v) = n /\ n \in Nat
    <3>1. n \in Nat
      BY InputAssumption
    <3>2. v \in [1..n -> Word]
      BY <2>3, InputAssumption DEF Word
    <3> QED BY <3>1, <3>2, SeqDef
  <2>5. todo \in Seq(Word)
    <3>1. CASE k = "plain"
      BY <2>1, <2>2, <2>4, <3>1 DEF Integers
    <3>2. CASE k # "plain"
      <4>1. Ascending(v) /\ todo = Deltas(v)
        BY <2>1, <2>2, <3>2 DEF Integers, Writable
      <4> QED BY <2>4, <4>1, DeltasAre
    <3> QED BY <3>1, <3>2
  <2>6. Types
    BY <1>1, <2>1, <2>2, <2>4, <2>5, Constant DEF Types, Stages
  <2> QED BY <1>1, <2>1, <2>5, <2>6 DEF CodecInv, NotRead, BlockIsCovered, GroupsFit,
    Kinds, DecodedIsWellFormed
<1>3. CASE \E f \in Foreign :
             /\ f.kind = "positions" => f.expected > 0
             /\ job = f.kind /\ expected = f.expected /\ bytes = f.bytes
             /\ values = <<>> /\ todo = <<>>
             /\ stage = StartOf(f.kind) /\ damage = "foreign"
  <2>1. PICK f \in Foreign :
          /\ job = f.kind /\ expected = f.expected /\ bytes = f.bytes
          /\ todo = <<>> /\ stage = StartOf(f.kind)
    BY <1>3
  <2>2. /\ job \in {"plain", "deltas", "positions"} /\ expected \in 0..MaxLen
        /\ bytes \in UNION {[1..n -> Byte] : n \in 0..MaxForeign}
    BY <2>1 DEF Foreign
  <2>3. bytes \in Seq(Byte)
    <3>1. PICK n \in 0..MaxForeign : bytes \in [1..n -> Byte]
      BY <2>2
    <3> QED BY <3>1, InputAssumption, SeqDef
  <2>4. stage = IF job = "positions" THEN "groups" ELSE "header"
    BY <2>1 DEF StartOf
  <2>5. Types
    BY <1>1, <2>1, <2>2, <2>3, <2>4, Constant, InputAssumption DEF Types, Stages
  <2>6. GroupsFit
    <3>1. Ascending(out)
      BY <1>1 DEF Ascending
    <3>2. 0 \in 0..MaxGroup /\ Len(queue) = 0 * (ByteBits - 1)
      BY <1>1, Constant DEF MaxGroup
    <3> QED BY <3>1, <3>2 DEF GroupsFit
  <2> QED BY <1>1, <2>4, <2>5, <2>6 DEF CodecInv, NotRead, BlockIsCovered,
    Kinds, DecodedIsWellFormed
<1> QED BY <1>2, <1>3 DEF Init

-----------------------------------------------------------------------------
(* The writer.                                                             *)

\* Each step of the writer keeps the invariant.
LEMMA StartBlockKeeps ==
  ASSUME CodecInv, StartBlock
  PROVE  CodecInv'
<1> DEFINE n == IF Len(todo) < BlockMax THEN Len(todo) ELSE BlockMax
           chunk == SubSeq(todo, 1, n)
<1>1. /\ stage = "write" /\ todo # <<>> /\ job # "positions"
      /\ block' = Len(chunk) /\ width' = WidthOf(chunk)
      /\ bytes' = bytes \o <<block', width'>>
      /\ UNCHANGED <<job, expected, stage, todo, queue, at, end, out>>
  BY DEF StartBlock, inputs, reading
<1>2. chunk \in Seq(Word) /\ Len(chunk) = n /\ n \in 1..BlockMax /\ n <= Len(todo)
  <2>1. todo \in Seq(Word) /\ Len(todo) \in Nat /\ Len(todo) # 0
    BY <1>1, EmptySeq DEF CodecInv, Types
  <2>2. n \in 1..BlockMax /\ n <= Len(todo) /\ n \in 1..Len(todo)
    BY <2>1, Constant
  <2> HIDE DEF n
  <2> QED BY <2>1, <2>2, SubSeqProperties
<1>3. width' \in 0..WordBits
  BY <1>1, <1>2, WidthIs
<1>4. block' \in Byte /\ width' \in Byte
  BY <1>1, <1>2, <1>3, Constant
<1>5. bytes' \in Seq(Byte) /\ Len(bytes') = Len(bytes) + 2
  <2>1. <<block', width'>> \in Seq(Byte) /\ Len(<<block', width'>>) = 2
    BY <1>4
  <2>2. bytes \in Seq(Byte)
    BY DEF CodecInv, Types
  <2>3. PICK pair : pair = <<block', width'>>
    OBVIOUS
  <2>4. bytes' = bytes \o pair /\ pair \in Seq(Byte) /\ Len(pair) = 2
    BY <1>1, <2>1, <2>3
  <2>5. Len(bytes) \in Nat
    BY <2>2
  <2> QED BY ONLY <2>2, <2>4, <2>5, Joined
<1> HIDE DEF n, chunk
<1>6. Types'
  BY <1>1, <1>2, <1>3, <1>5, Constant DEF CodecInv, Types
<1> QED BY <1>1, <1>2, <1>6 DEF CodecInv, NotRead, BlockIsCovered, GroupsFit, Kinds,
  DecodedIsWellFormed

LEMMA PackValueKeeps ==
  ASSUME CodecInv, PackValue
  PROVE  CodecInv'
<1>1. /\ stage = "write" /\ block > 0 /\ Len(queue) < ByteBits
      /\ queue' = queue \o Bits(Head(todo), width)
      /\ todo' = Tail(todo) /\ block' = block - 1
      /\ UNCHANGED <<job, expected, stage, width, bytes, at, end, out>>
  BY DEF PackValue, inputs, reading
<1>2. /\ todo \in Seq(Word) /\ block \in Nat /\ block <= Len(todo) /\ todo # <<>>
      /\ width \in 0..WordBits /\ queue \in Seq({0, 1})
  BY <1>1, EmptySeq DEF CodecInv, Types, NotRead
<1>3. Head(todo) \in Nat /\ todo' \in Seq(Word) /\ Len(todo') = Len(todo) - 1
  <2>1. Head(todo) \in Word /\ Tail(todo) \in Seq(Word) /\ Len(Tail(todo)) = Len(todo) - 1
    BY ONLY <1>2, Split
  <2> QED BY <1>1, <2>1, Constant
<1>4. Bits(Head(todo), width) \in Seq({0, 1}) /\ Len(Bits(Head(todo), width)) = width
  <2>1. width \in Nat
    BY <1>2, Constant
  <2> QED BY ONLY <1>3, <2>1, BitsAre
<1>5. queue' \in Seq({0, 1}) /\ Len(queue') = Len(queue) + width
  BY ONLY <1>1, <1>2, <1>4, Joined
<1>6. Len(queue') <= BufferBits
  BY <1>1, <1>2, <1>5, Constant
<1>7. Types'
  BY <1>1, <1>2, <1>3, <1>5, <1>6 DEF CodecInv, Types
<1> QED BY <1>1, <1>2, <1>3, <1>7 DEF CodecInv, NotRead, BlockIsCovered, GroupsFit, Kinds,
  DecodedIsWellFormed

\* So many bits are a byte.
LEMMA ByteOfBits ==
  ASSUME NEW bits \in Seq({0, 1}), Len(bits) <= ByteBits
  PROVE  Number(bits) \in Byte
<1>1. Len(bits) \in Nat /\ ByteBits \in Nat
  BY Constant
<1>2. 2^Len(bits) \in Nat /\ 2^ByteBits \in Nat /\ 2^Len(bits) <= 2^ByteBits
  BY <1>1, PowerIs, PowerGrows
<1> QED BY <1>2, NumberIs DEF Byte

LEMMA PutByteKeeps ==
  ASSUME CodecInv, PutByte
  PROVE  CodecInv'
<1> DEFINE taken == IF Len(queue) < ByteBits THEN Len(queue) ELSE ByteBits
<1>1. /\ stage = "write" /\ queue # <<>>
      /\ bytes' = Append(bytes, Number(SubSeq(queue, 1, taken)))
      /\ queue' = SubSeq(queue, taken + 1, Len(queue))
      /\ UNCHANGED <<job, expected, stage, todo, block, width, at, end, out>>
  <2>1. Len(queue) >= ByteBits => queue # <<>>
    BY Constant
  <2> QED BY <2>1 DEF PutByte, inputs, reading, Behind
<1>2. queue \in Seq({0, 1}) /\ Len(queue) \in Nat /\ taken \in 1..Len(queue) /\ taken <= ByteBits
  BY <1>1, EmptySeq, Constant DEF CodecInv, Types
<1> HIDE DEF taken
<1>3. SubSeq(queue, 1, taken) \in Seq({0, 1}) /\ Len(SubSeq(queue, 1, taken)) = taken
  BY ONLY <1>2, Part
<1>4. bytes' \in Seq(Byte) /\ Len(bytes') = Len(bytes) + 1
  <2>1. Number(SubSeq(queue, 1, taken)) \in Byte
    BY <1>2, <1>3, ByteOfBits
  <2>2. bytes \in Seq(Byte)
    BY DEF CodecInv, Types
  <2> QED BY ONLY <1>1, <2>1, <2>2
<1>5. queue' \in Seq({0, 1}) /\ Len(queue') <= Len(queue)
  <2>1. SubSeq(queue, taken + 1, Len(queue)) \in Seq({0, 1})
        /\ Len(SubSeq(queue, taken + 1, Len(queue))) = Len(queue) - (taken + 1) + 1
    <3>1. taken + 1 \in 1..(Len(queue) + 1) /\ taken + 1 <= Len(queue) + 1
      BY <1>2
    <3> QED BY ONLY <1>2, <3>1, Part
  <2> QED BY <1>1, <1>2, <2>1
<1>6. Types'
  BY <1>1, <1>2, <1>4, <1>5, Constant DEF CodecInv, Types
<1> QED BY <1>1, <1>6 DEF CodecInv, NotRead, BlockIsCovered, GroupsFit, Kinds,
  DecodedIsWellFormed

LEMMA PutVariableKeeps ==
  ASSUME CodecInv, PutVariable
  PROVE  CodecInv'
<1>1. /\ stage = "write" /\ job = "positions" /\ todo # <<>>
      /\ bytes' = bytes \o VarBytes[Head(todo)]
      /\ todo' = Tail(todo)
      /\ UNCHANGED <<job, expected, stage, block, width, queue, at, end, out>>
  BY DEF PutVariable, inputs, reading
<1>2. todo \in Seq(Word) /\ bytes \in Seq(Byte) /\ block \in Nat
  BY DEF CodecInv, Types
<1>3. Head(todo) \in Word /\ todo' \in Seq(Word) /\ Len(todo') = Len(todo) - 1
  BY ONLY <1>1, <1>2, Split
<1>4. bytes' \in Seq(Byte) /\ Len(bytes') >= Len(bytes)
  <2>1. PICK more : more \in Seq(Byte) /\ more = VarBytes[Head(todo)]
    BY <1>3, VarBytesAre
  <2>2. bytes' = bytes \o more /\ Len(more) \in Nat /\ Len(bytes) \in Nat
    BY <1>1, <1>2, <2>1
  <2>3. bytes \o more \in Seq(Byte) /\ Len(bytes \o more) = Len(bytes) + Len(more)
    <3>1. bytes \in Seq(Byte) /\ more \in Seq(Byte)
      BY <1>2, <2>1
    <3> QED BY ONLY <3>1, Joined
  <2>4. Len(bytes \o more) >= Len(bytes)
    BY ONLY <2>2, <2>3
  <2> QED BY ONLY <2>2, <2>3, <2>4, Zenon
<1>5. block = 0 /\ block <= Len(todo')
  BY <1>1, <1>3 DEF CodecInv, NotRead
<1>6. at \in 1..(Len(bytes') + 1)
  <2>1. at \in 1..(Len(bytes) + 1) /\ Len(bytes) \in Nat /\ Len(bytes') \in Nat
    BY <1>2, <1>4 DEF CodecInv, Types
  <2> QED BY ONLY <1>4, <2>1
<1>7. Types'
  BY <1>1, <1>3, <1>4, <1>6 DEF CodecInv, Types
<1> QED BY <1>1, <1>5, <1>7 DEF CodecInv, NotRead, BlockIsCovered, GroupsFit, Kinds,
  DecodedIsWellFormed

LEMMA StoreKeeps ==
  ASSUME CodecInv, Store
  PROVE  CodecInv'
<1>1. /\ stage = "write" /\ todo = <<>> /\ queue = <<>> /\ stage' = "stored"
      /\ UNCHANGED <<job, expected, todo, block, width, queue, bytes, at, end, out>>
  BY DEF Store, inputs, writing, reading
<1> QED BY <1>1 DEF CodecInv, Types, NotRead, BlockIsCovered, GroupsFit, Kinds,
  DecodedIsWellFormed, Stages

-----------------------------------------------------------------------------
(* The medium.                                                             *)

\* The bits of bytes are as many as they should be.
LEMMA AllBitsAre ==
  ASSUME NEW data \in Seq(Byte)
  PROVE  AllBits(data) \in Seq({0, 1}) /\ Len(AllBits(data)) = Len(data) * ByteBits
<1> DEFINE n == Len(data) * ByteBits
           bit(i) == Bits(data[((i - 1) \div ByteBits) + 1], ByteBits)[((i - 1) % ByteBits) + 1]
<1>1. ByteBits \in Nat /\ ByteBits >= 2 /\ Len(data) \in Nat /\ n \in Nat /\ Byte \subseteq Nat
  BY Constant
<1>2. ASSUME NEW i \in 1..n PROVE bit(i) \in {0, 1}
  <2>1. PICK k \in Nat : k = i - 1
    BY <1>1
  <2>2. PICK q, r : /\ q = k \div ByteBits /\ r = k % ByteBits
                    /\ q \in Nat /\ r \in 0..(ByteBits - 1) /\ k = ByteBits * q + r
    <3>1. /\ k % ByteBits \in 0..(ByteBits - 1) /\ k \div ByteBits \in 0..k
          /\ k = ByteBits * (k \div ByteBits) + (k % ByteBits)
      BY ONLY <1>1, k \in Nat, Division
    <3> HIDE DEF n, bit
    <3> QED BY <3>1
  <2>3. q < Len(data)
    <3> SUFFICES ASSUME q >= Len(data) PROVE FALSE
      BY <1>1, <2>2
    <3>1. ByteBits * q >= ByteBits * Len(data)
      BY <1>1, <2>2
    <3>2. ByteBits * Len(data) = n
      BY <1>1
    <3> HIDE DEF n
    <3> QED BY <1>1, <2>1, <2>2, <3>1, <3>2
  <2>4. q + 1 \in 1..Len(data) /\ r + 1 \in 1..ByteBits
    BY <1>1, <2>2, <2>3
  <2>5. PICK byte : byte = data[q + 1] /\ byte \in Nat
    <3>1. data[q + 1] \in Byte
      BY ONLY <2>4, data \in Seq(Byte)
    <3> QED BY <1>1, <3>1
  <2>6. Bits(byte, ByteBits) \in Seq({0, 1}) /\ Len(Bits(byte, ByteBits)) = ByteBits
    BY <1>1, <2>5, BitsAre
  <2>7. Bits(byte, ByteBits)[r + 1] \in {0, 1}
    BY <2>4, <2>6
  <2> QED BY <2>1, <2>2, <2>5, <2>7
<1>3. AllBits(data) = [i \in 1..n |-> bit(i)]
  BY DEF AllBits
<1> HIDE DEF n, bit
<1>4. AllBits(data) \in [1..n -> {0, 1}]
  BY <1>2, <1>3
<1>5. AllBits(data) \in Seq({0, 1}) /\ Len(AllBits(data)) = n
  BY <1>1, <1>3, <1>4, SeqDef
<1> QED BY <1>5 DEF n

\* Damage makes bytes of bytes.
LEMMA BurstsAre ==
  ASSUME NEW data \in Seq(Byte), NEW hit \in Bursts(data)
  PROVE  hit \in Seq(Byte)
<1> DEFINE bits == AllBits(data)
           flipped(S) == [i \in DOMAIN bits |-> IF i \in S THEN 1 - bits[i] ELSE bits[i]]
<1>1. bits \in Seq({0, 1}) /\ Len(bits) = Len(data) * ByteBits
  BY AllBitsAre
<1>2. PICK S : hit = [k \in DOMAIN data |->
         Number(SubSeq(flipped(S), (k - 1) * ByteBits + 1, k * ByteBits))]
  BY DEF Bursts
<1>3. flipped(S) \in Seq({0, 1}) /\ Len(flipped(S)) = Len(data) * ByteBits
  <2>1. PICK b, n : b = bits /\ n = Len(b) /\ n \in Nat /\ b \in Seq({0, 1}) /\ DOMAIN b = 1..n
    BY <1>1
  <2>2. flipped(S) = [i \in 1..n |-> IF i \in S THEN 1 - b[i] ELSE b[i]]
    BY <2>1
  <2>3. \A i \in 1..n : b[i] \in {0, 1}
    BY <2>1
  <2> HIDE DEF flipped, bits
  <2>4. flipped(S) \in [1..n -> {0, 1}]
    BY <2>2, <2>3
  <2>5. flipped(S) \in Seq({0, 1}) /\ Len(flipped(S)) = n
    BY <2>1, <2>2, <2>4, SeqDef
  <2> QED BY <1>1, <2>1, <2>5
<1> HIDE DEF flipped, bits
<1>4. ASSUME NEW k \in 1..Len(data)
      PROVE  Number(SubSeq(flipped(S), (k - 1) * ByteBits + 1, k * ByteBits)) \in Byte
  <2>1. ByteBits \in Nat /\ ByteBits >= 2 /\ Len(data) \in Nat /\ k \in Nat /\ k - 1 \in Nat
    BY Constant
  <2>2. PICK a \in Nat, b \in Nat : a = (k - 1) * ByteBits /\ b = k * ByteBits
    BY <2>1
  <2>3. b = a + ByteBits
    BY <2>1, <2>2
  <2>4. b <= Len(data) * ByteBits
    BY <2>1, <2>2
  <2>5. PICK s : s = flipped(S) /\ s \in Seq({0, 1}) /\ Len(s) \in Nat /\ b <= Len(s)
    BY <1>3, <2>4
  <2>6. a + 1 \in 1..(Len(s) + 1) /\ a + 1 <= b + 1
    BY <2>1, <2>3, <2>5
  <2>7. SubSeq(s, a + 1, b) \in Seq({0, 1}) /\ Len(SubSeq(s, a + 1, b)) = b - (a + 1) + 1
    BY ONLY <2>2, <2>5, <2>6, Part
  <2>8. Len(SubSeq(s, a + 1, b)) <= ByteBits
    BY <2>1, <2>3, <2>7
  <2>9. Number(SubSeq(s, a + 1, b)) \in Byte
    BY <2>7, <2>8, ByteOfBits
  <2> QED BY <2>2, <2>5, <2>9
<1>5. hit \in [1..Len(data) -> Byte]
  BY <1>2, <1>4
<1> QED BY <1>5, SeqDef

\* Whatever happens to a section, it stays a sequence of bytes.
LEMMA FetchKeeps ==
  ASSUME CodecInv, Fetch
  PROVE  CodecInv'
<1>1. /\ stage = "stored" /\ stage' = "check"
      /\ bytes' = bytes \/ bytes' \in Bursts(bytes)
      /\ UNCHANGED <<job, expected, todo, block, width, queue, at, end, out>>
  BY DEF Fetch, inputs, writing, reading
<1>2. bytes' \in Seq(Byte)
  BY <1>1, BurstsAre DEF CodecInv, Types
<1> QED BY <1>1, <1>2 DEF CodecInv, Types, NotRead, BlockIsCovered, GroupsFit, Kinds,
  DecodedIsWellFormed, Stages

LEMMA MisplaceKeeps ==
  ASSUME CodecInv, Misplace
  PROVE  CodecInv'
<1>1. /\ stage = "stored" /\ stage' = StartOf(job)
      /\ \/ \E n \in 0..(Len(bytes) - 1) : bytes' = SubSeq(bytes, 1, n)
         \/ \E b \in Byte : bytes' = Append(bytes, b)
      /\ UNCHANGED <<job, expected, todo, block, width, queue, at, end, out>>
  BY DEF Misplace, inputs, writing, reading
<1>2. bytes' \in Seq(Byte)
  <2>0. bytes \in Seq(Byte)
    BY DEF CodecInv, Types
  <2>1. ASSUME NEW n \in 0..(Len(bytes) - 1), bytes' = SubSeq(bytes, 1, n)
        PROVE  bytes' \in Seq(Byte)
    BY <2>0, <2>1
  <2> QED BY <1>1, <2>0, <2>1
<1>3. at = 1 /\ out = <<>> /\ queue = <<>>
  BY <1>1 DEF CodecInv, NotRead
<1>4. stage' = IF job = "positions" THEN "groups" ELSE "header"
  BY <1>1 DEF StartOf
<1>5. GroupsFit'
  <2>1. Ascending(out)
    BY <1>3 DEF Ascending
  <2>2. 0 \in 0..MaxGroup /\ Len(queue) = 0 * (ByteBits - 1)
    BY <1>3, Constant DEF MaxGroup
  <2> QED BY <1>1, <2>1, <2>2 DEF GroupsFit, Ascending, MaxGroup
<1>6. Types'
  BY <1>1, <1>2, <1>3, <1>4 DEF CodecInv, Types, Stages
<1> QED BY <1>1, <1>4, <1>5, <1>6 DEF CodecInv, NotRead, BlockIsCovered, Kinds,
  DecodedIsWellFormed

-----------------------------------------------------------------------------
(* The reader.                                                             *)

\* Each step of the reader keeps the invariant.
LEMMA CheckSumKeeps ==
  ASSUME CodecInv, CheckSum
  PROVE  CodecInv'
<1>1. /\ stage = "check" /\ stage' = StartOf(job)
      /\ UNCHANGED <<job, expected, todo, block, width, queue, bytes, at, end, out>>
  BY DEF CheckSum, inputs, writing, reading
<1>2. out = <<>> /\ queue = <<>>
  BY <1>1 DEF CodecInv, NotRead
<1>3. stage' = IF job = "positions" THEN "groups" ELSE "header"
  BY <1>1 DEF StartOf
<1>4. GroupsFit'
  <2>1. Ascending(out)
    BY <1>2 DEF Ascending
  <2>2. 0 \in 0..MaxGroup /\ Len(queue) = 0 * (ByteBits - 1)
    BY <1>2, Constant DEF MaxGroup
  <2> QED BY <1>1, <2>1, <2>2 DEF GroupsFit, Ascending, MaxGroup
<1>5. Types'
  BY <1>1, <1>3 DEF CodecInv, Types, Stages
<1> QED BY <1>1, <1>3, <1>4, <1>5 DEF CodecInv, NotRead, BlockIsCovered, Kinds,
  DecodedIsWellFormed

\* The bytes of a block hold its values.
LEMMA ByteLengthIs ==
  ASSUME NEW count \in Nat, NEW bits \in Nat
  PROVE  /\ ByteLength(count, bits) \in Nat
         /\ count * bits <= ByteBits * ByteLength(count, bits)
<1>1. PICK b \in Nat : b = ByteBits /\ b >= 2
  BY Constant
<1>2. PICK a \in Nat : a = count * bits
  OBVIOUS
<1>3. (a + b - 1) \div b \in Nat
  BY <1>1
<1>4. b * ((a + b - 1) \div b) >= a
  BY <1>1
<1> QED BY <1>1, <1>2, <1>3, <1>4 DEF ByteLength

LEMMA ReadHeaderKeeps ==
  ASSUME CodecInv, ReadHeader
  PROVE  CodecInv'
<1> DEFINE n == ByteLength(bytes[at], bytes[at + 1])
<1>1. /\ stage = "header" /\ stage' = "unpack" /\ GoodHeader
      /\ block' = bytes[at] /\ width' = bytes[at + 1] /\ queue' = <<>>
      /\ at' = at + 2 /\ end' = at + 2 + n
      /\ UNCHANGED <<job, expected, todo, bytes, out>>
  BY DEF ReadHeader, inputs
<1>2. /\ bytes[at] \in 1..BlockMax /\ bytes[at + 1] <= WordBits
      /\ at + 1 <= Len(bytes) /\ at + 1 + n <= Len(bytes)
  BY <1>1 DEF GoodHeader
<1>3. at \in Nat \ {0} /\ bytes \in Seq(Byte) /\ Len(bytes) \in Nat
  BY DEF CodecInv, Types
<1>4. bytes[at + 1] \in Nat /\ bytes[at] \in Nat
  <2>1. at + 1 \in 1..Len(bytes)
    BY <1>2, <1>3
  <2>2. bytes[at + 1] \in Byte
    BY ONLY <1>3, <2>1
  <2> QED BY <1>2, <2>2, Constant
<1>5. n \in Nat /\ bytes[at] * bytes[at + 1] <= ByteBits * n
  BY <1>4, ByteLengthIs
<1> HIDE DEF n
<1>6. at' \in 1..(Len(bytes) + 1) /\ end' \in Nat /\ at' <= end' /\ end' <= Len(bytes) + 1
      /\ end' - at' = n
  BY <1>1, <1>2, <1>3, <1>5
<1>7. width' \in 0..WordBits /\ block' \in Nat
  BY <1>1, <1>2, <1>4, Constant
<1>8. Types'
  BY <1>1, <1>6, <1>7, Constant DEF CodecInv, Types, Stages
<1>9. BlockIsCovered'
  <2>0. block' * width' <= ByteBits * (end' - at')
    BY <1>1, <1>5, <1>6
  <2>1. Len(queue') = 0 /\ block' * width' <= Len(queue') + ByteBits * (end' - at')
    <3>1. Len(queue') = 0
      BY <1>1
    <3>2. PICK m \in Nat : m = ByteBits * (end' - at')
      <4>1. ByteBits * n \in Nat
        BY <1>5, Constant
      <4> QED BY <1>6, <4>1
    <3>3. block' * width' <= m
      BY <2>0, <3>2
    <3>4. block' * width' \in Int
      BY <1>7, Constant
    <3> QED BY <3>1, <3>2, <3>3, <3>4
  <2>2. Len(queue') < width' + ByteBits
    <3>1. PICK n0 \in Nat : n0 = Len(queue') /\ n0 = 0
      BY <1>1
    <3>2. n0 < width' + ByteBits
      <4>1. width' \in Nat
        BY <1>7, Constant
      <4>2. ByteBits \in Nat /\ ByteBits >= 2
        BY Constant
      <4>3. PICK b \in Nat : b = ByteBits /\ b >= 2
        BY <4>2
      <4>4. PICK w \in Nat : w = width'
        BY <4>1
      <4>5. 0 < w + b
        BY <4>3
      <4> QED BY <3>1, <4>3, <4>4, <4>5
    <3> QED BY <3>1, <3>2
  <2> QED BY <1>1, <1>6, <2>1, <2>2 DEF BlockIsCovered
<1> QED BY <1>1, <1>8, <1>9 DEF CodecInv, NotRead, GroupsFit, Kinds, DecodedIsWellFormed

LEMMA LoadByteKeeps ==
  ASSUME CodecInv, LoadByte
  PROVE  CodecInv'
<1>1. /\ stage = "unpack" /\ block > 0 /\ Len(queue) < width
      /\ queue' = queue \o Bits(bytes[at], ByteBits) /\ at' = at + 1
      /\ UNCHANGED <<job, expected, stage, todo, block, width, bytes, end, out>>
  BY DEF LoadByte, inputs
<1>2. /\ at \in Nat \ {0} /\ end \in Nat /\ bytes \in Seq(Byte) /\ Len(bytes) \in Nat
      /\ queue \in Seq({0, 1}) /\ Len(queue) \in Nat /\ block \in Nat /\ width \in 0..WordBits
      /\ end <= Len(bytes) + 1
      /\ block * width <= Len(queue) + ByteBits * (end - at)
  BY <1>1 DEF CodecInv, Types, BlockIsCovered
<1>3. at < end
  BY <1>1, InvImplies DEF InBounds
<1>4. bytes[at] \in Nat
  <2>1. at \in 1..Len(bytes)
    BY <1>2, <1>3
  <2>2. bytes[at] \in Byte
    BY ONLY <1>2, <2>1
  <2> QED BY <2>2, Constant
<1>5. queue' \in Seq({0, 1}) /\ Len(queue') = Len(queue) + ByteBits
  <2>1. Bits(bytes[at], ByteBits) \in Seq({0, 1}) /\ Len(Bits(bytes[at], ByteBits)) = ByteBits
    BY <1>4, Constant, BitsAre
  <2> QED BY ONLY <1>1, <1>2, <2>1, Joined
<1>6. Len(queue') <= BufferBits /\ Len(queue') < width + ByteBits
  BY <1>1, <1>2, <1>5, Constant
<1>7. at' \in 1..(Len(bytes) + 1) /\ at' <= end
  BY <1>1, <1>2, <1>3
<1>8. block * width <= Len(queue') + ByteBits * (end - at')
  <2>1. PICK d \in Nat : d = end - at' /\ end - at = d + 1
    BY <1>1, <1>2, <1>3
  <2>2. ByteBits * (end - at) = ByteBits * (end - at') + ByteBits
    <3>1. ByteBits * (d + 1) = ByteBits * d + ByteBits
      BY Constant
    <3> QED BY <2>1, <3>1
  <2>3. ByteBits * (end - at') \in Nat
    BY <2>1, Constant
  <2>4. PICK m \in Nat : m = ByteBits * (end - at')
    BY <2>3
  <2>5. block * width <= Len(queue) + (m + ByteBits)
    BY <1>2, <2>2, <2>4
  <2>6. block * width \in Nat
    BY <1>2, Constant
  <2> QED BY <1>2, <1>5, <2>4, <2>5, <2>6, Constant
<1>9. Types'
  BY <1>1, <1>5, <1>6, <1>7 DEF CodecInv, Types
<1>10. BlockIsCovered'
  BY <1>1, <1>2, <1>6, <1>7, <1>8 DEF BlockIsCovered
<1> QED BY <1>1, <1>9, <1>10 DEF CodecInv, NotRead, GroupsFit, Kinds, DecodedIsWellFormed

LEMMA TakeValueKeeps ==
  ASSUME CodecInv, TakeValue
  PROVE  CodecInv'
<1>1. /\ stage = "unpack" /\ block > 0 /\ Len(queue) >= width
      /\ out' = Append(out, Number(SubSeq(queue, 1, width)))
      /\ queue' = SubSeq(queue, width + 1, Len(queue))
      /\ block' = block - 1
      /\ UNCHANGED <<job, expected, stage, todo, width, bytes, at, end>>
  BY DEF TakeValue, inputs, Behind
<1>2. /\ at \in Nat /\ end \in Nat /\ at <= end /\ end <= Len(bytes) + 1
      /\ queue \in Seq({0, 1}) /\ Len(queue) \in Nat /\ block \in Nat /\ width \in 0..WordBits
      /\ width \in Nat /\ out \in Seq(Word) /\ Len(queue) < width + ByteBits
      /\ block * width <= Len(queue) + ByteBits * (end - at)
  BY <1>1, Constant DEF CodecInv, Types, BlockIsCovered
<1>3. Number(SubSeq(queue, 1, width)) \in Word
  <2>1. 1 \in 1..(Len(queue) + 1) /\ 1 <= width + 1 /\ width <= Len(queue)
    BY <1>1, <1>2
  <2>2. SubSeq(queue, 1, width) \in Seq({0, 1}) /\ Len(SubSeq(queue, 1, width)) = width - 1 + 1
    BY ONLY <1>2, <2>1, Part
  <2>3. Len(SubSeq(queue, 1, width)) = width
    BY <1>2, <2>2
  <2>4. Number(SubSeq(queue, 1, width)) \in 0..(2^width - 1)
    BY <2>2, <2>3, NumberIs
  <2>5. 2^width \in Nat /\ 2^WordBits \in Nat /\ 2^width <= 2^WordBits
    BY <1>2, Constant, PowerIs, PowerGrows
  <2> QED BY <2>4, <2>5 DEF Word
<1>4. out' \in Seq(Word)
  BY ONLY <1>1, <1>2, <1>3
<1>5. queue' \in Seq({0, 1}) /\ Len(queue') = Len(queue) - width
  <2>1. width + 1 \in 1..(Len(queue) + 1) /\ width + 1 <= Len(queue) + 1
    BY <1>1, <1>2
  <2>2. /\ SubSeq(queue, width + 1, Len(queue)) \in Seq({0, 1})
        /\ Len(SubSeq(queue, width + 1, Len(queue))) = Len(queue) - (width + 1) + 1
    <3>1. Len(queue) <= Len(queue)
      BY <1>2
    <3> QED BY ONLY <1>2, <2>1, <3>1, Part
  <2> QED BY <1>1, <1>2, <2>2
<1>6. Len(queue') <= BufferBits /\ Len(queue') < width + ByteBits
  BY <1>1, <1>2, <1>5, Constant
<1>7. block' * width <= Len(queue') + ByteBits * (end - at)
  <2>1. (block - 1) * width = block * width - width
    BY <1>2
  <2>2. PICK d \in Int : d = ByteBits * (end - at)
    BY <1>2, Constant
  <2> QED BY <1>1, <1>2, <1>5, <2>1, <2>2
<1>8. block' \in Nat
  BY <1>1, <1>2
<1>9. Types'
  BY <1>1, <1>4, <1>5, <1>6, <1>8 DEF CodecInv, Types
<1>10. BlockIsCovered'
  BY <1>1, <1>2, <1>6, <1>7 DEF BlockIsCovered
<1> QED BY <1>1, <1>9, <1>10 DEF CodecInv, NotRead, GroupsFit, Kinds, DecodedIsWellFormed

LEMMA BlockEndsKeeps ==
  ASSUME CodecInv, BlockEnds
  PROVE  CodecInv'
<1>1. /\ stage = "unpack" /\ stage' = "header" /\ at' = end
      /\ UNCHANGED <<job, expected, todo, block, width, queue, bytes, end, out>>
  BY DEF BlockEnds, inputs, writing
<1>2. end \in 1..(Len(bytes) + 1)
  <2>1. at \in 1..(Len(bytes) + 1) /\ end \in Nat /\ at <= end /\ end <= Len(bytes) + 1
        /\ Len(bytes) \in Nat
    BY <1>1 DEF CodecInv, Types, BlockIsCovered
  <2> QED BY <2>1
<1>3. Types'
  BY <1>1, <1>2 DEF CodecInv, Types, Stages
<1> QED BY <1>1, <1>3 DEF CodecInv, NotRead, BlockIsCovered, GroupsFit, Kinds,
  DecodedIsWellFormed

LEMMA ReadEndsKeeps ==
  ASSUME CodecInv, ReadEnds
  PROVE  CodecInv'
<1>1. /\ stage = "header" /\ Len(out) = expected /\ stage' = "done"
      /\ job = "deltas" => Summable(out)
      /\ out' = IF job = "deltas" THEN Sums(out) ELSE out
      /\ UNCHANGED <<job, expected, todo, block, width, queue, bytes, at, end>>
  BY DEF ReadEnds, inputs, writing
<1>2. job \in {"plain", "deltas"} /\ out \in Seq(Word) /\ out \in Seq(Nat)
  <2>1. job \in {"plain", "deltas"} /\ out \in Seq(Word)
    BY <1>1 DEF CodecInv, Types, Kinds
  <2> QED BY <2>1, WordsAreNumbers
<1>3. CASE job = "deltas"
  <2>1. /\ Sums(out) \in Seq(Nat) /\ Len(Sums(out)) = Len(out)
        /\ \A i \in 2..Len(out) : Sums(out)[i] = Sums(out)[i - 1] + out[i]
    BY ONLY <1>2, SumsAre
  <2>2. \A i \in 1..Len(out) : (i > 1 => out[i] > 0) /\ Sums(out)[i] \in Word
    <3>1. DOMAIN out = 1..Len(out)
      BY <1>2
    <3> QED BY <1>1, <1>3, <3>1 DEF Summable
  <2>3. PICK s : s = Sums(out) /\ s \in Seq(Nat) /\ Len(s) = Len(out)
    BY <2>1
  <2>4. s \in Seq(Word)
    <3>1. \A i \in 1..Len(s) : s[i] \in Word
      BY <2>2, <2>3
    <3> QED BY ONLY <2>3, <3>1
  <2>5. \A i \in 2..Len(s) : s[i - 1] < s[i]
    <3> SUFFICES ASSUME NEW i \in 2..Len(s) PROVE s[i - 1] < s[i]
      OBVIOUS
    <3>1. i \in 1..Len(out) /\ i - 1 \in 1..Len(s) /\ i > 1
      BY <1>2, <2>3
    <3>2. s[i] = s[i - 1] + out[i]
      BY <2>1, <2>3
    <3>3. out[i] > 0 /\ s[i - 1] \in Nat /\ out[i] \in Nat
      BY <1>2, <2>2, <2>3, <3>1
    <3> QED BY <3>2, <3>3
  <2>6. Ascending(s)
    BY ONLY <2>3, <2>5, StepsAscend
  <2>7. Types'
    BY <1>1, <1>3, <2>3, <2>4 DEF CodecInv, Types, Stages
  <2>8. DecodedIsWellFormed'
    BY <1>1, <1>3, <2>3, <2>6 DEF DecodedIsWellFormed, Ascending
  <2> QED BY <1>1, <2>7, <2>8 DEF CodecInv, NotRead, BlockIsCovered, GroupsFit, Kinds
<1>4. CASE job = "plain"
  BY <1>1, <1>4 DEF CodecInv, Types, NotRead, BlockIsCovered, GroupsFit, Kinds,
    DecodedIsWellFormed, Stages
<1> QED BY <1>2, <1>3, <1>4

\* The last group of a word has less than a whole group of bits.
LEMMA LastIs ==
  /\ MaxGroup \in Nat /\ LastShift = MaxGroup * (ByteBits - 1)
  /\ LastShift <= WordBits - 1 /\ LastShift \in Nat
  /\ WordBits - LastShift \in 1..(ByteBits - 1)
  /\ LastGroup < HalfByte
<1>1. PICK h \in Nat, w \in Nat : h = ByteBits - 1 /\ w = WordBits - 1 /\ h >= 1
  BY Constant
<1>2. w \div h \in Nat /\ w % h \in 0..(h - 1) /\ w = h * (w \div h) + (w % h)
  BY <1>1
<1>3. PICK q \in Nat : q = w \div h
  BY <1>2
<1>4. MaxGroup = q /\ LastShift = q * h
  BY <1>1, <1>3 DEF MaxGroup, LastShift
<1>5. w = h * q + (w % h) /\ h * q = q * h /\ h * q \in Nat
  BY <1>2, <1>3
<1>6. LastShift <= WordBits - 1 /\ LastShift \in Nat /\ WordBits - LastShift \in 1..(ByteBits - 1)
  BY <1>1, <1>2, <1>4, <1>5, Constant
<1>7. LastGroup < HalfByte
  <2>1. /\ WordBits - LastShift \in Nat /\ ByteBits - 1 \in Nat
        /\ WordBits - LastShift <= ByteBits - 1
    BY <1>6, Constant
  <2>2. 2^(WordBits - LastShift) <= HalfByte /\ 2^(WordBits - LastShift) \in Nat
    BY <2>1, PowerGrows, PowerIs DEF HalfByte
  <2> QED BY <2>2, Constant DEF LastGroup
<1> QED BY <1>1, <1>3, <1>4, <1>6, <1>7

LEMMA ReadGroupKeeps ==
  ASSUME CodecInv, ReadGroup
  PROVE  CodecInv'
<1>0. at \in Nat /\ Len(bytes) \in Nat
  BY DEF CodecInv, Types
<1>1. /\ stage = "groups" /\ at <= Len(bytes) /\ bytes[at] >= HalfByte
      /\ ~(Len(queue) = LastShift /\ bytes[at] > LastGroup)
      /\ queue' = queue \o Bits(bytes[at] - HalfByte, ByteBits - 1) /\ at' = at + 1
      /\ UNCHANGED <<job, expected, stage, todo, block, width, bytes, end, out>>
  BY <1>0 DEF ReadGroup, inputs, Truncated, TooLarge
<1>2. /\ at \in Nat \ {0} /\ bytes \in Seq(Byte) /\ Len(bytes) \in Nat
      /\ queue \in Seq({0, 1}) /\ Len(queue) \in Nat /\ Ascending(out)
  BY <1>1 DEF CodecInv, Types, GroupsFit
<1>3. PICK k \in 0..MaxGroup : Len(queue) = k * (ByteBits - 1)
  BY <1>1 DEF CodecInv, GroupsFit
<1>4. bytes[at] - HalfByte \in Nat /\ bytes[at] \in Int
  <2>1. at \in 1..Len(bytes)
    BY <1>1, <1>2
  <2>2. bytes[at] \in Byte
    BY ONLY <1>2, <2>1
  <2> QED BY <1>1, <2>2, Constant
<1>5. queue' \in Seq({0, 1}) /\ Len(queue') = Len(queue) + (ByteBits - 1)
  <2>1. PICK b : b = Bits(bytes[at] - HalfByte, ByteBits - 1)
    OBVIOUS
  <2>2. ByteBits - 1 \in Nat
    BY Constant
  <2>3. b \in Seq({0, 1}) /\ Len(b) = ByteBits - 1
    BY ONLY <1>4, <2>1, <2>2, BitsAre
  <2>4. queue' = queue \o b
    BY <1>1, <2>1
  <2> QED BY ONLY <1>2, <2>3, <2>4, Joined
<1>6. k < MaxGroup
  <2>1. bytes[at] > LastGroup
    <3>2. LastGroup \in Int
      <4>1. WordBits - LastShift \in Nat
        BY LastIs, Constant
      <4> QED BY <4>1, PowerIs DEF LastGroup
    <3> QED BY <1>1, <1>4, <3>2, LastIs, Constant
  <2>2. Len(queue) # LastShift
    BY <1>1, <2>1
  <2>3. k # MaxGroup
    BY <1>3, <2>2, LastIs
  <2> QED BY <1>3, <2>3, LastIs
<1>7. k + 1 \in 0..MaxGroup /\ Len(queue') = (k + 1) * (ByteBits - 1)
  <2>1. (k + 1) * (ByteBits - 1) = k * (ByteBits - 1) + (ByteBits - 1)
    BY LastIs, Constant
  <2> QED BY <1>3, <1>5, <1>6, <2>1, LastIs
<1>8. Len(queue') <= BufferBits
  <2>1. PICK h \in Nat : h = ByteBits - 1
    BY Constant
  <2>2. (k + 1) * h <= MaxGroup * h
    BY <1>6, <1>7, LastIs
  <2> QED BY <1>7, <2>1, <2>2, LastIs, Constant
<1>9. at' \in 1..(Len(bytes) + 1)
  BY <1>1, <1>2
<1>10. Types'
  BY <1>1, <1>5, <1>8, <1>9 DEF CodecInv, Types
<1>11. GroupsFit'
  BY <1>1, <1>2, <1>7 DEF GroupsFit, Ascending, MaxGroup
<1> QED BY <1>1, <1>10, <1>11 DEF CodecInv, NotRead, BlockIsCovered, Kinds,
  DecodedIsWellFormed

LEMMA ReadPositionKeeps ==
  ASSUME CodecInv, ReadPosition
  PROVE  CodecInv'
<1>0. at \in Nat /\ Len(bytes) \in Nat
  BY DEF CodecInv, Types
<1>1. /\ stage = "groups" /\ at <= Len(bytes) /\ GoodPosition
      /\ out' = Append(out, Position) /\ queue' = <<>> /\ at' = at + 1
      /\ UNCHANGED <<job, expected, stage, todo, block, width, bytes, end>>
  BY <1>0 DEF ReadPosition, inputs, Truncated
<1>2. /\ at \in Nat \ {0} /\ bytes \in Seq(Byte) /\ Len(bytes) \in Nat
      /\ queue \in Seq({0, 1}) /\ Ascending(out) /\ out \in Seq(Word)
  BY <1>1 DEF CodecInv, Types, GroupsFit
<1>3. Integer \in Nat
  <2>1. at \in 1..Len(bytes)
    BY <1>1, <1>2
  <2>2. bytes[at] \in Byte
    BY ONLY <1>2, <2>1
  <2>3. bytes[at] \in Nat /\ ByteBits - 1 \in Nat
    BY <2>2, Constant
  <2>4. PICK b : b = Bits(bytes[at], ByteBits - 1)
    OBVIOUS
  <2>5. b \in Seq({0, 1})
    BY ONLY <2>3, <2>4, BitsAre
  <2>6. queue \o b \in Seq({0, 1})
    BY ONLY <1>2, <2>5, Joined
  <2>7. Len(queue \o b) \in Nat
    BY <2>6
  <2>8. Number(queue \o b) \in 0..(2^Len(queue \o b) - 1)
    BY <2>6, NumberIs
  <2> QED BY <2>4, <2>8 DEF Integer
<1>4. Position \in Word /\ Position \in Nat /\ (out # <<>> => Integer > 0)
  BY <1>1, Constant DEF GoodPosition
<1>5. out' \in Seq(Word)
  BY ONLY <1>1, <1>2, <1>4
<1>6. out \in Seq(Nat)
  BY <1>2, WordsAreNumbers
<1>7. out # <<>> => out[Len(out)] < Position
  <2> SUFFICES ASSUME out # <<>> PROVE out[Len(out)] < Position
    OBVIOUS
  <2>1. out[Len(out)] \in Nat
    BY <1>6, EmptySeq
  <2> QED BY <1>3, <1>4, <2>1 DEF Position
<1>8. Ascending(out')
  <2>1. Ascending(Append(out, Position))
    BY ONLY <1>2, <1>4, <1>6, <1>7, AscendsFurther
  <2> QED BY <1>1, <2>1
<1>9. at' \in 1..(Len(bytes) + 1)
  BY <1>1, <1>2
<1>10. Types'
  BY <1>1, <1>5, <1>9, Constant DEF CodecInv, Types
<1>11. GroupsFit'
  <2>1. 0 \in 0..MaxGroup /\ Len(queue') = 0 * (ByteBits - 1)
    BY <1>1, LastIs, Constant
  <2> QED BY <1>8, <2>1 DEF GroupsFit, Ascending, MaxGroup
<1> QED BY <1>1, <1>10, <1>11 DEF CodecInv, NotRead, BlockIsCovered, Kinds,
  DecodedIsWellFormed

LEMMA PositionsEndKeeps ==
  ASSUME CodecInv, PositionsEnd
  PROVE  CodecInv'
<1>1. /\ stage = "groups" /\ Len(out) = expected /\ stage' = "done"
      /\ UNCHANGED <<job, expected, todo, block, width, queue, bytes, at, end, out>>
  BY DEF PositionsEnd, inputs, writing, reading
<1> QED BY <1>1 DEF CodecInv, Types, NotRead, BlockIsCovered, GroupsFit, Kinds,
  DecodedIsWellFormed, Stages, Ascending

\* All steps together.
LEMMA NextKeeps ==
  ASSUME CodecInv, [Next]_vars
  PROVE  CodecInv'
<1>1. CASE Write
  BY <1>1, StartBlockKeeps, PackValueKeeps, PutByteKeeps, PutVariableKeeps, StoreKeeps
    DEF Write
<1>2. CASE Fetch
  BY <1>2, FetchKeeps
<1>3. CASE Misplace
  BY <1>3, MisplaceKeeps
<1>4. CASE Unpack
  <2>1. CASE CheckFails \/ HeaderFails \/ EndFails
    BY <2>1, Rejected DEF CheckFails, HeaderFails, EndFails
  <2> QED BY <1>4, <2>1, CheckSumKeeps, ReadHeaderKeeps, LoadByteKeeps, TakeValueKeeps,
    BlockEndsKeeps, ReadEndsKeeps DEF Unpack
<1>5. CASE ReadVariable
  <2>1. CASE GroupFails \/ PositionsFail
    BY <2>1, Rejected DEF GroupFails, PositionsFail
  <2> QED BY <1>5, <2>1, ReadGroupKeeps, ReadPositionKeeps, PositionsEndKeeps
    DEF ReadVariable
<1>6. CASE UNCHANGED vars
  BY <1>6 DEF vars, inputs, writing, reading, CodecInv, Types, NotRead, BlockIsCovered,
    GroupsFit, Kinds, DecodedIsWellFormed, Ascending
<1> QED BY <1>1, <1>2, <1>3, <1>4, <1>5, <1>6 DEF Next

-----------------------------------------------------------------------------
(* Numbers and their bits.                                                 *)

\* Quotient and remainder are the only ones.
LEMMA DivisionIs ==
  ASSUME NEW n \in Nat, NEW d \in Nat \ {0}, NEW q \in Nat, NEW r \in 0..(d - 1),
         n = d * q + r
  PROVE  n \div d = q /\ n % d = r
<1>1. PICK p \in Nat : p = n \div d
  OBVIOUS
<1>2. PICK m \in 0..(d - 1) : m = n % d
  OBVIOUS
<1>3. n = d * p + m
  <2>1. n = d * (n \div d) + (n % d)
    OBVIOUS
  <2> QED BY <1>1, <1>2, <2>1
<1>4. ASSUME NEW x \in Nat, NEW y \in Nat, x < y PROVE d * x + d <= d * y
  <2>1. PICK z \in Nat : y = x + 1 + z
    <3>1. y - x - 1 \in Nat /\ y = x + 1 + (y - x - 1)
      BY <1>4
    <3> QED BY <3>1
  <2>2. d * (x + 1 + z) = d * x + d + d * z /\ d * z \in Nat
    OBVIOUS
  <2> QED BY <2>1, <2>2
<1>5. d * p \in Nat /\ d * q \in Nat
  OBVIOUS
<1>6. ~(p < q)
  <2> SUFFICES ASSUME p < q PROVE FALSE
    OBVIOUS
  <2>1. d * p + d <= d * q
    BY <1>4
  <2> QED BY ONLY <2>1, <1>3, <1>5, n = d * q + r, r \in 0..(d - 1), m \in 0..(d - 1), d \in Nat
<1>7. ~(q < p)
  <2> SUFFICES ASSUME q < p PROVE FALSE
    OBVIOUS
  <2>1. d * q + d <= d * p
    BY <1>4
  <2> QED BY ONLY <2>1, <1>3, <1>5, n = d * q + r, r \in 0..(d - 1), m \in 0..(d - 1), d \in Nat
<1>8. p = q
  BY <1>6, <1>7
<1>9. m = r
  BY ONLY <1>3, <1>5, <1>8, n = d * q + r, r \in 0..(d - 1), m \in 0..(d - 1), d \in Nat
<1> QED BY <1>1, <1>2, <1>8, <1>9

\* The power of a sum of exponents.
LEMMA PowersMultiply ==
  ASSUME NEW m \in Nat, NEW n \in Nat
  PROVE  2^(m + n) = 2^m * 2^n
<1> DEFINE S == {k \in Nat : 2^(m + k) = 2^m * 2^k}
<1>1. 0 \in S
  <2>1. 2^m * 1 = 2^m /\ m + 0 = m
    BY PowerIs
  <2> QED BY <2>1, PowerIs
<1>2. ASSUME NEW k \in Nat, k \in S PROVE k + 1 \in S
  <2>1. PICK a \in Nat, b \in Nat : a = 2^m /\ b = 2^k
    BY PowerIs
  <2>2. 2^((m + k) + 1) = 2 * 2^(m + k) /\ 2^(k + 1) = 2 * b
    BY <2>1, PowerIs
  <2>3. 2^(m + k) = a * b
    BY <1>2, <2>1
  <2>4. 2 * (a * b) = a * (2 * b)
    OBVIOUS
  <2>5. m + (k + 1) = (m + k) + 1
    OBVIOUS
  <2> QED BY <2>1, <2>2, <2>3, <2>4, <2>5
<1> HIDE DEF S
<1>3. n \in S
  BY <1>1, <1>2, Induction
<1> QED BY <1>3 DEF S

\* A number is what its bits say.
LEMMA NumberOfBits ==
  ASSUME NEW n \in Nat, NEW k \in Nat, n < 2^k
  PROVE  Number(Bits(n, k)) = n
<1>1. PICK bits : bits = Bits(n, k) /\ bits \in Seq({0, 1}) /\ Len(bits) = k
  BY BitsAre
<1>2. PICK w : /\ w \in [0..k -> Nat] /\ w[0] = 0 /\ Number(bits) = w[k]
               /\ \A i \in 1..k : w[i] = w[i - 1] + bits[i] * 2^(i - 1)
  <2>1. bits \in Seq(Nat)
    BY <1>1, SeqDef
  <2> QED BY <1>1, <2>1, WeightsAre
<1> DEFINE S == {i \in Nat : i <= k => w[i] = n % 2^i}
<1>3. 0 \in S
  <2>1. n % 1 = 0
    OBVIOUS
  <2> QED BY <1>2, <2>1, PowerIs
<1>4. ASSUME NEW i \in Nat, i \in S PROVE i + 1 \in S
  <2> SUFFICES ASSUME i + 1 <= k PROVE w[i + 1] = n % 2^(i + 1)
    OBVIOUS
  <2>1. PICK p \in Nat \ {0} : p = 2^i /\ 2^(i + 1) = 2 * p
    BY PowerIs
  <2>2. PICK q \in Nat, r \in 0..(p - 1) : q = n \div p /\ r = n % p /\ n = p * q + r
    <3>1. n \div p \in Nat /\ n % p \in 0..(p - 1) /\ n = p * (n \div p) + (n % p)
      OBVIOUS
    <3> QED BY <3>1
  <2>3. PICK h \in Nat, b \in 0..1 : b = q % 2 /\ q = 2 * h + b
    <3>1. q \div 2 \in Nat /\ q % 2 \in 0..1 /\ q = 2 * (q \div 2) + (q % 2)
      OBVIOUS
    <3> QED BY <3>1
  <2>4. bits[i + 1] = b
    <3>1. i + 1 \in 1..k /\ (i + 1) - 1 = i
      OBVIOUS
    <3>2. bits[i + 1] = (n \div 2^i) % 2
      BY <1>1, <3>1 DEF Bits
    <3> QED BY <2>1, <2>2, <2>3, <3>2
  <2>5. w[i + 1] = r + b * p
    <3>1. i + 1 \in 1..k /\ (i + 1) - 1 = i /\ i <= k
      OBVIOUS
    <3>2. w[i + 1] = w[i] + bits[i + 1] * 2^i
      BY <1>2, <3>1
    <3>3. w[i] = n % 2^i
      BY <1>4, <3>1
    <3> QED BY <2>1, <2>2, <2>4, <3>2, <3>3
  <2>6. n = (2 * p) * h + (r + b * p)
    <3>1. p * (2 * h + b) = (2 * p) * h + b * p
      OBVIOUS
    <3>2. n = p * (2 * h + b) + r
      BY ONLY <2>2, <2>3
    <3>3. p * (2 * h + b) \in Nat /\ (2 * p) * h \in Nat /\ b * p \in Nat
      OBVIOUS
    <3>4. PICK u \in Nat, v \in Nat : u = (2 * p) * h /\ v = b * p
      BY <3>3
    <3>5. n = (u + v) + r
      BY <3>1, <3>2, <3>4
    <3>6. n = u + (r + v)
      BY <3>5
    <3> QED BY <3>4, <3>6
  <2>7. r + b * p \in 0..(2 * p - 1)
    <3>1. b * p = 0 \/ b * p = p
      BY <2>3
    <3> QED BY <3>1
  <2>8. PICK d \in Nat \ {0}, e \in Nat :
          d = 2 * p /\ e = r + b * p /\ e \in 0..(d - 1) /\ n = d * h + e
    BY <2>6, <2>7
  <2>9. n % d = e
    BY ONLY n \in Nat, h \in Nat, <2>8, d \in Nat \ {0}, DivisionIs
  <2> QED BY <2>1, <2>5, <2>8, <2>9
<1> HIDE DEF S
<1>5. k \in S
  BY <1>3, <1>4, Induction
<1>6. w[k] = n % 2^k
  BY <1>5 DEF S
<1>7. n % 2^k = n
  <2>1. PICK p \in Nat \ {0} : p = 2^k
    BY PowerIs
  <2>2. n = p * 0 + n /\ n \in 0..(p - 1)
    BY <2>1
  <2>3. n % p = n
    BY ONLY n \in Nat, p \in Nat \ {0}, <2>2, 0 \in Nat, DivisionIs
  <2> QED BY <2>1, <2>3
<1> QED BY <1>1, <1>2, <1>6, <1>7

\* The bits of a number are those it was made of.
LEMMA BitsOfNumber ==
  ASSUME NEW bits \in Seq({0, 1}), NEW x \in 1..Len(bits)
  PROVE  (Number(bits) \div 2^(x - 1)) % 2 = bits[x]
<1>1. PICK k \in Nat : k = Len(bits)
  OBVIOUS
<1>2. bits \in Seq(Nat) /\ \A i \in 1..k : bits[i] \in {0, 1}
  BY <1>1, SeqDef
<1>3. PICK w : /\ w \in [0..k -> Nat] /\ w[0] = 0 /\ Number(bits) = w[k]
               /\ \A i \in 1..k : w[i] = w[i - 1] + bits[i] * 2^(i - 1)
  BY <1>1, <1>2, WeightsAre
<1>4. PICK y \in Nat, p \in Nat \ {0} : y = x - 1 /\ x = y + 1 /\ p = 2^y
  <2>1. x - 1 \in Nat /\ x = (x - 1) + 1
    BY <1>1
  <2> QED BY <2>1, PowerIs
<1>5. w[y] < p
  <2> DEFINE T == {i \in Nat : i <= k => w[i] < 2^i}
  <2>1. 0 \in T
    BY <1>3, PowerIs
  <2>2. ASSUME NEW i \in Nat, i \in T PROVE i + 1 \in T
    <3> SUFFICES ASSUME i + 1 <= k PROVE w[i + 1] < 2^(i + 1)
      OBVIOUS
    <3>1. i + 1 \in 1..k /\ (i + 1) - 1 = i /\ i \in 0..k
      BY <1>1
    <3>2. w[i + 1] = w[i] + bits[i + 1] * 2^i /\ w[i] < 2^i /\ w[i] \in Nat
      BY <1>3, <2>2, <3>1
    <3>3. PICK c \in Nat : c = 2^i /\ 2^(i + 1) = 2 * c
      BY PowerIs
    <3>4. bits[i + 1] * c = 0 \/ bits[i + 1] * c = c
      BY <1>2, <3>1
    <3> QED BY <3>2, <3>3, <3>4
  <2> HIDE DEF T
  <2>3. y \in T
    BY <2>1, <2>2, Induction
  <2> QED BY <1>1, <1>4, <2>3 DEF T
<1> DEFINE S == {j \in Nat : y + 1 + j <= k =>
                   \E h \in Nat : w[y + 1 + j] = w[y] + p * (bits[x] + 2 * h)}
<1>6. 0 \in S
  <2>1. x \in 1..k /\ y + 1 + 0 = x
    BY <1>1, <1>4
  <2>2. w[x] = w[y] + bits[x] * p
    BY <1>3, <1>4, <2>1
  <2>3. bits[x] * p = p * (bits[x] + 2 * 0)
    BY <1>2, <2>1
  <2>4. 0 \in Nat
    OBVIOUS
  <2>5. w[y + 1 + 0] = w[y] + p * (bits[x] + 2 * 0)
    BY <2>1, <2>2, <2>3
  <2> QED BY <2>4, <2>5
<1>7. ASSUME NEW j \in Nat, j \in S PROVE j + 1 \in S
  <2> SUFFICES ASSUME y + 1 + (j + 1) <= k
               PROVE  \E h \in Nat : w[y + 1 + (j + 1)] = w[y] + p * (bits[x] + 2 * h)
    OBVIOUS
  <2>1. y + 1 + j <= k
    BY <1>1
  <2>2. PICK h \in Nat : w[y + 1 + j] = w[y] + p * (bits[x] + 2 * h)
    BY <1>7, <2>1
  <2>3. PICK i \in Nat : i = y + 1 + j /\ i + 1 = y + 1 + (j + 1) /\ i + 1 \in 1..k
    BY <1>1
  <2>4. w[i + 1] = w[i] + bits[i + 1] * 2^i
    <3>1. (i + 1) - 1 = i
      OBVIOUS
    <3> QED BY <1>3, <2>3, <3>1
  <2>5. PICK c \in Nat : c = 2^j
    BY PowerIs
  <2>6. 2^i = p * (2 * c)
    <3>1. i = y + (j + 1) /\ j + 1 \in Nat
      BY <2>3
    <3>2. 2^(y + (j + 1)) = 2^y * 2^(j + 1)
      BY <3>1, PowersMultiply
    <3>3. 2^(j + 1) = 2 * c
      BY <2>5, PowerIs
    <3> QED BY <1>4, <3>1, <3>2, <3>3
  <2>7. PICK b \in Nat : b = bits[i + 1]
    BY <1>2, <2>3
  <2>8. PICK a \in Nat : a = bits[x]
    BY <1>1, <1>2
  <2>9. h + b * c \in Nat
    OBVIOUS
  <2>10. p * (a + 2 * h) + b * (p * (2 * c)) = p * (a + 2 * (h + b * c))
    OBVIOUS
  <2>11. PICK u \in Nat, v \in Nat : u = p * (a + 2 * h) /\ v = b * (p * (2 * c))
    <3>1. p * (a + 2 * h) \in Nat /\ b * (p * (2 * c)) \in Nat
      OBVIOUS
    <3> QED BY <3>1
  <2>12. w[i + 1] = w[y] + p * (a + 2 * (h + b * c))
    <3>1. w[y] \in Nat
      <4>1. y \in 0..k
        BY <1>1, <1>4
      <4> QED BY ONLY <1>3, <4>1
    <3>2. w[i] = w[y] + u
      BY <2>2, <2>3, <2>8, <2>11
    <3>3. bits[i + 1] * 2^i = v
      BY <2>6, <2>7, <2>11
    <3>4. w[i + 1] = (w[y] + u) + v
      BY <2>4, <3>2, <3>3
    <3>5. u + v = p * (a + 2 * (h + b * c))
      BY <2>10, <2>11
    <3> QED BY <3>1, <3>4, <3>5
  <2> QED BY <2>3, <2>8, <2>9, <2>12
<1> HIDE DEF S
<1>8. \E h \in Nat : w[k] = w[y] + p * (bits[x] + 2 * h)
  <2>1. PICK j \in Nat : j = k - x /\ y + 1 + j = k
    <3>1. k - x \in Nat /\ y + 1 + (k - x) = k
      BY <1>1, <1>4
    <3> QED BY <3>1
  <2>2. j \in S
    BY <1>6, <1>7, Induction
  <2> QED BY <2>1, <2>2 DEF S
<1>9. PICK h \in Nat : w[k] = w[y] + p * (bits[x] + 2 * h)
  BY <1>8
<1>10. PICK a \in 0..1, q \in Nat :
         a = bits[x] /\ q = a + 2 * h /\ w[k] = p * q + w[y] /\ w[y] \in 0..(p - 1)
  <2>1. bits[x] \in 0..1 /\ bits[x] + 2 * h \in Nat
    BY <1>1, <1>2
  <2>2. w[y] \in 0..(p - 1)
    BY <1>1, <1>3, <1>4, <1>5
  <2> QED BY <1>9, <2>1, <2>2
<1>11. w[k] \div p = q
  <2>1. w[k] \in Nat
    BY <1>1, <1>3
  <2> QED BY ONLY <2>1, p \in Nat \ {0}, q \in Nat, <1>10, DivisionIs
<1>12. q % 2 = a
  <2>1. q = 2 * h + a /\ a \in 0..(2 - 1) /\ 2 \in Nat \ {0}
    BY <1>10
  <2> QED BY ONLY <2>1, q \in Nat, h \in Nat, DivisionIs
<1> QED BY <1>3, <1>4, <1>10, <1>11, <1>12

\* Sequences are the same when they agree everywhere.
LEMMA SameSequence ==
  ASSUME NEW S, NEW s \in Seq(S), NEW t \in Seq(S), Len(s) = Len(t),
         \A i \in 1..Len(s) : s[i] = t[i]
  PROVE  s = t
OBVIOUS

\* What is where, in sequences that are joined.
LEMMA JoinedAt ==
  ASSUME NEW S, NEW s \in Seq(S), NEW t \in Seq(S)
  PROVE  /\ \A i \in 1..Len(s) : (s \o t)[i] = s[i]
         /\ \A i \in 1..Len(t) : (s \o t)[Len(s) + i] = t[i]
OBVIOUS

\* Numbers of joined bits.
LEMMA NumberJoined ==
  ASSUME NEW a \in Seq({0, 1}), NEW b \in Seq({0, 1})
  PROVE  Number(a \o b) = Number(a) + 2^Len(a) * Number(b)
<1>1. PICK m \in Nat, n \in Nat : m = Len(a) /\ n = Len(b)
  OBVIOUS
<1>k. PICK k \in Nat : k = m + n
  OBVIOUS
<1>2. PICK ab : ab = a \o b /\ ab \in Seq({0, 1}) /\ Len(ab) = k
  <2>1. a \o b \in Seq({0, 1}) /\ Len(a \o b) = Len(a) + Len(b)
    BY ONLY a \in Seq({0, 1}), b \in Seq({0, 1}), Joined
  <2>2. Len(a \o b) = k
    BY <1>1, <1>k, <2>1
  <2> QED BY ONLY <2>1, <2>2
<1>3. /\ \A i \in 1..m : ab[i] = a[i]
      /\ \A i \in 1..n : ab[m + i] = b[i]
  BY ONLY a \in Seq({0, 1}), b \in Seq({0, 1}), <1>1, <1>2, JoinedAt
<1>4. a \in Seq(Nat) /\ b \in Seq(Nat) /\ ab \in Seq(Nat)
  BY <1>2, SeqDef
<1>5. PICK v : /\ v \in [0..m -> Nat] /\ v[0] = 0 /\ Number(a) = v[m]
               /\ \A i \in 1..m : v[i] = v[i - 1] + a[i] * 2^(i - 1)
  BY <1>1, <1>4, WeightsAre
<1>6. PICK w : /\ w \in [0..n -> Nat] /\ w[0] = 0 /\ Number(b) = w[n]
               /\ \A i \in 1..n : w[i] = w[i - 1] + b[i] * 2^(i - 1)
  BY <1>1, <1>4, WeightsAre
<1>7. PICK u : /\ u \in [0..(m + n) -> Nat] /\ u[0] = 0 /\ Number(ab) = u[m + n]
               /\ \A i \in 1..(m + n) : u[i] = u[i - 1] + ab[i] * 2^(i - 1)
  <2>1. PICK u : /\ u \in [0..k -> Nat] /\ u[0] = 0 /\ Number(ab) = u[k]
                 /\ \A i \in 1..k : u[i] = u[i - 1] + ab[i] * 2^(i - 1)
    <3>1. PICK u : u = Weights(ab)
      OBVIOUS
    <3>2. /\ u \in [0..Len(ab) -> Nat] /\ u[0] = 0 /\ Number(ab) = u[Len(ab)]
          /\ \A i \in 1..Len(ab) : u[i] = u[i - 1] + ab[i] * 2^(i - 1)
      BY ONLY <1>4, <3>1, WeightsAre
    <3>3. Len(ab) = k
      BY <1>2
    <3> QED BY ONLY <3>2, <3>3
  <2> QED BY <1>k, <2>1
<1>8. u[m] = v[m]
  <2> DEFINE S == {i \in Nat : i <= m => u[i] = v[i]}
  <2>1. 0 \in S
    BY <1>5, <1>7
  <2>2. ASSUME NEW i \in Nat, i \in S PROVE i + 1 \in S
    <3> SUFFICES ASSUME i + 1 <= m PROVE u[i + 1] = v[i + 1]
      OBVIOUS
    <3>1. i + 1 \in 1..m /\ i + 1 \in 1..(m + n) /\ (i + 1) - 1 = i /\ i <= m
      OBVIOUS
    <3>2. u[i + 1] = u[i] + ab[i + 1] * 2^i
      BY <1>7, <3>1
    <3>3. v[i + 1] = v[i] + a[i + 1] * 2^i
      BY <1>5, <3>1
    <3>4. u[i] = v[i] /\ ab[i + 1] = a[i + 1]
      BY <1>3, <2>2, <3>1
    <3> QED BY <3>2, <3>3, <3>4
  <2> HIDE DEF S
  <2>3. m \in S
    BY <2>1, <2>2, Induction
  <2> QED BY <2>3 DEF S
<1>9. PICK p \in Nat : p = 2^m
  BY PowerIs
<1> DEFINE T == {i \in Nat : i <= n => u[m + i] = v[m] + p * w[i]}
<1>10. 0 \in T
  <2>1. p * 0 = 0 /\ m + 0 = m /\ v[m] \in Nat
    BY <1>5
  <2> QED BY <1>6, <1>8, <2>1
<1>11. ASSUME NEW i \in Nat, i \in T PROVE i + 1 \in T
  <2> SUFFICES ASSUME i + 1 <= n PROVE u[m + (i + 1)] = v[m] + p * w[i + 1]
    OBVIOUS
  <2>1. /\ i + 1 \in 1..n /\ m + (i + 1) \in 1..(m + n) /\ (i + 1) - 1 = i /\ i <= n
        /\ (m + (i + 1)) - 1 = m + i /\ i \in 0..n
    OBVIOUS
  <2>2. u[m + (i + 1)] = u[m + i] + ab[m + (i + 1)] * 2^(m + i)
    BY <1>7, <2>1
  <2>3. w[i + 1] = w[i] + b[i + 1] * 2^i
    BY <1>6, <2>1
  <2>4. ab[m + (i + 1)] = b[i + 1]
    BY <1>3, <2>1
  <2>5. PICK c \in Nat : c = 2^i /\ 2^(m + i) = p * c
    BY <1>9, PowerIs, PowersMultiply
  <2>6. PICK x \in Nat, y \in Nat, z \in Nat : x = b[i + 1] /\ y = w[i] /\ z = v[m]
    <3>1. w[i] \in Nat
      BY ONLY <1>6, <2>1
    <3>2. v[m] \in Nat
      <4>1. m \in 0..m
        OBVIOUS
      <4> QED BY ONLY <1>5, <4>1
    <3>3. b[i + 1] \in Nat
      <4>1. i + 1 \in 1..Len(b)
        BY <1>1, <2>1
      <4> QED BY ONLY <1>4, <4>1
    <3> QED BY <3>1, <3>2, <3>3
  <2>7. u[m + i] = z + p * y
    BY <1>11, <2>1, <2>6
  <2>8. u[m + (i + 1)] = (z + p * y) + x * (p * c)
    BY <2>2, <2>4, <2>5, <2>6, <2>7
  <2>9. w[i + 1] = y + x * c
    BY <2>3, <2>5, <2>6
  <2>10. (z + p * y) + x * (p * c) = z + p * (y + x * c)
    OBVIOUS
  <2> QED BY <2>6, <2>8, <2>9, <2>10
<1> HIDE DEF T
<1>12. n \in T
  BY <1>10, <1>11, Induction
<1>13. u[m + n] = v[m] + p * w[n]
  BY <1>12 DEF T
<1> QED BY <1>1, <1>2, <1>5, <1>6, <1>7, <1>9, <1>13

-----------------------------------------------------------------------------
(* The bits of bytes.                                                      *)

\* Bit x of byte j, and that each bit is one of these.
LEMMA BitPlaces ==
  ASSUME NEW n \in Nat
  PROVE  /\ \A j \in 1..n, x \in 1..ByteBits :
              /\ (j - 1) * ByteBits + x \in 1..(n * ByteBits)
              /\ (((j - 1) * ByteBits + x) - 1) \div ByteBits = j - 1
              /\ (((j - 1) * ByteBits + x) - 1) % ByteBits = x - 1
         /\ \A i \in 1..(n * ByteBits) : \E j \in 1..n, x \in 1..ByteBits :
              i = (j - 1) * ByteBits + x
<1>1. PICK b \in Nat \ {0} : b = ByteBits /\ b >= 2
  BY Constant
<1>2. ASSUME NEW j \in 1..n, NEW x \in 1..b
      PROVE  /\ (j - 1) * b + x \in 1..(n * b)
             /\ (((j - 1) * b + x) - 1) \div b = j - 1
             /\ (((j - 1) * b + x) - 1) % b = x - 1
  <2>1. PICK q \in Nat, r \in 0..(b - 1), z \in Nat : q = j - 1 /\ r = x - 1 /\ n = q + 1 + z
    <3>1. j - 1 \in Nat /\ x - 1 \in 0..(b - 1) /\ n - j \in Nat /\ n = (j - 1) + 1 + (n - j)
      OBVIOUS
    <3> QED BY <3>1
  <2>2. n * b = q * b + b + z * b /\ q * b \in Nat /\ z * b \in Nat
    BY <2>1
  <2>3. q * b + x \in 1..(n * b)
    BY <2>1, <2>2
  <2>4. PICK k \in Nat : k = (q * b + x) - 1 /\ k = b * q + r
    <3>1. q * b = b * q
      OBVIOUS
    <3> QED BY <2>1, <2>2, <3>1
  <2>5. k \div b = q /\ k % b = r
    BY ONLY k \in Nat, b \in Nat \ {0}, q \in Nat, r \in 0..(b - 1), <2>4, DivisionIs
  <2> QED BY <2>1, <2>3, <2>4, <2>5
<1>3. ASSUME NEW i \in 1..(n * b)
      PROVE  \E j \in 1..n, x \in 1..b : i = (j - 1) * b + x
  <2>0. n * b \in Nat
    OBVIOUS
  <2>1. PICK k \in Nat : k = i - 1
    BY <2>0
  <2>2. PICK q \in Nat, r \in 0..(b - 1) : k = b * q + r
    <3>1. k \div b \in Nat /\ k % b \in 0..(b - 1) /\ k = b * (k \div b) + (k % b)
      OBVIOUS
    <3> QED BY <3>1
  <2>3. q < n
    <3> SUFFICES ASSUME n <= q PROVE FALSE
      OBVIOUS
    <3>1. PICK z \in Nat : q = n + z
      <4>1. q - n \in Nat /\ q = n + (q - n)
        OBVIOUS
      <4> QED BY <4>1
    <3>2. b * q = n * b + b * z /\ b * z \in Nat
      BY <3>1
    <3> QED BY <2>0, <2>1, <2>2, <3>2
  <2>4. q + 1 \in 1..n /\ r + 1 \in 1..b /\ (q + 1) - 1 = q
    BY <2>3
  <2>5. i = ((q + 1) - 1) * b + (r + 1)
    <3>1. b * q = q * b /\ q * b \in Nat
      OBVIOUS
    <3> QED BY <2>0, <2>1, <2>2, <2>4, <3>1
  <2> QED BY <2>4, <2>5
<1> QED BY <1>1, <1>2, <1>3

\* Bit x of byte j.
LEMMA AllBitsAt ==
  ASSUME NEW d \in Seq(Byte), NEW j \in 1..Len(d), NEW x \in 1..ByteBits
  PROVE  AllBits(d)[(j - 1) * ByteBits + x] = Bits(d[j], ByteBits)[x]
<1>1. PICK i : i = (j - 1) * ByteBits + x
  OBVIOUS
<1>2. Len(d) \in Nat
  OBVIOUS
<1>3. i \in 1..(Len(d) * ByteBits) /\ (i - 1) \div ByteBits = j - 1 /\ (i - 1) % ByteBits = x - 1
  BY <1>1, <1>2, BitPlaces
<1>4. (j - 1) + 1 = j /\ (x - 1) + 1 = x
  BY <1>2, Constant
<1>5. AllBits(d)[i] = Bits(d[((i - 1) \div ByteBits) + 1], ByteBits)[((i - 1) % ByteBits) + 1]
  BY <1>3 DEF AllBits
<1> QED BY <1>1, <1>3, <1>4, <1>5

\* The bits of bytes that are joined.
LEMMA AllBitsJoined ==
  ASSUME NEW d \in Seq(Byte), NEW e \in Seq(Byte)
  PROVE  AllBits(d \o e) = AllBits(d) \o AllBits(e)
<1>1. PICK m \in Nat, n \in Nat, b \in Nat \ {0} : m = Len(d) /\ n = Len(e) /\ b = ByteBits
  BY Constant
<1>2. PICK f : f = d \o e /\ f \in Seq(Byte) /\ Len(f) = m + n
  <2>1. d \o e \in Seq(Byte) /\ Len(d \o e) = Len(d) + Len(e)
    BY ONLY d \in Seq(Byte), e \in Seq(Byte), Joined
  <2> QED BY <1>1, <2>1
<1>a. /\ \A i \in 1..m : f[i] = d[i]
      /\ \A i \in 1..n : f[m + i] = e[i]
  BY ONLY d \in Seq(Byte), e \in Seq(Byte), <1>1, <1>2, JoinedAt
<1>3. PICK p, q, r : p = AllBits(d) /\ q = AllBits(e) /\ r = AllBits(f)
  OBVIOUS
<1>4. /\ p \in Seq({0, 1}) /\ Len(p) = m * b /\ q \in Seq({0, 1}) /\ Len(q) = n * b
      /\ r \in Seq({0, 1}) /\ Len(r) = (m + n) * b
  BY <1>1, <1>2, <1>3, AllBitsAre
<1>5. PICK M \in Nat, N \in Nat : M = m * b /\ N = n * b /\ (m + n) * b = M + N
  <2>1. m * b \in Nat /\ n * b \in Nat /\ (m + n) * b = m * b + n * b
    OBVIOUS
  <2> QED BY <2>1
<1>6. p \o q \in Seq({0, 1}) /\ Len(p \o q) = M + N
  <2>1. p \o q \in Seq({0, 1}) /\ Len(p \o q) = Len(p) + Len(q)
    BY ONLY <1>4, Joined
  <2> QED BY <1>4, <1>5, <2>1
<1>b. /\ \A i \in 1..M : (p \o q)[i] = p[i]
      /\ \A i \in 1..N : (p \o q)[M + i] = q[i]
  BY ONLY <1>4, <1>5, JoinedAt
<1>7. ASSUME NEW i \in 1..(M + N) PROVE r[i] = (p \o q)[i]
  <2>1. CASE i \in 1..M
    <3>1. PICK j \in 1..m, x \in 1..b : i = (j - 1) * b + x
      <4>1. i \in 1..(m * ByteBits)
        BY <1>1, <1>5, <2>1
      <4>2. \E j \in 1..m, x \in 1..ByteBits : i = (j - 1) * ByteBits + x
        BY ONLY m \in Nat, <4>1, BitPlaces
      <4> QED BY <1>1, <4>2
    <3>2. p[i] = Bits(d[j], b)[x]
      BY <1>1, <1>3, <3>1, AllBitsAt
    <3>3. j \in 1..Len(f) /\ f[j] = d[j]
      BY <1>a, <1>2
    <3>4. r[i] = Bits(f[j], b)[x]
      BY <1>1, <1>2, <1>3, <3>1, <3>3, AllBitsAt
    <3>5. (p \o q)[i] = p[i]
      BY <1>b, <2>1
    <3> QED BY <3>2, <3>3, <3>4, <3>5
  <2>2. CASE i \in (M + 1)..(M + N)
    <3>0. PICK k : k = i - M /\ k \in 1..N
      BY <2>2
    <3>1. PICK j \in 1..n, x \in 1..b : k = (j - 1) * b + x
      <4>1. k \in 1..(n * ByteBits)
        BY <1>1, <1>5, <3>0
      <4>2. \E j \in 1..n, x \in 1..ByteBits : k = (j - 1) * ByteBits + x
        BY ONLY n \in Nat, <4>1, BitPlaces
      <4> QED BY <1>1, <4>2
    <3>2. q[k] = Bits(e[j], b)[x]
      BY <1>1, <1>3, <3>1, AllBitsAt
    <3>3. m + j \in 1..Len(f) /\ f[m + j] = e[j]
      BY <1>a, <1>2
    <3>4. i = ((m + j) - 1) * b + x
      <4>1. PICK c \in Nat : c = j - 1 /\ (m + j) - 1 = m + c
        OBVIOUS
      <4>2. (m + c) * b = m * b + c * b /\ c * b \in Nat
        OBVIOUS
      <4>3. i = M + k
        BY <3>0
      <4> QED BY <1>5, <3>1, <4>1, <4>2, <4>3
    <3>5. r[((m + j) - 1) * b + x] = Bits(f[m + j], b)[x]
      BY <1>1, <1>2, <1>3, <3>1, <3>3, AllBitsAt
    <3>6. (p \o q)[i] = q[k]
      <4>1. i = M + k
        BY <3>0
      <4> QED BY <1>b, <3>0, <4>1
    <3>7. r[i] = Bits(f[m + j], b)[x]
      BY ONLY <3>4, <3>5
    <3> QED BY ONLY <3>2, <3>3, <3>6, <3>7
  <2>3. i \in 1..M \/ i \in (M + 1)..(M + N)
    OBVIOUS
  <2> QED BY <2>1, <2>2, <2>3
<1>8. r = p \o q
  <2>1. Len(r) = M + N
    BY <1>4, <1>5
  <2> QED BY ONLY <1>4, <1>6, <1>7, <2>1, SameSequence
<1> QED BY <1>2, <1>3, <1>8

\* The bits of one byte.
LEMMA AllBitsOne ==
  ASSUME NEW v \in Byte
  PROVE  AllBits(<<v>>) = Bits(v, ByteBits)
<1>1. PICK b \in Nat \ {0} : b = ByteBits
  BY Constant
<1>2. PICK d : d = <<v>> /\ d \in Seq(Byte) /\ Len(d) = 1 /\ d[1] = v
  <2>1. <<v>> \in Seq(Byte) /\ Len(<<v>>) = 1 /\ <<v>>[1] = v
    OBVIOUS
  <2> QED BY <2>1
<1>3. AllBits(d) \in Seq({0, 1}) /\ Len(AllBits(d)) = b
  <2>1. AllBits(d) \in Seq({0, 1}) /\ Len(AllBits(d)) = Len(d) * ByteBits
    BY ONLY <1>2, AllBitsAre
  <2>2. 1 * b = b
    OBVIOUS
  <2> QED BY <1>1, <1>2, <2>1, <2>2
<1>4. Bits(v, b) \in Seq({0, 1}) /\ Len(Bits(v, b)) = b
  <2>1. v \in Nat /\ b \in Nat
    BY Constant
  <2> QED BY ONLY <2>1, BitsAre
<1>5. ASSUME NEW x \in 1..b PROVE AllBits(d)[x] = Bits(v, b)[x]
  <2>1. 1 \in 1..Len(d) /\ (1 - 1) * b + x = x
    BY <1>2
  <2> QED BY <1>1, <1>2, <2>1, AllBitsAt
<1>6. AllBits(d) = Bits(v, b)
  BY ONLY <1>3, <1>4, <1>5, SameSequence
<1> QED BY <1>1, <1>2, <1>6

-----------------------------------------------------------------------------
(* Streams of bits.                                                        *)

\* A stream holds c integers of w bits each, those behind the first a.
Holds(S, d, a, c, w) ==
  /\ c * w <= Len(S)
  /\ \A r \in 1..c, x \in 1..w : S[(r - 1) * w + x] = Bits(d[a + r], w)[x]

\* Where bit x of integer r is.
LEMMA Place ==
  ASSUME NEW c \in Nat, NEW w \in Nat, NEW r \in 1..c, NEW x \in 1..w
  PROVE  (r - 1) * w + x \in 1..(c * w)
<1>1. PICK q \in Nat, z \in Nat : q = r - 1 /\ c = q + 1 + z
  <2>1. r - 1 \in Nat /\ c - r \in Nat /\ c = (r - 1) + 1 + (c - r)
    OBVIOUS
  <2> QED BY <2>1
<1>2. c * w = q * w + w + z * w /\ q * w \in Nat /\ z * w \in Nat
  BY <1>1
<1> QED BY <1>1, <1>2

\* What is where, in a part of a sequence.
LEMMA PartAt ==
  ASSUME NEW S, NEW s \in Seq(S), NEW a \in 1..(Len(s) + 1), NEW b \in Nat,
         a <= b + 1, b <= Len(s)
  PROVE  \A i \in 1..(b - a + 1) : SubSeq(s, a, b)[i] = s[a + i - 1]
<1>1. \A i \in a..b : s[i] \in S
  OBVIOUS
<1> QED BY <1>1, SubSeqProperties

\* A longer stream that begins the same holds the same.
LEMMA HoldsLonger ==
  ASSUME NEW S \in Seq({0, 1}), NEW T \in Seq({0, 1}), NEW d, NEW a \in Nat, NEW c \in Nat,
         NEW w \in Nat, Holds(S, d, a, c, w), Len(S) <= Len(T),
         \A i \in 1..Len(S) : T[i] = S[i]
  PROVE  Holds(T, d, a, c, w)
<1>1. PICK n \in Nat, m \in Nat, k \in Nat : n = Len(S) /\ m = Len(T) /\ k = c * w
  OBVIOUS
<1>2. k <= n /\ n <= m
  BY <1>1 DEF Holds
<1>3. ASSUME NEW r \in 1..c, NEW x \in 1..w
      PROVE  T[(r - 1) * w + x] = Bits(d[a + r], w)[x]
  <2>1. PICK i : i = (r - 1) * w + x /\ i \in 1..k
    BY <1>1, Place
  <2>2. i \in 1..n
    BY <1>2, <2>1
  <2>3. S[i] = Bits(d[a + r], w)[x]
    BY <2>1 DEF Holds
  <2> QED BY <1>1, <2>1, <2>2, <2>3
<1> QED BY <1>1, <1>2, <1>3 DEF Holds

\* One more integer.
LEMMA HoldsMore ==
  ASSUME NEW S \in Seq({0, 1}), NEW d, NEW a \in Nat, NEW c \in Nat, NEW w \in Nat,
         Holds(S, d, a, c, w), Len(S) = c * w, d[a + c + 1] \in Nat
  PROVE  /\ Holds(S \o Bits(d[a + c + 1], w), d, a, c + 1, w)
         /\ Len(S \o Bits(d[a + c + 1], w)) = (c + 1) * w
<1>1. PICK B : B = Bits(d[a + c + 1], w) /\ B \in Seq({0, 1}) /\ Len(B) = w
  <2>1. Bits(d[a + c + 1], w) \in Seq({0, 1}) /\ Len(Bits(d[a + c + 1], w)) = w
    BY ONLY d[a + c + 1] \in Nat, w \in Nat, BitsAre
  <2> QED BY <2>1
<1>2. PICK k \in Nat : k = c * w /\ Len(S) = k /\ (c + 1) * w = k + w
  <2>1. c * w \in Nat /\ (c + 1) * w = c * w + w
    OBVIOUS
  <2> QED BY <2>1
<1>3. PICK T : T = S \o B /\ T \in Seq({0, 1}) /\ Len(T) = k + w
  <2>1. S \o B \in Seq({0, 1}) /\ Len(S \o B) = Len(S) + Len(B)
    BY ONLY S \in Seq({0, 1}), <1>1, Joined
  <2> QED BY <1>1, <1>2, <2>1
<1>4. /\ \A i \in 1..k : T[i] = S[i]
      /\ \A i \in 1..w : T[k + i] = B[i]
  <2>1. B \in Seq({0, 1}) /\ Len(B) = w /\ Len(S) = k /\ T = S \o B
    BY <1>1, <1>2, <1>3
  <2>2. /\ \A i \in 1..Len(S) : (S \o B)[i] = S[i]
        /\ \A i \in 1..Len(B) : (S \o B)[Len(S) + i] = B[i]
    BY ONLY S \in Seq({0, 1}), <2>1, JoinedAt
  <2> QED BY ONLY <2>1, <2>2
<1>5. ASSUME NEW r \in 1..(c + 1), NEW x \in 1..w
      PROVE  T[(r - 1) * w + x] = Bits(d[a + r], w)[x]
  <2>1. CASE r \in 1..c
    <3>1. PICK i : i = (r - 1) * w + x /\ i \in 1..k
      BY <1>2, <2>1, Place
    <3>2. S[i] = Bits(d[a + r], w)[x]
      BY <2>1, <3>1 DEF Holds
    <3> QED BY <1>4, <3>1, <3>2
  <2>2. CASE r = c + 1
    <3>1. (r - 1) * w + x = k + x /\ a + r = a + c + 1
      BY <1>2, <2>2
    <3>2. T[k + x] = B[x]
      BY <1>4
    <3> QED BY <1>1, <3>1, <3>2
  <2> QED BY <2>1, <2>2
<1>6. PICK e \in Nat : e = c + 1
  OBVIOUS
<1>7. e * w <= Len(T) /\ Len(T) = e * w
  BY <1>2, <1>3, <1>6
<1>8. Holds(T, d, a, e, w)
  BY <1>5, <1>6, <1>7 DEF Holds
<1> QED BY <1>1, <1>3, <1>6, <1>7, <1>8

\* What leaves the front of a sequence, and what stays.
LEMMA BehindIs ==
  ASSUME NEW S, NEW q \in Seq(S), NEW k \in 0..Len(q)
  PROVE  /\ Behind(q, k) \in Seq(S) /\ Len(Behind(q, k)) = Len(q) - k
         /\ \A i \in 1..(Len(q) - k) : Behind(q, k)[i] = q[k + i]
         /\ SubSeq(q, 1, k) \in Seq(S) /\ Len(SubSeq(q, 1, k)) = k
         /\ \A i \in 1..k : SubSeq(q, 1, k)[i] = q[i]
<1>1. PICK n \in Nat : n = Len(q)
  OBVIOUS
<1>2. /\ k + 1 \in 1..(Len(q) + 1) /\ Len(q) \in Nat /\ k + 1 <= Len(q) + 1 /\ Len(q) <= Len(q)
      /\ 1 \in 1..(Len(q) + 1) /\ k \in Nat /\ 1 <= k + 1 /\ k <= Len(q)
  BY <1>1
<1>3. /\ SubSeq(q, k + 1, Len(q)) \in Seq(S)
      /\ Len(SubSeq(q, k + 1, Len(q))) = Len(q) - (k + 1) + 1
  BY ONLY q \in Seq(S), <1>2, Part
<1>4. \A i \in 1..(Len(q) - (k + 1) + 1) : SubSeq(q, k + 1, Len(q))[i] = q[(k + 1) + i - 1]
  BY ONLY q \in Seq(S), <1>2, PartAt
<1>5. SubSeq(q, 1, k) \in Seq(S) /\ Len(SubSeq(q, 1, k)) = k - 1 + 1
  BY ONLY q \in Seq(S), <1>2, Part
<1>6. \A i \in 1..(k - 1 + 1) : SubSeq(q, 1, k)[i] = q[1 + i - 1]
  BY ONLY q \in Seq(S), <1>2, PartAt
<1>7. Len(q) - (k + 1) + 1 = Len(q) - k /\ k - 1 + 1 = k
  BY <1>1
<1>8. ASSUME NEW i \in 1..(Len(q) - k) PROVE Behind(q, k)[i] = q[k + i]
  <2>1. (k + 1) + i - 1 = k + i
    BY <1>1
  <2> QED BY <1>4, <1>7, <2>1 DEF Behind
<1>9. ASSUME NEW i \in 1..k PROVE SubSeq(q, 1, k)[i] = q[i]
  <2>1. 1 + i - 1 = i
    OBVIOUS
  <2> QED BY <1>6, <1>7, <2>1
<1> QED BY <1>3, <1>5, <1>7, <1>8, <1>9 DEF Behind

\* The first integer is taken out of a stream.
LEMMA HoldsLess ==
  ASSUME NEW Q \in Seq({0, 1}), NEW R \in Seq({0, 1}), NEW d, NEW a \in Nat, NEW c \in Nat,
         NEW w \in Nat, Holds(Q \o R, d, a, c, w), c >= 1, w <= Len(Q), d[a + 1] \in Nat
  PROVE  /\ SubSeq(Q, 1, w) = Bits(d[a + 1], w)
         /\ Holds(Behind(Q, w) \o R, d, a + 1, c - 1, w)
<1>1. PICK m \in Nat, n \in Nat : m = Len(Q) /\ n = Len(R) /\ w \in 0..m
  OBVIOUS
<1>2. PICK S : S = Q \o R /\ S \in Seq({0, 1}) /\ Len(S) = m + n
  <2>1. Q \o R \in Seq({0, 1}) /\ Len(Q \o R) = Len(Q) + Len(R)
    BY ONLY Q \in Seq({0, 1}), R \in Seq({0, 1}), Joined
  <2> QED BY <1>1, <2>1
<1>3. /\ \A i \in 1..m : S[i] = Q[i]
      /\ \A i \in 1..n : S[m + i] = R[i]
  BY ONLY Q \in Seq({0, 1}), R \in Seq({0, 1}), <1>1, <1>2, JoinedAt
<1>4. PICK P, F : /\ P = Behind(Q, w) /\ P \in Seq({0, 1}) /\ Len(P) = m - w
                  /\ \A i \in 1..(m - w) : P[i] = Q[w + i]
                  /\ F = SubSeq(Q, 1, w) /\ F \in Seq({0, 1}) /\ Len(F) = w
                  /\ \A i \in 1..w : F[i] = Q[i]
  <2>1. w \in 0..Len(Q) /\ Len(Q) = m
    BY <1>1
  <2>2. PICK P : P = Behind(Q, w)
    OBVIOUS
  <2>3. PICK F : F = SubSeq(Q, 1, w)
    OBVIOUS
  <2>4. /\ P \in Seq({0, 1}) /\ Len(P) = Len(Q) - w
        /\ \A i \in 1..(Len(Q) - w) : P[i] = Q[w + i]
        /\ F \in Seq({0, 1}) /\ Len(F) = w
        /\ \A i \in 1..w : F[i] = Q[i]
    BY ONLY Q \in Seq({0, 1}), <2>1, <2>2, <2>3, BehindIs
  <2> QED BY ONLY <2>1, <2>2, <2>3, <2>4
<1>5. PICK T : T = P \o R /\ T \in Seq({0, 1}) /\ Len(T) = (m - w) + n
  <2>1. P \o R \in Seq({0, 1}) /\ Len(P \o R) = Len(P) + Len(R)
    BY ONLY <1>4, R \in Seq({0, 1}), Joined
  <2> QED BY <1>1, <1>4, <2>1
<1>6. /\ \A i \in 1..(m - w) : T[i] = P[i]
      /\ \A i \in 1..n : T[(m - w) + i] = R[i]
  BY ONLY R \in Seq({0, 1}), <1>1, <1>4, <1>5, JoinedAt
<1>7. ASSUME NEW i \in 1..((m - w) + n) PROVE T[i] = S[w + i]
  <2>1. CASE i \in 1..(m - w)
    <3>1. w + i \in 1..m
      BY <2>1
    <3> QED BY <1>3, <1>4, <1>6, <2>1, <3>1
  <2>2. CASE i \notin 1..(m - w)
    <3>1. PICK j \in 1..n : i = (m - w) + j /\ w + i = m + j
      <4>1. /\ i - (m - w) \in 1..n /\ i = (m - w) + (i - (m - w))
            /\ w + i = m + (i - (m - w))
        BY <1>1, <2>2
      <4> QED BY <4>1
    <3> QED BY <1>3, <1>6, <3>1
  <2> QED BY <2>1, <2>2
<1>8. Holds(S, d, a, c, w)
  BY <1>2
<1>9. F = Bits(d[a + 1], w)
  <2>1. PICK B : B = Bits(d[a + 1], w) /\ B \in Seq({0, 1}) /\ Len(B) = w
    <3>1. Bits(d[a + 1], w) \in Seq({0, 1}) /\ Len(Bits(d[a + 1], w)) = w
      BY ONLY d[a + 1] \in Nat, w \in Nat, BitsAre
    <3> QED BY <3>1
  <2>2. ASSUME NEW x \in 1..w PROVE F[x] = B[x]
    <3>1. 1 \in 1..c /\ (1 - 1) * w + x = x
      OBVIOUS
    <3>2. S[x] = B[x]
      BY <1>8, <2>1, <3>1 DEF Holds
    <3>3. x \in 1..m
      BY <1>1
    <3> QED BY <1>3, <1>4, <3>2, <3>3
  <2> QED BY ONLY <1>4, <2>1, <2>2, SameSequence
<1>10. PICK b \in Nat, k \in Nat : b = c - 1 /\ k = b * w /\ c * w = k + w
  <2>1. c - 1 \in Nat /\ (c - 1) * w \in Nat /\ c * w = (c - 1) * w + w
    OBVIOUS
  <2> QED BY <2>1
<1>11. k <= Len(T)
  <2>1. c * w <= m + n
    BY <1>2, <1>8 DEF Holds
  <2> QED BY <1>1, <1>5, <1>10, <2>1
<1>12. ASSUME NEW r \in 1..b, NEW x \in 1..w
       PROVE  T[(r - 1) * w + x] = Bits(d[a + 1 + r], w)[x]
  <2>1. PICK i : i = (r - 1) * w + x /\ i \in 1..k
    BY <1>10, Place
  <2>2. i \in 1..((m - w) + n)
    BY <1>5, <1>10, <1>11, <2>1
  <2>3. r + 1 \in 1..c /\ ((r + 1) - 1) * w + x = w + i
    <3>1. PICK q \in Nat : q = r - 1 /\ (r + 1) - 1 = q + 1
      OBVIOUS
    <3>2. (q + 1) * w = q * w + w /\ q * w \in Nat
      OBVIOUS
    <3> QED BY <1>10, <2>1, <3>1, <3>2
  <2>4. S[w + i] = Bits(d[a + (r + 1)], w)[x]
    BY <1>8, <2>3 DEF Holds
  <2>5. a + (r + 1) = a + 1 + r
    OBVIOUS
  <2> QED BY <1>7, <2>1, <2>2, <2>4, <2>5
<1>13. Holds(T, d, a + 1, b, w)
  BY <1>10, <1>11, <1>12 DEF Holds
<1> QED BY <1>4, <1>5, <1>9, <1>10, <1>13

-----------------------------------------------------------------------------
(* The bits from a byte on.                                                *)

Rest(bs, a) == AllBits(Behind(bs, a - 1))

\* The rest is bits.
LEMMA RestIs ==
  ASSUME NEW bs \in Seq(Byte), NEW a \in 1..(Len(bs) + 1)
  PROVE  /\ Rest(bs, a) \in Seq({0, 1})
         /\ Len(Rest(bs, a)) = (Len(bs) + 1 - a) * ByteBits
<1>1. a - 1 \in 0..Len(bs) /\ Len(bs) - (a - 1) = Len(bs) + 1 - a
  OBVIOUS
<1>2. PICK B : B = Behind(bs, a - 1)
  OBVIOUS
<1>3. B \in Seq(Byte) /\ Len(B) = Len(bs) - (a - 1)
  BY ONLY bs \in Seq(Byte), <1>1, <1>2, BehindIs
<1>4. AllBits(B) \in Seq({0, 1}) /\ Len(AllBits(B)) = Len(B) * ByteBits
  BY ONLY <1>3, AllBitsAre
<1> QED BY <1>1, <1>2, <1>3, <1>4 DEF Rest

\* A byte is the first bits of the rest.
LEMMA RestFirst ==
  ASSUME NEW bs \in Seq(Byte), NEW a \in 1..Len(bs)
  PROVE  Rest(bs, a) = Bits(bs[a], ByteBits) \o Rest(bs, a + 1)
<1>1. Len(bs) \in Nat /\ a - 1 \in 0..Len(bs) /\ a \in 0..Len(bs)
      /\ a - 1 + 1 = a /\ (a + 1) - 1 = a /\ Len(bs) \in a..Len(bs)
  OBVIOUS
<1>2. SubSeq(bs, a, Len(bs)) = <<bs[a]>> \o SubSeq(bs, a + 1, Len(bs))
  BY ONLY bs \in Seq(Byte), a \in 1..Len(bs), <1>1, SubSeqRecursiveFirst
<1>3. Behind(bs, a - 1) = <<bs[a]>> \o Behind(bs, a)
  BY <1>1, <1>2 DEF Behind
<1>4. PICK v : v = bs[a] /\ v \in Byte
  BY ElementOfSeq
<1>5. PICK B : B = Behind(bs, a) /\ B \in Seq(Byte)
  <2>1. Behind(bs, a) \in Seq(Byte)
    BY ONLY bs \in Seq(Byte), <1>1, BehindIs
  <2> QED BY <2>1
<1>6. PICK V : V = <<v>> /\ V \in Seq(Byte)
  <2>1. <<v>> \in Seq(Byte)
    BY <1>4
  <2> QED BY <2>1
<1>7. AllBits(V \o B) = AllBits(V) \o AllBits(B)
  BY ONLY <1>5, <1>6, AllBitsJoined
<1>8. AllBits(V) = Bits(v, ByteBits)
  BY <1>4, <1>6, AllBitsOne
<1> QED BY <1>1, <1>3, <1>4, <1>5, <1>6, <1>7, <1>8 DEF Rest

\* Bytes that are added are the last bits of the rest.
LEMMA RestMore ==
  ASSUME NEW bs \in Seq(Byte), NEW e \in Seq(Byte), NEW a \in 1..(Len(bs) + 1)
  PROVE  Rest(bs \o e, a) = Rest(bs, a) \o AllBits(e)
<1>1. PICK m \in Nat, n \in Nat, k \in Nat :
        m = Len(bs) /\ n = Len(e) /\ k = a - 1 /\ k \in 0..m
  OBVIOUS
<1>2. PICK f : f = bs \o e /\ f \in Seq(Byte) /\ Len(f) = m + n
  <2>1. bs \o e \in Seq(Byte) /\ Len(bs \o e) = Len(bs) + Len(e)
    BY ONLY bs \in Seq(Byte), e \in Seq(Byte), Joined
  <2> QED BY <1>1, <2>1
<1>3. /\ \A i \in 1..m : f[i] = bs[i]
      /\ \A i \in 1..n : f[m + i] = e[i]
  <2>1. /\ \A i \in 1..Len(bs) : (bs \o e)[i] = bs[i]
        /\ \A i \in 1..Len(e) : (bs \o e)[Len(bs) + i] = e[i]
    BY ONLY bs \in Seq(Byte), e \in Seq(Byte), JoinedAt
  <2> QED BY ONLY <1>1, <1>2, <2>1
<1>4. PICK B : /\ B = Behind(bs, k) /\ B \in Seq(Byte) /\ Len(B) = m - k
               /\ \A i \in 1..(m - k) : B[i] = bs[k + i]
  <2>1. k \in 0..Len(bs) /\ Len(bs) = m
    BY <1>1
  <2>2. PICK B : B = Behind(bs, k)
    OBVIOUS
  <2>3. /\ B \in Seq(Byte) /\ Len(B) = Len(bs) - k
        /\ \A i \in 1..(Len(bs) - k) : B[i] = bs[k + i]
    BY ONLY bs \in Seq(Byte), <2>1, <2>2, BehindIs
  <2> QED BY ONLY <2>1, <2>2, <2>3
<1>5. PICK F : /\ F = Behind(f, k) /\ F \in Seq(Byte) /\ Len(F) = (m + n) - k
               /\ \A i \in 1..((m + n) - k) : F[i] = f[k + i]
  <2>1. k \in 0..Len(f) /\ Len(f) = m + n
    BY <1>1, <1>2
  <2>2. PICK F : F = Behind(f, k)
    OBVIOUS
  <2>3. /\ F \in Seq(Byte) /\ Len(F) = Len(f) - k
        /\ \A i \in 1..(Len(f) - k) : F[i] = f[k + i]
    BY ONLY <1>2, <2>1, <2>2, BehindIs
  <2> QED BY ONLY <2>1, <2>2, <2>3
<1>6. PICK T : /\ T = B \o e /\ T \in Seq(Byte) /\ Len(T) = (m - k) + n
               /\ \A i \in 1..(m - k) : T[i] = B[i]
               /\ \A i \in 1..n : T[(m - k) + i] = e[i]
  <2>1. PICK T : T = B \o e
    OBVIOUS
  <2>2. T \in Seq(Byte) /\ Len(T) = Len(B) + Len(e)
    BY ONLY <1>4, e \in Seq(Byte), <2>1, Joined
  <2>3. /\ \A i \in 1..Len(B) : T[i] = B[i]
        /\ \A i \in 1..Len(e) : T[Len(B) + i] = e[i]
    BY ONLY <1>4, e \in Seq(Byte), <2>1, JoinedAt
  <2>4. Len(B) = m - k /\ Len(e) = n
    BY <1>1, <1>4
  <2> QED BY ONLY <2>1, <2>2, <2>3, <2>4
<1>7. ASSUME NEW i \in 1..Len(F) PROVE F[i] = T[i]
  <2>1. i \in 1..((m + n) - k) /\ F[i] = f[k + i]
    BY <1>5
  <2>2. CASE i \in 1..(m - k)
    <3>1. k + i \in 1..m
      BY <1>1, <2>2
    <3> QED BY <1>3, <1>4, <1>6, <2>1, <2>2, <3>1
  <2>3. CASE i \notin 1..(m - k)
    <3>1. PICK j \in 1..n : i = (m - k) + j /\ k + i = m + j
      <4>1. i - (m - k) \in 1..n /\ i = (m - k) + (i - (m - k)) /\ k + i = m + (i - (m - k))
        BY <1>1, <2>1, <2>3
      <4> QED BY <4>1
    <3> QED BY <1>3, <1>6, <2>1, <3>1
  <2> QED BY <2>2, <2>3
<1>8. F = T
  <2>1. Len(F) = Len(T)
    BY <1>1, <1>5, <1>6
  <2> QED BY ONLY <1>5, <1>6, <1>7, <2>1, SeqEqual
<1>9. AllBits(B \o e) = AllBits(B) \o AllBits(e)
  BY ONLY <1>4, e \in Seq(Byte), AllBitsJoined
<1> QED BY <1>1, <1>2, <1>4, <1>5, <1>6, <1>8, <1>9 DEF Rest

\* The bits of the byte that bits are put into.
LEMMA PutBitsAre ==
  ASSUME NEW F \in Seq({0, 1}), Len(F) <= ByteBits
  PROVE  \A x \in 1..Len(F) : Bits(Number(F), ByteBits)[x] = F[x]
<1> SUFFICES ASSUME NEW x \in 1..Len(F)
             PROVE  Bits(Number(F), ByteBits)[x] = F[x]
  OBVIOUS
<1>1. x \in 1..ByteBits
  BY Constant
<1>2. Bits(Number(F), ByteBits)[x] = (Number(F) \div 2^(x - 1)) % 2
  BY <1>1 DEF Bits
<1> QED BY <1>2, BitsOfNumber

-----------------------------------------------------------------------------
(* Sections.  A cut is a place between two blocks, or between the groups   *)
(* of two integers: the byte that comes next, and how many integers are    *)
(* before it.                                                              *)

\* The integers k+1..l are the block at the bytes a..b-1.
BlockAt(bs, d, a, k, b, l) ==
  /\ a + 1 <= Len(bs)
  /\ bs[a] = l - k /\ bs[a] \in 1..BlockMax /\ bs[a + 1] \in 0..WordBits
  /\ b = a + 2 + ByteLength(bs[a], bs[a + 1]) /\ b <= Len(bs) + 1
  /\ Holds(Rest(bs, a + 2), d, k, bs[a], bs[a + 1])
  /\ \A i \in 1..bs[a] : d[k + i] < 2^bs[a + 1]

\* The groups of n are the bytes a..b-1.
GroupsAt(bs, n, a, b) ==
  /\ b = a + Len(VarBytes[n]) /\ b <= Len(bs) + 1
  /\ \A i \in 1..Len(VarBytes[n]) : bs[a + i - 1] = VarBytes[n][i]

ItemAt(kind, bs, d, p, q) ==
  IF kind = "positions" THEN q[2] = p[2] + 1 /\ GroupsAt(bs, d[q[2]], p[1], q[1])
  ELSE BlockAt(bs, d, p[1], p[2], q[1], q[2])

\* K are the cuts of the first m-1 bytes, which have the first n integers.
Cuts(kind, bs, d, K, m, n) ==
  /\ m \in 1..(Len(bs) + 1) /\ n \in 0..Len(d)
  /\ K \subseteq (1..m) \X (0..n)
  /\ <<1, 0>> \in K /\ <<m, n>> \in K
  /\ \A p \in K : p = <<m, n>> \/ \E q \in K : ItemAt(kind, bs, d, p, q)

\* Bytes that are added disturb no block, no groups, and no cut.
LEMMA BlockMore ==
  ASSUME NEW bs \in Seq(Byte), NEW e \in Seq(Byte), NEW d, NEW a \in Nat \ {0}, NEW k \in Nat,
         NEW b, NEW l, BlockAt(bs, d, a, k, b, l)
  PROVE  BlockAt(bs \o e, d, a, k, b, l)
<1>1. PICK f : f = bs \o e /\ f \in Seq(Byte) /\ Len(f) = Len(bs) + Len(e)
  <2>1. bs \o e \in Seq(Byte) /\ Len(bs \o e) = Len(bs) + Len(e)
    BY ONLY bs \in Seq(Byte), e \in Seq(Byte), Joined
  <2> QED BY <2>1
<1>2. \A i \in 1..Len(bs) : f[i] = bs[i]
  BY ONLY bs \in Seq(Byte), e \in Seq(Byte), <1>1, JoinedAt
<1>3. Len(bs) \in Nat /\ Len(e) \in Nat /\ a + 1 <= Len(bs)
  BY DEF BlockAt
<1>4. f[a] = bs[a] /\ f[a + 1] = bs[a + 1]
  BY <1>2, <1>3
<1>5. PICK c \in Nat, w \in Nat : c = bs[a] /\ w = bs[a + 1]
  BY Constant DEF BlockAt
<1>6. PICK R, T, E : /\ R = Rest(bs, a + 2) /\ T = Rest(f, a + 2) /\ E = AllBits(e) /\ T = R \o E
                     /\ R \in Seq({0, 1}) /\ E \in Seq({0, 1})
  <2>1. a + 2 \in 1..(Len(bs) + 1)
    BY <1>3
  <2>2. Rest(bs \o e, a + 2) = Rest(bs, a + 2) \o AllBits(e)
    BY ONLY bs \in Seq(Byte), e \in Seq(Byte), <2>1, RestMore
  <2>3. Rest(bs, a + 2) \in Seq({0, 1})
    BY ONLY bs \in Seq(Byte), <2>1, RestIs
  <2>4. AllBits(e) \in Seq({0, 1})
    BY ONLY e \in Seq(Byte), AllBitsAre
  <2> QED BY <1>1, <2>2, <2>3, <2>4
<1>7. T \in Seq({0, 1}) /\ Len(R) <= Len(T) /\ \A i \in 1..Len(R) : T[i] = R[i]
  <2>1. T \in Seq({0, 1}) /\ Len(T) = Len(R) + Len(E)
    BY ONLY <1>6, Joined
  <2>2. \A i \in 1..Len(R) : T[i] = R[i]
    BY ONLY <1>6, JoinedAt
  <2>3. Len(R) \in Nat /\ Len(E) \in Nat
    BY <1>6
  <2> QED BY <2>1, <2>2, <2>3
<1>8. Holds(R, d, k, c, w)
  BY <1>5, <1>6 DEF BlockAt
<1>9. Holds(T, d, k, c, w)
  BY ONLY <1>6, <1>7, <1>8, c \in Nat, w \in Nat, k \in Nat, HoldsLonger
<1>10. b <= Len(f) + 1 /\ a + 1 <= Len(f)
  <2>1. PICK g \in Nat : g = ByteLength(c, w)
    BY ByteLengthIs
  <2>2. b = a + 2 + g /\ b <= Len(bs) + 1
    BY <1>5, <2>1 DEF BlockAt
  <2> QED BY <1>1, <1>3, <2>2
<1>11. BlockAt(f, d, a, k, b, l)
  <2>1. /\ bs[a] = l - k /\ bs[a] \in 1..BlockMax /\ bs[a + 1] \in 0..WordBits
        /\ b = a + 2 + ByteLength(bs[a], bs[a + 1])
        /\ \A i \in 1..bs[a] : d[k + i] < 2^bs[a + 1]
    BY DEF BlockAt
  <2> QED BY <1>4, <1>5, <1>6, <1>9, <1>10, <2>1 DEF BlockAt
<1> QED BY <1>1, <1>11

LEMMA GroupsMore ==
  ASSUME NEW bs \in Seq(Byte), NEW e \in Seq(Byte), NEW n \in Word, NEW a \in Nat \ {0},
         NEW b, GroupsAt(bs, n, a, b)
  PROVE  GroupsAt(bs \o e, n, a, b)
<1>1. PICK f : f = bs \o e /\ f \in Seq(Byte) /\ Len(f) = Len(bs) + Len(e)
  <2>1. bs \o e \in Seq(Byte) /\ Len(bs \o e) = Len(bs) + Len(e)
    BY ONLY bs \in Seq(Byte), e \in Seq(Byte), Joined
  <2> QED BY <2>1
<1>2. \A i \in 1..Len(bs) : f[i] = bs[i]
  BY ONLY bs \in Seq(Byte), e \in Seq(Byte), <1>1, JoinedAt
<1>3. PICK V \in Seq(Byte) : V = VarBytes[n]
  BY VarBytesAre
<1>4. PICK g \in Nat, m \in Nat, x \in Nat : g = Len(V) /\ m = Len(bs) /\ x = Len(e)
  OBVIOUS
<1>5. b = a + g /\ b <= m + 1 /\ \A i \in 1..g : bs[a + i - 1] = V[i]
  BY <1>3, <1>4 DEF GroupsAt
<1>6. ASSUME NEW i \in 1..g PROVE f[a + i - 1] = V[i]
  <2>1. a + i - 1 \in 1..Len(bs)
    BY <1>4, <1>5
  <2> QED BY <1>2, <1>5, <2>1
<1>7. b <= Len(f) + 1
  BY <1>1, <1>4, <1>5
<1>8. GroupsAt(f, n, a, b)
  BY <1>3, <1>4, <1>5, <1>6, <1>7 DEF GroupsAt
<1> QED BY <1>1, <1>8

LEMMA CutsMore ==
  ASSUME NEW kind, NEW bs \in Seq(Byte), NEW e \in Seq(Byte), NEW d \in Seq(Word), NEW K,
         NEW m, NEW n, Cuts(kind, bs, d, K, m, n)
  PROVE  Cuts(kind, bs \o e, d, K, m, n)
<1>1. PICK f : f = bs \o e /\ f \in Seq(Byte) /\ Len(f) = Len(bs) + Len(e)
  <2>1. bs \o e \in Seq(Byte) /\ Len(bs \o e) = Len(bs) + Len(e)
    BY ONLY bs \in Seq(Byte), e \in Seq(Byte), Joined
  <2> QED BY <2>1
<1>2. /\ m \in 1..(Len(bs) + 1) /\ n \in 0..Len(d)
      /\ K \subseteq (1..m) \X (0..n)
      /\ <<1, 0>> \in K /\ <<m, n>> \in K
      /\ \A p \in K : p = <<m, n>> \/ \E q \in K : ItemAt(kind, bs, d, p, q)
  BY DEF Cuts
<1>3. m \in 1..(Len(f) + 1)
  <2>1. Len(bs) \in Nat /\ Len(e) \in Nat
    OBVIOUS
  <2> QED BY <1>1, <1>2, <2>1
<1>4. ASSUME NEW p \in K, NEW q \in K, ItemAt(kind, bs, d, p, q)
      PROVE  ItemAt(kind, f, d, p, q)
  <2>1. p[1] \in Nat \ {0} /\ p[2] \in Nat /\ q[2] \in 0..Len(d)
    <3>1. p \in (1..m) \X (0..n) /\ q \in (1..m) \X (0..n)
      BY <1>2
    <3>2. Len(d) \in Nat
      OBVIOUS
    <3> QED BY <1>2, <3>1, <3>2
  <2>2. CASE kind = "positions"
    <3>1. q[2] = p[2] + 1 /\ GroupsAt(bs, d[q[2]], p[1], q[1])
      BY <1>4, <2>2 DEF ItemAt
    <3>2. d[q[2]] \in Word
      <4>1. q[2] \in 1..Len(d)
        BY <2>1, <3>1
      <4> QED BY ONLY <4>1, d \in Seq(Word)
    <3>3. GroupsAt(bs \o e, d[q[2]], p[1], q[1])
      BY ONLY bs \in Seq(Byte), e \in Seq(Byte), <2>1, <3>1, <3>2, GroupsMore
    <3> QED BY <1>1, <2>2, <3>1, <3>3 DEF ItemAt
  <2>3. CASE kind # "positions"
    <3>1. BlockAt(bs, d, p[1], p[2], q[1], q[2])
      BY <1>4, <2>3 DEF ItemAt
    <3>2. BlockAt(bs \o e, d, p[1], p[2], q[1], q[2])
      BY ONLY bs \in Seq(Byte), e \in Seq(Byte), <2>1, <3>1, BlockMore
    <3> QED BY <1>1, <2>3, <3>2 DEF ItemAt
  <2> QED BY <2>2, <2>3
<1>5. Cuts(kind, f, d, K, m, n)
  <2>1. \A p \in K : p = <<m, n>> \/ \E q \in K : ItemAt(kind, f, d, p, q)
    BY <1>2, <1>4
  <2> QED BY <1>2, <1>3, <2>1 DEF Cuts
<1> QED BY <1>1, <1>5

\* One more block, or the groups of one more integer, make one more cut.
LEMMA CutsNext ==
  ASSUME NEW kind, NEW bs \in Seq(Byte), NEW d \in Seq(Word), NEW K,
         NEW m, NEW n, Cuts(kind, bs, d, K, m, n),
         NEW b \in 1..(Len(bs) + 1), NEW l \in 0..Len(d), m <= b, n <= l,
         ItemAt(kind, bs, d, <<m, n>>, <<b, l>>)
  PROVE  Cuts(kind, bs, d, K \cup {<<b, l>>}, b, l)
<1>1. /\ m \in 1..(Len(bs) + 1) /\ n \in 0..Len(d)
      /\ K \subseteq (1..m) \X (0..n)
      /\ <<1, 0>> \in K /\ <<m, n>> \in K
      /\ \A p \in K : p = <<m, n>> \/ \E q \in K : ItemAt(kind, bs, d, p, q)
  BY DEF Cuts
<1>2. Len(bs) \in Nat /\ Len(d) \in Nat
  OBVIOUS
<1>3. 1..m \subseteq 1..b /\ 0..n \subseteq 0..l /\ b \in 1..b /\ l \in 0..l
  BY <1>1, <1>2
<1>4. K \cup {<<b, l>>} \subseteq (1..b) \X (0..l)
  BY <1>1, <1>3
<1>5. ASSUME NEW p \in K \cup {<<b, l>>}
      PROVE  p = <<b, l>> \/ \E q \in K \cup {<<b, l>>} : ItemAt(kind, bs, d, p, q)
  BY <1>1
<1> QED BY <1>1, <1>4, <1>5 DEF Cuts

\* A block is whole when its values are in the bytes.
LEMMA CloseBlock ==
  ASSUME NEW bs \in Seq(Byte), NEW d, NEW h \in Nat \ {0}, h + 1 <= Len(bs), NEW c \in Nat,
         NEW n \in 1..BlockMax, NEW w \in 0..WordBits, bs[h] = n, bs[h + 1] = w,
         Holds(Rest(bs, h + 2), d, c, n, w), Len(Rest(bs, h + 2)) < n * w + ByteBits,
         \A i \in 1..n : d[c + i] < 2^w
  PROVE  BlockAt(bs, d, h, c, Len(bs) + 1, c + n)
<1>1. PICK B \in Nat \ {0}, m \in Nat, k \in Nat, r \in Nat :
        /\ B = ByteBits /\ m = Len(bs) /\ k = n * w /\ r = (m + 1) - (h + 2)
        /\ n \in Nat /\ w \in Nat
  <2>1. Len(bs) \in Nat /\ (Len(bs) + 1) - (h + 2) \in Nat
    OBVIOUS
  <2>2. n \in Nat /\ w \in Nat
    BY Constant
  <2>3. PICK x \in Nat, y \in Nat : x = n /\ y = w
    BY <2>2
  <2>4. x * y \in Nat
    OBVIOUS
  <2>5. PICK k \in Nat : k = n * w
    BY <2>3, <2>4
  <2>6. ByteBits \in Nat \ {0}
    BY Constant
  <2> QED BY ONLY <2>1, <2>2, <2>5, <2>6
<1>2. PICK z \in Nat : z = Len(Rest(bs, h + 2)) /\ z = B * r
  <2>1. h + 2 \in 1..(Len(bs) + 1)
    BY <1>1
  <2>2. Len(Rest(bs, h + 2)) = (Len(bs) + 1 - (h + 2)) * ByteBits
    BY ONLY bs \in Seq(Byte), <2>1, RestIs
  <2>3. r * B = B * r /\ B * r \in Nat
    OBVIOUS
  <2> QED BY <1>1, <2>2, <2>3
<1>3. k <= z /\ z < k + B
  BY <1>1, <1>2 DEF Holds
<1>4. ByteLength(n, w) = r
  <2>1. PICK y \in Nat : y = k + B - 1
    BY <1>1
  <2>2. PICK s \in 0..(B - 1) : s = y - z /\ y = B * r + s
    <3>1. y - z \in 0..(B - 1) /\ y = z + (y - z)
      BY <1>3, <2>1
    <3> QED BY <1>2, <3>1
  <2>3. y \div B = r
    BY ONLY y \in Nat, B \in Nat \ {0}, r \in Nat, <2>2, DivisionIs
  <2> QED BY <1>1, <2>1, <2>3 DEF ByteLength
<1>5. Len(bs) + 1 = h + 2 + r
  BY <1>1
<1>6. n = (c + n) - c
  BY <1>1
<1> QED BY <1>1, <1>4, <1>5, <1>6 DEF BlockAt

-----------------------------------------------------------------------------
(* What the writer has written.                                            *)

\* The integers of the section.
Ints == Integers(job, values)

\* The section is of this writer: what it was given, and what is asked for.
Ours ==
  /\ values \in Seq(Word) /\ expected = Len(values)
  /\ job # "plain" => Ascending(values)

Packed == Len(Ints) - Len(todo)

\* What is to be packed are the last integers.
LeftToDo ==
  /\ Len(todo) <= Len(Ints)
  /\ \A i \in 1..Len(todo) : todo[i] = Ints[Packed + i]

\* The block with its header at h has the integers behind the first c, and
\* bytes and buffer have the bits of those that are packed.
BlockOpen(h, c) ==
  /\ job # "positions" /\ h + 1 <= Len(bytes) /\ c <= Packed
  /\ bytes[h] = (Packed - c) + block /\ bytes[h] \in 1..BlockMax /\ bytes[h + 1] = width
  /\ \A i \in 1..bytes[h] : Ints[c + i] < 2^width
  /\ Holds(Rest(bytes, h + 2) \o queue, Ints, c, Packed - c, width)
  /\ Len(Rest(bytes, h + 2) \o queue) < (Packed - c) * width + ByteBits
  /\ block > 0 \/ queue # <<>> =>
       Len(Rest(bytes, h + 2) \o queue) = (Packed - c) * width

\* All blocks are whole, except for one that is being written.
WriterInv ==
  stage = "write" =>
    /\ LeftToDo
    /\ \E K, h, c :
         /\ Cuts(job, bytes, Ints, K, h, c)
         /\ \/ block = 0 /\ queue = <<>> /\ h = Len(bytes) + 1 /\ c = Packed
            \/ BlockOpen(h, c)

\* These bytes are the section.
Section(bs) == \E K : Cuts(job, bs, Ints, K, Len(bs) + 1, Len(Ints))

\* The integers are words, one for each value.
LEMMA IntsAre ==
  ASSUME Ours
  PROVE  Ints \in Seq(Word) /\ Len(Ints) = Len(values)
<1>1. values \in Seq(Word) /\ (job # "plain" => Ascending(values))
  BY DEF Ours
<1>2. CASE job = "plain"
  BY <1>1, <1>2 DEF Ints, Integers
<1>3. CASE job # "plain"
  <2>1. Ints = Deltas(values) /\ Ints \in Seq(Word)
    BY <1>1, <1>3, DeltasAre DEF Ints, Integers
  <2>2. Len(Deltas(values)) = Len(values)
    BY <1>1 DEF Deltas
  <2> QED BY <2>1, <2>2
<1> QED BY <1>2, <1>3

\* Between two blocks, the bytes are whole blocks.
LEMMA WholeBlocks ==
  ASSUME CodecInv, Ours, WriterInv, stage = "write", block = 0, queue = <<>>
  PROVE  \E K : Cuts(job, bytes, Ints, K, Len(bytes) + 1, Packed)
<1>1. LeftToDo
  BY DEF WriterInv
<1>2. PICK K, h, c :
         /\ Cuts(job, bytes, Ints, K, h, c)
         /\ \/ block = 0 /\ queue = <<>> /\ h = Len(bytes) + 1 /\ c = Packed
            \/ BlockOpen(h, c)
  BY DEF WriterInv
<1>3. CASE h = Len(bytes) + 1 /\ c = Packed
  BY <1>2, <1>3
<1>4. CASE BlockOpen(h, c)
  <2>1. PICK d : d = Ints /\ d \in Seq(Word)
    BY IntsAre
  <2>2. PICK bs : bs = bytes /\ bs \in Seq(Byte)
    BY DEF CodecInv, Types
  <2>3. h \in 1..(Len(bs) + 1) /\ c \in 0..Len(d)
    BY <1>2, <2>1, <2>2 DEF Cuts
  <2>4. Len(bs) \in Nat /\ Len(d) \in Nat /\ Len(todo) \in Nat /\ Len(todo) <= Len(d)
        /\ Packed = Len(d) - Len(todo)
    BY <1>1, <2>1, <2>2 DEF CodecInv, Types, LeftToDo, Packed
  <2>5. PICK n : n = Packed - c
    OBVIOUS
  <2>6. /\ job # "positions" /\ h + 1 <= Len(bs) /\ c <= Packed
        /\ bs[h] = n + block /\ bs[h] \in 1..BlockMax /\ bs[h + 1] = width
        /\ \A i \in 1..bs[h] : d[c + i] < 2^width
        /\ Holds(Rest(bs, h + 2) \o queue, d, c, n, width)
        /\ Len(Rest(bs, h + 2) \o queue) < n * width + ByteBits
    BY <1>4, <2>1, <2>2, <2>5 DEF BlockOpen
  <2>7. n \in Nat /\ c + n = Packed
    BY <2>3, <2>4, <2>5, <2>6
  <2>8. bs[h] = n /\ n \in 1..BlockMax /\ width \in 0..WordBits /\ h \in Nat \ {0} /\ c \in Nat
    BY <2>3, <2>4, <2>6, <2>7 DEF CodecInv, Types
  <2>9. Rest(bs, h + 2) \o queue = Rest(bs, h + 2)
    <3>1. h + 2 \in 1..(Len(bs) + 1)
      BY <2>3, <2>4, <2>6
    <3>2. Rest(bs, h + 2) \in Seq({0, 1})
      BY ONLY <2>2, <3>1, RestIs
    <3>3. Rest(bs, h + 2) \o <<>> = Rest(bs, h + 2)
      BY ONLY <3>2, ConcatEmptySeq
    <3> QED BY <3>3
  <2>10. BlockAt(bs, d, h, c, Len(bs) + 1, c + n)
    BY ONLY <2>2, <2>6, <2>8, <2>9, CloseBlock
  <2>11. ItemAt(job, bs, d, <<h, c>>, <<Len(bs) + 1, c + n>>)
    BY <2>6, <2>10 DEF ItemAt
  <2>12. PICK b, l : /\ b = Len(bs) + 1 /\ l = c + n /\ b \in 1..(Len(bs) + 1) /\ l \in 0..Len(d)
                     /\ h <= b /\ c <= l
    BY <2>3, <2>4, <2>7
  <2>13. Cuts(job, bs, d, K, h, c) /\ ItemAt(job, bs, d, <<h, c>>, <<b, l>>)
    BY <1>2, <2>1, <2>2, <2>11, <2>12
  <2>14. Cuts(job, bs, d, K \cup {<<b, l>>}, b, l)
    BY ONLY <2>1, <2>2, <2>12, <2>13, CutsNext
  <2> QED BY <2>1, <2>2, <2>7, <2>12, <2>14
<1> QED BY <1>2, <1>3, <1>4

\* One more integer is packed, or none.
LEMMA HeadIs ==
  ASSUME CodecInv, Ours, LeftToDo, todo # <<>>
  PROVE  /\ Packed \in Nat /\ Packed + 1 \in 1..Len(Ints) /\ Head(todo) = Ints[Packed + 1]
         /\ todo' = Tail(todo) /\ Ints' = Ints => Packed' = Packed + 1 /\ LeftToDo'
<1>1. PICK d : d = Ints /\ d \in Seq(Word)
  BY IntsAre
<1>2. PICK t \in Seq(Word) : t = todo
  BY DEF CodecInv, Types
<1>3. PICK m \in Nat, n \in Nat, p \in Nat :
        m = Len(t) /\ n = Len(d) /\ p = n - m /\ p = Packed /\ m # 0
  <2>1. Len(t) # 0 /\ Len(t) \in Nat /\ Len(d) \in Nat
    BY <1>1, <1>2, EmptySeq
  <2>2. Len(d) - Len(t) \in Nat /\ Packed = Len(d) - Len(t)
    BY <1>1, <1>2, <2>1 DEF LeftToDo, Packed
  <2> QED BY <2>1, <2>2
<1>4. \A i \in 1..m : t[i] = d[p + i]
  BY <1>1, <1>2, <1>3 DEF LeftToDo
<1>5. Head(t) = t[1] /\ Tail(t) \in Seq(Word) /\ Len(Tail(t)) = m - 1
      /\ \A i \in 1..(m - 1) : Tail(t)[i] = t[i + 1]
  <2>1. t # <<>>
    BY <1>2
  <2>2. /\ Tail(t) \in Seq(Word) /\ Len(Tail(t)) = Len(t) - 1
        /\ \A i \in 1..Len(Tail(t)) : Tail(t)[i] = t[i + 1]
    BY ONLY t \in Seq(Word), <2>1, HeadTailProperties
  <2> QED BY <1>3, <2>1, <2>2
<1>6. ASSUME todo' = Tail(todo), Ints' = Ints
      PROVE  Packed' = Packed + 1 /\ LeftToDo'
  <2>1. Packed' = p + 1
    <3>1. Packed' = n - (m - 1)
      BY <1>1, <1>2, <1>3, <1>5, <1>6 DEF Packed
    <3> QED BY <1>3, <3>1
  <2>2. Len(todo') <= Len(Ints')
    BY <1>1, <1>2, <1>3, <1>5, <1>6
  <2>3. ASSUME NEW i \in 1..Len(todo') PROVE todo'[i] = Ints'[Packed' + i]
    <3>1. i \in 1..(m - 1) /\ i + 1 \in 1..m /\ p + (i + 1) = (p + 1) + i
      BY <1>2, <1>5, <1>6
    <3>2. Tail(t)[i] = d[p + (i + 1)]
      BY <1>4, <1>5, <3>1
    <3> QED BY <1>1, <1>2, <1>6, <2>1, <3>1, <3>2
  <2> QED BY <1>3, <2>1, <2>2, <2>3 DEF LeftToDo
<1> QED BY <1>1, <1>2, <1>3, <1>4, <1>5, <1>6

\* The header opens a block behind the last cut.
LEMMA StartBlockWrites ==
  ASSUME CodecInv, Ours, WriterInv, StartBlock
  PROVE  WriterInv'
<1> DEFINE n == IF Len(todo) < BlockMax THEN Len(todo) ELSE BlockMax
           chunk == SubSeq(todo, 1, n)
<1>1. /\ stage = "write" /\ todo # <<>> /\ job # "positions" /\ block = 0 /\ queue = <<>>
      /\ block' = Len(chunk) /\ width' = WidthOf(chunk)
      /\ bytes' = bytes \o <<block', width'>>
      /\ UNCHANGED <<job, values, stage, todo, queue>>
  BY DEF StartBlock, inputs
<1>2. todo \in Seq(Word) /\ n \in 1..BlockMax /\ n <= Len(todo) /\ n \in 1..Len(todo)
  <2>1. todo \in Seq(Word) /\ Len(todo) \in Nat /\ Len(todo) # 0
    BY <1>1, EmptySeq DEF CodecInv, Types
  <2> QED BY <2>1, Constant
<1> HIDE DEF n
<1>3. chunk \in Seq(Word) /\ Len(chunk) = n /\ \A i \in 1..n : chunk[i] = todo[i]
  <2>1. n \in 0..Len(todo)
    BY <1>2
  <2> QED BY ONLY <1>2, <2>1, BehindIs
<1> HIDE DEF chunk
<1>4. PICK w : w = width' /\ w \in 0..WordBits /\ \A i \in 1..n : chunk[i] < 2^w
  <2>1. WidthOf(chunk) \in 0..WordBits /\ \A i \in DOMAIN chunk : chunk[i] < 2^WidthOf(chunk)
    BY ONLY <1>3, WidthIs
  <2>2. DOMAIN chunk = 1..n
    BY <1>3
  <2> QED BY <1>1, <2>1, <2>2
<1>5. PICK d : d = Ints /\ d = Ints' /\ d \in Seq(Word)
  <2>1. Ints' = Ints
    BY <1>1 DEF Ints
  <2> QED BY <2>1, IntsAre
<1>6. PICK bs : bs = bytes /\ bs \in Seq(Byte)
  BY DEF CodecInv, Types
<1>7. PICK e : e = <<n, w>> /\ e \in Seq(Byte) /\ Len(e) = 2 /\ e[1] = n /\ e[2] = w
  <2>1. n \in Byte /\ w \in Byte
    BY <1>2, <1>4, Constant
  <2>2. <<n, w>> \in Seq(Byte) /\ Len(<<n, w>>) = 2 /\ <<n, w>>[1] = n /\ <<n, w>>[2] = w
    BY <2>1
  <2> QED BY <2>2
<1>8. PICK f : f = bs \o e /\ f = bytes' /\ f \in Seq(Byte) /\ Len(f) = Len(bs) + 2
  <2>1. bs \o e \in Seq(Byte) /\ Len(bs \o e) = Len(bs) + Len(e)
    BY ONLY <1>6, <1>7, Joined
  <2> QED BY <1>1, <1>3, <1>4, <1>6, <1>7, <2>1
<1>9. PICK h \in Nat \ {0} : h = Len(bs) + 1
  <2>1. Len(bs) + 1 \in Nat \ {0}
    BY <1>6
  <2> QED BY <2>1
<1>10. f[h] = n /\ f[h + 1] = w
  <2>1. \A i \in 1..Len(e) : f[Len(bs) + i] = e[i]
    BY ONLY <1>6, <1>7, <1>8, JoinedAt
  <2>2. 1 \in 1..Len(e) /\ 2 \in 1..Len(e) /\ h + 1 = Len(bs) + 2
    BY <1>6, <1>7, <1>9
  <2> QED BY <1>7, <1>9, <2>1, <2>2
<1>11. LeftToDo /\ LeftToDo' /\ Packed' = Packed
  <2>1. LeftToDo
    BY <1>1 DEF WriterInv
  <2>2. Packed' = Packed
    BY <1>1, <1>5 DEF Packed
  <2> QED BY <1>1, <1>5, <2>1, <2>2 DEF LeftToDo
<1>12. PICK c : c = Packed /\ c \in Nat /\ \A i \in 1..Len(todo) : todo[i] = d[c + i]
  BY <1>1, <1>5, <1>11, HeadIs DEF LeftToDo
<1>13. PICK K : Cuts(job, bs, d, K, h, c)
  BY <1>1, <1>5, <1>6, <1>9, <1>12, WholeBlocks
<1>14. Cuts(job', f, d, K, h, c)
  <2>1. Cuts(job, bs \o e, d, K, h, c)
    BY ONLY <1>5, <1>6, <1>7, <1>13, CutsMore
  <2> QED BY <1>1, <1>8, <2>1
<1>15. PICK R : R = Rest(f, h + 2) \o queue' /\ R \in Seq({0, 1}) /\ Len(R) = 0
  <2>1. h + 2 \in 1..(Len(f) + 1) /\ Len(f) + 1 - (h + 2) = 0
    BY <1>6, <1>8, <1>9
  <2>2. Rest(f, h + 2) \in Seq({0, 1}) /\ Len(Rest(f, h + 2)) = (Len(f) + 1 - (h + 2)) * ByteBits
    BY ONLY <1>8, <2>1, RestIs
  <2>3. 0 * ByteBits = 0
    BY Constant
  <2>4. Rest(f, h + 2) \o <<>> = Rest(f, h + 2)
    BY ONLY <2>2, ConcatEmptySeq
  <2> QED BY <1>1, <2>1, <2>2, <2>3, <2>4
<1>16. 0 * w = 0 /\ c - c = 0
  BY <1>4, <1>12, Constant
<1>17. Holds(R, d, c, 0, w)
  BY <1>15, <1>16 DEF Holds
<1>18. \A i \in 1..n : d[c + i] < 2^w
  <2>1. \A i \in 1..n : chunk[i] = d[c + i]
    BY <1>2, <1>3, <1>12
  <2> QED BY <1>4, <2>1
<1>19. BlockOpen(h, c)'
  <2>1. job' # "positions" /\ h + 1 <= Len(bytes') /\ c <= Packed' /\ Packed' - c = 0
    BY <1>1, <1>6, <1>8, <1>9, <1>11, <1>12, <1>16
  <2>2. bytes'[h] = (Packed' - c) + block' /\ bytes'[h] \in 1..BlockMax /\ bytes'[h + 1] = width'
    BY <1>1, <1>2, <1>3, <1>4, <1>8, <1>10, <2>1
  <2>3. \A i \in 1..bytes'[h] : Ints'[c + i] < 2^width'
    BY <1>4, <1>5, <1>8, <1>10, <1>18
  <2>4. Holds(Rest(bytes', h + 2) \o queue', Ints', c, Packed' - c, width')
    BY <1>4, <1>5, <1>8, <1>15, <1>17, <2>1
  <2>5. /\ Len(Rest(bytes', h + 2) \o queue') = (Packed' - c) * width'
        /\ Len(Rest(bytes', h + 2) \o queue') < (Packed' - c) * width' + ByteBits
    <3>1. Len(Rest(bytes', h + 2) \o queue') = 0 /\ (Packed' - c) * width' = 0
      BY <1>4, <1>8, <1>15, <1>16, <2>1
    <3>2. 0 < 0 + ByteBits
      BY Constant
    <3> QED BY <3>1, <3>2
  <2> QED BY <2>1, <2>2, <2>3, <2>4, <2>5 DEF BlockOpen
<1> QED BY <1>5, <1>8, <1>11, <1>14, <1>19 DEF WriterInv

\* A value that is packed is the next one of the open block.
LEMMA PackValueWrites ==
  ASSUME CodecInv, Ours, WriterInv, PackValue
  PROVE  WriterInv'
<1>1. /\ stage = "write" /\ block > 0
      /\ queue' = queue \o Bits(Head(todo), width)
      /\ todo' = Tail(todo) /\ block' = block - 1
      /\ UNCHANGED <<job, values, stage, width, bytes>>
  BY DEF PackValue, inputs
<1>2. /\ todo # <<>> /\ block \in Nat /\ width \in 0..WordBits /\ width \in Nat
      /\ queue \in Seq({0, 1}) /\ bytes \in Seq(Byte)
  BY <1>1, EmptySeq, Constant DEF CodecInv, Types, NotRead
<1>3. PICK d : d = Ints /\ d = Ints' /\ d \in Seq(Word)
  <2>1. Ints' = Ints
    BY <1>1 DEF Ints
  <2> QED BY <2>1, IntsAre
<1>4. LeftToDo
  BY <1>1 DEF WriterInv
<1>5. PICK p \in Nat, v \in Nat :
        /\ p = Packed /\ p + 1 = Packed' /\ v = Head(todo) /\ v = d[p + 1] /\ LeftToDo'
  <2>1. /\ Packed \in Nat /\ Packed + 1 \in 1..Len(Ints) /\ Head(todo) = Ints[Packed + 1]
        /\ Packed' = Packed + 1 /\ LeftToDo'
    BY <1>1, <1>2, <1>3, <1>4, HeadIs
  <2>2. d[Packed + 1] \in Nat
    <3>1. d[Packed + 1] \in Word
      BY <1>3, <2>1, ElementOfSeq
    <3> QED BY <3>1, Constant
  <2> QED BY <1>3, <2>1, <2>2
<1>6. PICK K, h, c : Cuts(job, bytes, d, K, h, c) /\ BlockOpen(h, c)
  BY <1>1, <1>3 DEF WriterInv
<1>7. h \in 1..(Len(bytes) + 1) /\ c \in Nat
  <2>1. c \in 0..Len(d) /\ Len(d) \in Nat
    BY <1>3, <1>6 DEF Cuts
  <2> QED BY <1>6, <2>1 DEF Cuts
<1>8. PICK k \in Nat : k = p - c /\ c + k = p
  <2>1. c <= p
    BY <1>5, <1>6 DEF BlockOpen
  <2> QED BY <1>5, <1>7, <2>1
<1>9. /\ h + 1 <= Len(bytes)
      /\ bytes[h] = k + block /\ bytes[h] \in 1..BlockMax /\ bytes[h + 1] = width
      /\ \A i \in 1..bytes[h] : d[c + i] < 2^width
      /\ job # "positions"
  BY <1>3, <1>5, <1>6, <1>8 DEF BlockOpen
<1>10. PICK R : R = Rest(bytes, h + 2) /\ R \in Seq({0, 1})
  <2>1. h + 2 \in 1..(Len(bytes) + 1)
    BY <1>2, <1>7, <1>9
  <2>2. Rest(bytes, h + 2) \in Seq({0, 1})
    BY ONLY <1>2, <2>1, RestIs
  <2> QED BY <2>2
<1>11. PICK S : /\ S = R \o queue /\ S \in Seq({0, 1})
                  /\ Holds(S, d, c, k, width) /\ Len(S) = k * width
  <2>1. R \o queue \in Seq({0, 1})
    BY ONLY <1>2, <1>10, Joined
  <2>2. Holds(R \o queue, d, c, k, width) /\ Len(R \o queue) = k * width
    BY <1>1, <1>3, <1>5, <1>6, <1>8, <1>10 DEF BlockOpen
  <2> QED BY <2>1, <2>2
<1>12. PICK B : B = Bits(v, width) /\ B \in Seq({0, 1})
  <2>1. Bits(v, width) \in Seq({0, 1})
    BY ONLY v \in Nat, <1>2, BitsAre
  <2> QED BY <2>1
<1>13. Holds(S \o B, d, c, k + 1, width) /\ Len(S \o B) = (k + 1) * width
  <2>1. d[c + k + 1] = v
    BY <1>5, <1>8
  <2>2. d[c + k + 1] \in Nat
    BY <2>1
  <2>3. PICK w \in Nat : w = width
    BY <1>2
  <2>4. c \in Nat /\ S \in Seq({0, 1}) /\ Holds(S, d, c, k, w) /\ Len(S) = k * w
    BY <1>7, <1>11, <2>3
  <2>5. /\ Holds(S \o Bits(d[c + k + 1], w), d, c, k + 1, w)
        /\ Len(S \o Bits(d[c + k + 1], w)) = (k + 1) * w
    BY ONLY k \in Nat, w \in Nat, <2>2, <2>4, HoldsMore
  <2> QED BY <1>12, <2>1, <2>3, <2>5
<1>14. S \o B = R \o queue'
  <2>1. (R \o queue) \o B = R \o (queue \o B)
    BY ONLY <1>2, <1>10, <1>12, ConcatAssociative
  <2> QED BY <1>1, <1>5, <1>11, <1>12, <2>1
<1>15. BlockOpen(h, c)'
  <2>1. Packed' - c = k + 1 /\ c <= Packed'
    BY <1>5, <1>7, <1>8
  <2>2. /\ job' # "positions" /\ h + 1 <= Len(bytes')
        /\ bytes'[h] = (Packed' - c) + block' /\ bytes'[h] \in 1..BlockMax /\ bytes'[h + 1] = width'
        /\ \A i \in 1..bytes'[h] : Ints'[c + i] < 2^width'
    BY <1>1, <1>2, <1>3, <1>9, <2>1
  <2>3. Rest(bytes', h + 2) \o queue' = S \o B
    BY <1>1, <1>10, <1>14
  <2>4. Holds(Rest(bytes', h + 2) \o queue', Ints', c, Packed' - c, width')
    BY <1>1, <1>3, <1>13, <2>1, <2>3
  <2>5. /\ Len(Rest(bytes', h + 2) \o queue') = (Packed' - c) * width'
        /\ Len(Rest(bytes', h + 2) \o queue') < (Packed' - c) * width' + ByteBits
    <3>1. PICK x \in Nat : x = (k + 1) * width
      <4>1. PICK y \in Nat : y = width
        BY <1>2
      <4>2. (k + 1) * y \in Nat
        OBVIOUS
      <4> QED BY <4>1, <4>2
    <3>2. x < x + ByteBits
      BY Constant
    <3> QED BY <1>1, <1>13, <2>1, <2>3, <3>1, <3>2
  <2> QED BY <2>1, <2>2, <2>4, <2>5 DEF BlockOpen
<1>16. Cuts(job', bytes', Ints', K, h, c)
  BY <1>1, <1>3, <1>6
<1> QED BY <1>5, <1>15, <1>16 DEF WriterInv

\* A byte that leaves the buffer takes its bits along, and zeros behind the last.
LEMMA PutByteWrites ==
  ASSUME CodecInv, Ours, WriterInv, PutByte
  PROVE  WriterInv'
<1> DEFINE taken == IF Len(queue) < ByteBits THEN Len(queue) ELSE ByteBits
<1>1. /\ stage = "write" /\ queue # <<>>
      /\ Len(queue) < ByteBits => block = 0
      /\ bytes' = Append(bytes, Number(SubSeq(queue, 1, taken)))
      /\ queue' = Behind(queue, taken)
      /\ UNCHANGED <<job, values, stage, todo, block, width>>
  <2>1. Len(queue) >= ByteBits => queue # <<>>
    BY Constant
  <2>2. queue \in Seq({0, 1})
    BY DEF CodecInv, Types
  <2>3. Len(queue) < ByteBits => ~(Len(queue) >= ByteBits)
    BY <2>2, Constant
  <2> QED BY <2>1, <2>3 DEF PutByte, inputs
<1>2. /\ queue \in Seq({0, 1}) /\ Len(queue) \in Nat /\ taken \in 0..Len(queue) /\ taken <= ByteBits
      /\ bytes \in Seq(Byte) /\ Len(bytes) \in Nat
      /\ block \in Nat /\ width \in Nat
  BY <1>1, EmptySeq, Constant DEF CodecInv, Types
<1>3. taken = ByteBits \/ (block = 0 /\ taken = Len(queue) /\ Len(queue) < ByteBits)
  BY <1>1, <1>2
<1> HIDE DEF taken
<1>4. PICK F : F = SubSeq(queue, 1, taken) /\ F \in Seq({0, 1}) /\ Len(F) = taken
  <2>1. SubSeq(queue, 1, taken) \in Seq({0, 1}) /\ Len(SubSeq(queue, 1, taken)) = taken
    BY ONLY <1>2, BehindIs
  <2> QED BY <2>1
<1>5. queue' \in Seq({0, 1}) /\ Len(queue') = Len(queue) - taken
  <2>1. Behind(queue, taken) \in Seq({0, 1}) /\ Len(Behind(queue, taken)) = Len(queue) - taken
    BY ONLY <1>2, BehindIs
  <2> QED BY <1>1, <2>1
<1>6. queue = F \o queue'
  <2>1. /\ 1 \in 1..(Len(queue) + 1) /\ taken \in (1 - 1)..Len(queue)
        /\ Len(queue) \in taken..Len(queue)
    BY <1>2
  <2>2. SubSeq(queue, 1, taken) \o SubSeq(queue, taken + 1, Len(queue))
          = SubSeq(queue, 1, Len(queue))
    BY ONLY <1>2, <2>1, ConcatAdjacentSubSeq
  <2>3. SubSeq(queue, 1, Len(queue)) = queue
    BY ONLY <1>2, SubSeqFull
  <2> QED BY <1>1, <1>4, <2>2, <2>3 DEF Behind
<1>7. PICK v : v = Number(F) /\ v \in Byte /\ v \in Nat
  <2>1. Number(F) \in Byte
    BY <1>2, <1>4, ByteOfBits
  <2> QED BY <2>1, Constant
<1>8. PICK B : /\ B = Bits(v, ByteBits) /\ B \in Seq({0, 1}) /\ Len(B) = ByteBits
               /\ \A x \in 1..Len(F) : B[x] = F[x]
  <2>1. ByteBits \in Nat
    BY Constant
  <2>2. Bits(v, ByteBits) \in Seq({0, 1}) /\ Len(Bits(v, ByteBits)) = ByteBits
    BY ONLY <1>7, <2>1, BitsAre
  <2>3. Len(F) <= ByteBits
    BY <1>2, <1>4
  <2>4. \A x \in 1..Len(F) : Bits(Number(F), ByteBits)[x] = F[x]
    BY ONLY <1>4, <2>3, PutBitsAre
  <2> QED BY <1>7, <2>2, <2>4
<1>9. PICK f : /\ f = bytes' /\ f = bytes \o <<v>> /\ f \in Seq(Byte) /\ Len(f) = Len(bytes) + 1
               /\ \A i \in 1..Len(bytes) : f[i] = bytes[i]
  <2>1. bytes' = Append(bytes, v)
    BY <1>1, <1>4, <1>7
  <2>2. /\ Append(bytes, v) = bytes \o <<v>>
        /\ Append(bytes, v) \in Seq(Byte) /\ Len(Append(bytes, v)) = Len(bytes) + 1
        /\ \A i \in 1..Len(bytes) : Append(bytes, v)[i] = bytes[i]
    BY ONLY <1>2, <1>7
  <2> QED BY <2>1, <2>2
<1>10. PICK d : d = Ints /\ d = Ints' /\ d \in Seq(Word)
  <2>1. Ints' = Ints
    BY <1>1 DEF Ints
  <2> QED BY <2>1, IntsAre
<1>11. LeftToDo' /\ Packed' = Packed
  <2>1. LeftToDo
    BY <1>1 DEF WriterInv
  <2>2. Packed' = Packed
    BY <1>1, <1>10 DEF Packed
  <2> QED BY <1>1, <1>10, <2>1, <2>2 DEF LeftToDo
<1>12. PICK K, h, c : Cuts(job, bytes, d, K, h, c) /\ BlockOpen(h, c)
  BY <1>1, <1>10 DEF WriterInv
<1>13. h \in 1..(Len(bytes) + 1) /\ c \in Nat
  <2>1. c \in 0..Len(d) /\ Len(d) \in Nat
    BY <1>10, <1>12 DEF Cuts
  <2> QED BY <1>12, <2>1 DEF Cuts
<1>14. PICK k \in Nat : k = Packed - c
  <2>1. c <= Packed
    BY <1>12 DEF BlockOpen
  <2>2. Packed \in Int
    BY <1>10 DEF Packed, CodecInv, Types
  <2> QED BY <1>13, <2>1, <2>2
<1>15. /\ job # "positions" /\ h + 1 <= Len(bytes) /\ c <= Packed
       /\ bytes[h] = k + block /\ bytes[h] \in 1..BlockMax /\ bytes[h + 1] = width
       /\ \A i \in 1..bytes[h] : d[c + i] < 2^width
  BY <1>10, <1>12, <1>14 DEF BlockOpen
<1>16. PICK R : R = Rest(bytes, h + 2) /\ R \in Seq({0, 1}) /\ Rest(f, h + 2) = R \o B
  <2>1. h + 2 \in 1..(Len(bytes) + 1)
    BY <1>2, <1>13, <1>15
  <2>2. PICK V : V = <<v>> /\ V \in Seq(Byte)
    <3>1. <<v>> \in Seq(Byte)
      BY <1>7
    <3> QED BY <3>1
  <2>3. Rest(bytes, h + 2) \in Seq({0, 1})
    BY ONLY <1>2, <2>1, RestIs
  <2>4. Rest(bytes \o V, h + 2) = Rest(bytes, h + 2) \o AllBits(V)
    BY ONLY <1>2, <2>1, <2>2, RestMore
  <2>5. AllBits(V) = B
    BY <1>7, <1>8, <2>2, AllBitsOne
  <2> QED BY <1>9, <2>2, <2>3, <2>4, <2>5
<1>17. PICK S : /\ S = R \o queue /\ S \in Seq({0, 1})
                  /\ Holds(S, d, c, k, width) /\ Len(S) = k * width
  <2>1. R \o queue \in Seq({0, 1})
    BY ONLY <1>2, <1>16, Joined
  <2>2. Holds(R \o queue, d, c, k, width) /\ Len(R \o queue) = k * width
    BY <1>1, <1>10, <1>12, <1>14, <1>16 DEF BlockOpen
  <2> QED BY <2>1, <2>2
<1>18. PICK T : T = Rest(f, h + 2) \o queue' /\ T = R \o (B \o queue')
  <2>1. (R \o B) \o queue' = R \o (B \o queue')
    BY ONLY <1>5, <1>8, <1>16, ConcatAssociative
  <2> QED BY <1>16, <2>1
<1>19. PICK x \in Nat : x = k * width /\ x = Len(S)
  BY <1>17
<1>20. /\ Holds(T, d, c, k, width) /\ Len(T) < x + ByteBits
       /\ block > 0 \/ queue' # <<>> => Len(T) = x
  <2>1. CASE taken = ByteBits
    <3>1. B = F
      BY ONLY <1>4, <1>8, <2>1, SeqEqual
    <3>2. T = S
      BY <1>6, <1>17, <1>18, <3>1
    <3> QED BY <1>17, <1>19, <3>2, Constant
  <2>2. CASE block = 0 /\ taken = Len(queue) /\ Len(queue) < ByteBits
    <3>1. queue' = <<>>
      <4>1. Len(queue') = 0
        BY <1>2, <1>5, <2>2
      <4> QED BY <1>5, <4>1
    <3>2. B \o <<>> = B /\ F \o <<>> = F
      BY ONLY <1>4, <1>8, ConcatEmptySeq
    <3>3. T = R \o B /\ S = R \o F
      BY <1>6, <1>17, <1>18, <3>1, <3>2
    <3>4. PICK r \in Nat, q \in Nat : r = Len(R) /\ q = Len(F) /\ q < ByteBits
      BY <1>4, <1>16, <2>2
    <3>5. /\ T \in Seq({0, 1}) /\ Len(T) = Len(R) + Len(B)
          /\ Len(S) = Len(R) + Len(F)
      BY ONLY <1>4, <1>8, <1>16, <3>3, Joined
    <3>6. /\ \A i \in 1..Len(R) : T[i] = R[i]
          /\ \A i \in 1..Len(B) : T[Len(R) + i] = B[i]
      BY ONLY <1>8, <1>16, <3>3, JoinedAt
    <3>7. /\ \A i \in 1..Len(R) : S[i] = R[i]
          /\ \A i \in 1..Len(F) : S[Len(R) + i] = F[i]
      BY ONLY <1>4, <1>16, <3>3, JoinedAt
    <3>8. ASSUME NEW i \in 1..Len(S) PROVE T[i] = S[i]
      <4>1. CASE i \in 1..r
        BY <3>4, <3>6, <3>7, <4>1
      <4>2. CASE i \notin 1..r
        <5>1. PICK j \in 1..q : i = r + j
          <6>1. i - r \in 1..q /\ i = r + (i - r)
            BY <3>4, <3>5, <4>2
          <6> QED BY <6>1
        <5>2. j \in 1..Len(F) /\ j \in 1..Len(B)
          BY <1>8, <3>4, <5>1, Constant
        <5> QED BY <1>8, <3>4, <3>6, <3>7, <5>1, <5>2
      <4> QED BY <4>1, <4>2
    <3>9. Len(S) <= Len(T) /\ Len(T) < x + ByteBits
      <4>1. Len(B) = ByteBits /\ ByteBits \in Nat
        BY <1>8, Constant
      <4>2. q # 0
        <5>1. Len(queue) # 0
          BY <1>1, <1>2, EmptySeq
        <5> QED BY <1>4, <2>2, <3>4, <5>1
      <4> QED BY <1>19, <3>4, <3>5, <4>1, <4>2
    <3>10. Holds(T, d, c, k, width)
      BY ONLY <1>2, <1>13, <1>17, k \in Nat, <3>5, <3>8, <3>9, HoldsLonger
    <3> QED BY <2>2, <3>1, <3>9, <3>10
  <2> QED BY <1>3, <2>1, <2>2
<1>21. BlockOpen(h, c)'
  <2>1. Packed' - c = k /\ c <= Packed'
    BY <1>11, <1>14, <1>15
  <2>2. h \in 1..Len(bytes) /\ h + 1 \in 1..Len(bytes)
    BY <1>2, <1>13, <1>15
  <2>3. /\ job' # "positions" /\ h + 1 <= Len(bytes')
        /\ bytes'[h] = (Packed' - c) + block' /\ bytes'[h] \in 1..BlockMax /\ bytes'[h + 1] = width'
        /\ \A i \in 1..bytes'[h] : Ints'[c + i] < 2^width'
    BY <1>1, <1>2, <1>9, <1>10, <1>15, <2>1, <2>2
  <2>4. Rest(bytes', h + 2) \o queue' = T
    BY <1>9, <1>18
  <2>5. Holds(Rest(bytes', h + 2) \o queue', Ints', c, Packed' - c, width')
    BY <1>1, <1>10, <1>20, <2>1, <2>4
  <2>6. /\ Len(Rest(bytes', h + 2) \o queue') < (Packed' - c) * width' + ByteBits
        /\ block' > 0 \/ queue' # <<>> =>
             Len(Rest(bytes', h + 2) \o queue') = (Packed' - c) * width'
    BY <1>1, <1>19, <1>20, <2>1, <2>4
  <2> QED BY <2>1, <2>3, <2>5, <2>6 DEF BlockOpen
<1>22. Cuts(job', bytes', Ints', K, h, c)
  <2>1. PICK V : V = <<v>> /\ V \in Seq(Byte)
    <3>1. <<v>> \in Seq(Byte)
      BY <1>7
    <3> QED BY <3>1
  <2>2. Cuts(job, bytes \o V, d, K, h, c)
    BY ONLY <1>2, <1>10, <1>12, <2>1, CutsMore
  <2> QED BY <1>1, <1>9, <1>10, <2>1, <2>2
<1> QED BY <1>11, <1>21, <1>22 DEF WriterInv

\* The groups of an integer make a cut.
LEMMA PutVariableWrites ==
  ASSUME CodecInv, Ours, WriterInv, PutVariable
  PROVE  WriterInv'
<1>1. /\ stage = "write" /\ job = "positions" /\ todo # <<>>
      /\ bytes' = bytes \o VarBytes[Head(todo)]
      /\ todo' = Tail(todo)
      /\ UNCHANGED <<job, values, stage, block, width, queue>>
  BY DEF PutVariable, inputs
<1>2. PICK d : d = Ints /\ d = Ints' /\ d \in Seq(Word)
  <2>1. Ints' = Ints
    BY <1>1 DEF Ints
  <2> QED BY <2>1, IntsAre
<1>3. LeftToDo
  BY <1>1 DEF WriterInv
<1>4. PICK p \in Nat : /\ p = Packed /\ p + 1 = Packed' /\ p + 1 \in 1..Len(d)
                       /\ Head(todo) = d[p + 1] /\ LeftToDo'
  BY <1>1, <1>2, <1>3, HeadIs
<1>5. PICK v \in Word : v = Head(todo) /\ v = d[p + 1]
  BY <1>2, <1>4, ElementOfSeq
<1>6. PICK bs : bs = bytes /\ bs \in Seq(Byte)
  BY DEF CodecInv, Types
<1>7. PICK e : e = VarBytes[v] /\ e \in Seq(Byte)
  BY VarBytesAre
<1>8. PICK f : /\ f = bytes' /\ f = bs \o e /\ f \in Seq(Byte) /\ Len(f) = Len(bs) + Len(e)
               /\ \A i \in 1..Len(e) : f[Len(bs) + i] = e[i]
  <2>1. bs \o e \in Seq(Byte) /\ Len(bs \o e) = Len(bs) + Len(e)
    BY ONLY <1>6, <1>7, Joined
  <2>2. \A i \in 1..Len(e) : (bs \o e)[Len(bs) + i] = e[i]
    BY ONLY <1>6, <1>7, JoinedAt
  <2> QED BY <1>1, <1>5, <1>6, <1>7, <2>1, <2>2
<1>9. PICK m, b, l : m = Len(bs) + 1 /\ b = Len(f) + 1 /\ l = p + 1
  OBVIOUS
<1>10. PICK K : Cuts(job, bs, d, K, m, p)
  <2>1. PICK K, h, c :
          /\ Cuts(job, bytes, Ints, K, h, c)
          /\ \/ block = 0 /\ queue = <<>> /\ h = Len(bytes) + 1 /\ c = Packed
             \/ BlockOpen(h, c)
    BY <1>1 DEF WriterInv
  <2>2. h = Len(bytes) + 1 /\ c = Packed
    BY <1>1, <2>1 DEF BlockOpen
  <2> QED BY <1>2, <1>4, <1>6, <1>9, <2>1, <2>2
<1>11. Cuts(job, f, d, K, m, p)
  BY ONLY <1>2, <1>6, <1>7, <1>8, <1>10, CutsMore
<1>12. Len(bs) \in Nat /\ Len(e) \in Nat
  BY <1>6, <1>7
<1>13. GroupsAt(f, v, m, b)
  <2>1. b = m + Len(e) /\ b <= Len(f) + 1
    BY <1>8, <1>9, <1>12
  <2>2. ASSUME NEW i \in 1..Len(e) PROVE f[m + i - 1] = e[i]
    <3>1. m + i - 1 = Len(bs) + i
      BY <1>9, <1>12
    <3> QED BY <1>8, <3>1
  <2> QED BY <1>7, <2>1, <2>2 DEF GroupsAt
<1>14. ItemAt(job, f, d, <<m, p>>, <<b, l>>)
  BY <1>1, <1>5, <1>9, <1>13 DEF ItemAt
<1>15. b \in 1..(Len(f) + 1) /\ l \in 0..Len(d) /\ m <= b /\ p <= l
  <2>1. Len(d) \in Nat
    BY <1>2
  <2> QED BY <1>4, <1>8, <1>9, <1>12, <2>1
<1>16. Cuts(job, f, d, K \cup {<<b, l>>}, b, l)
  BY ONLY <1>2, <1>8, <1>11, <1>14, <1>15, CutsNext
<1>17. block' = 0 /\ queue' = <<>>
  <2>1. block = 0
    BY <1>1 DEF CodecInv, NotRead
  <2>2. PICK K2, h, c :
          \/ block = 0 /\ queue = <<>> /\ h = Len(bytes) + 1 /\ c = Packed
          \/ BlockOpen(h, c)
    BY <1>1 DEF WriterInv
  <2> QED BY <1>1, <2>1, <2>2 DEF BlockOpen
<1>18. Cuts(job', bytes', Ints', K \cup {<<b, l>>}, b, l) /\ b = Len(bytes') + 1 /\ l = Packed'
  BY <1>1, <1>2, <1>4, <1>8, <1>9, <1>16
<1> QED BY <1>4, <1>17, <1>18 DEF WriterInv

\* A section that is stored is whole.
LEMMA StoreWrites ==
  ASSUME CodecInv, Ours, WriterInv, Store
  PROVE  Section(bytes)
<1>1. stage = "write" /\ todo = <<>> /\ queue = <<>>
  BY DEF Store
<1>2. block = 0
  <2>1. block <= 0 /\ block \in Nat
    BY <1>1 DEF CodecInv, Types, NotRead
  <2> QED BY <2>1
<1>3. PICK K : Cuts(job, bytes, Ints, K, Len(bytes) + 1, Packed)
  BY <1>1, <1>2, WholeBlocks
<1>4. Packed = Len(Ints)
  <2>1. Len(Ints) \in Nat /\ Len(todo) = 0
    BY <1>1, IntsAre
  <2> QED BY <2>1 DEF Packed
<1> QED BY <1>3, <1>4 DEF Section

\* An empty section has one cut.
LEMMA WriterStarts ==
  ASSUME Ours, stage = "write", block = 0, queue = <<>>, todo = Ints, bytes = <<>>
  PROVE  WriterInv
<1>1. PICK d : d = Ints /\ d \in Seq(Word) /\ Len(d) \in Nat
  BY IntsAre
<1>2. Packed = 0
  BY <1>1 DEF Packed
<1>3. LeftToDo
  <2>1. \A i \in 1..Len(d) : 0 + i = i
    OBVIOUS
  <2> QED BY <1>1, <1>2, <2>1 DEF LeftToDo
<1>4. Cuts(job, bytes, Ints, {<<1, 0>>}, 1, 0)
  <2>1. Len(bytes) = 0
    OBVIOUS
  <2>2. 1 \in 1..(0 + 1) /\ 0 \in 0..Len(d) /\ 1 \in 1..1 /\ 0 \in 0..0
    BY <1>1
  <2>3. {<<1, 0>>} \subseteq (1..1) \X (0..0)
    BY <2>2
  <2> QED BY <1>1, <2>1, <2>2, <2>3 DEF Cuts
<1>5. 1 = Len(bytes) + 1 /\ 0 = Packed
  BY <1>2
<1> QED BY <1>3, <1>4, <1>5 DEF WriterInv

-----------------------------------------------------------------------------
(* Differences, and what is at a cut.                                      *)

\* Differences add up to what they are differences of.
LEMMA DeltasAddUp ==
  ASSUME NEW s \in Seq(Word), Ascending(s)
  PROVE  Sums(Deltas(s)) = s /\ Summable(Deltas(s))
<1>1. PICK d : d = Deltas(s) /\ d \in Seq(Word) /\ d \in Seq(Nat) /\ Len(d) = Len(s)
  <2>1. Deltas(s) \in Seq(Word)
    BY DeltasAre
  <2>2. Deltas(s) \in Seq(Nat)
    BY ONLY <2>1, WordsAreNumbers
  <2>3. Len(Deltas(s)) = Len(s)
    BY DEF Deltas
  <2> QED BY <2>1, <2>2, <2>3
<1>2. PICK n \in Nat : n = Len(s)
  OBVIOUS
<1>3. s \in Seq(Nat)
  BY WordsAreNumbers
<1>4. /\ n > 0 => d[1] = s[1]
      /\ \A i \in 2..n :
           d[i] = s[i] - s[i - 1] /\ s[i - 1] < s[i] /\ s[i - 1] \in Nat /\ s[i] \in Nat
  <2>1. DOMAIN s = 1..n
    BY <1>2
  <2>2. \A i \in 1..n : d[i] = IF i = 1 THEN s[i] ELSE s[i] - s[i - 1]
    BY <1>1, <2>1 DEF Deltas
  <2>3. ASSUME NEW i \in 2..n
        PROVE  d[i] = s[i] - s[i - 1] /\ s[i - 1] < s[i] /\ s[i - 1] \in Nat /\ s[i] \in Nat
    <3>1. i \in 1..n /\ i - 1 \in 1..n /\ i - 1 < i /\ i # 1
      BY <1>2
    <3>2. d[i] = s[i] - s[i - 1]
      BY <2>2, <3>1
    <3>3. s[i - 1] < s[i]
      BY <2>1, <3>1 DEF Ascending
    <3>4. s[i - 1] \in Nat /\ s[i] \in Nat
      BY <1>2, <1>3, <3>1, ElementOfSeq
    <3> QED BY <3>2, <3>3, <3>4
  <2>4. n > 0 => d[1] = s[1]
    <3>1. n > 0 => 1 \in 1..n
      BY <1>2
    <3> QED BY <2>2, <3>1
  <2> QED BY <2>3, <2>4
<1>5. PICK u : u = Sums(d) /\ u \in Seq(Nat) /\ Len(u) = n
               /\ (n > 0 => u[1] = d[1])
               /\ \A i \in 2..n : u[i] = u[i - 1] + d[i]
  <2>1. /\ Sums(d) \in Seq(Nat) /\ Len(Sums(d)) = Len(d)
        /\ d # <<>> => Sums(d)[1] = d[1]
        /\ \A i \in 2..Len(d) : Sums(d)[i] = Sums(d)[i - 1] + d[i]
    BY ONLY <1>1, SumsAre
  <2>2. Len(d) = n /\ (n > 0 => d # <<>>)
    BY <1>1, <1>2
  <2> QED BY <2>1, <2>2
<1> DEFINE S == {k \in Nat : k + 1 <= n => u[k + 1] = s[k + 1]}
<1>6. 0 \in S
  BY <1>4, <1>5
<1>7. ASSUME NEW k \in Nat, k \in S PROVE k + 1 \in S
  <2> SUFFICES ASSUME (k + 1) + 1 <= n PROVE u[(k + 1) + 1] = s[(k + 1) + 1]
    OBVIOUS
  <2>1. PICK i \in 2..n : i = (k + 1) + 1 /\ i - 1 = k + 1 /\ k + 1 <= n
    <3>1. (k + 1) + 1 \in 2..n /\ ((k + 1) + 1) - 1 = k + 1 /\ k + 1 <= n
      BY <1>2
    <3> QED BY <3>1
  <2>2. u[i - 1] = s[i - 1]
    BY <1>7, <2>1
  <2>3. u[i] = u[i - 1] + d[i] /\ d[i] = s[i] - s[i - 1] /\ s[i - 1] \in Nat /\ s[i] \in Nat
    BY <1>4, <1>5
  <2> QED BY <2>1, <2>2, <2>3
<1> HIDE DEF S
<1>8. ASSUME NEW i \in 1..n PROVE u[i] = s[i]
  <2>1. PICK k \in Nat : k + 1 = i
    <3>1. i - 1 \in Nat /\ (i - 1) + 1 = i
      BY <1>2
    <3> QED BY <3>1
  <2>2. k \in S
    BY <1>6, <1>7, Induction
  <2>3. i <= n
    BY <1>2
  <2> QED BY <2>1, <2>2, <2>3 DEF S
<1>9. u = s
  <2>1. Len(u) = Len(s)
    BY <1>2, <1>5
  <2> QED BY ONLY <1>2, <1>3, <1>5, <1>8, <2>1, SeqEqual
<1>10. Summable(d)
  <2>1. DOMAIN d = 1..n
    BY <1>1, <1>2
  <2>2. ASSUME NEW i \in 1..n PROVE (i > 1 => d[i] > 0) /\ Sums(d)[i] \in Word
    <3>1. s[i] \in Word
      BY <1>2
    <3>2. ASSUME i > 1 PROVE d[i] > 0
      <4>1. i \in 2..n
        BY <1>2, <3>2
      <4>2. d[i] = s[i] - s[i - 1] /\ s[i - 1] < s[i] /\ s[i - 1] \in Nat /\ s[i] \in Nat
        BY <1>4, <4>1
      <4> QED BY <4>2
    <3> QED BY <1>5, <1>9, <3>1, <3>2
  <2> QED BY <2>1, <2>2 DEF Summable
<1> QED BY <1>1, <1>5, <1>9, <1>10

\* At a cut before the last comes a block, or the groups of an integer.
LEMMA NextItem ==
  ASSUME NEW kind, NEW bs \in Seq(Byte), NEW d \in Seq(Word), NEW K, NEW m,
         Cuts(kind, bs, d, K, m, Len(d)),
         NEW a, NEW k, <<a, k>> \in K, k < Len(d)
  PROVE  \E b \in 1..m, l \in 0..Len(d) :
           <<b, l>> \in K /\ ItemAt(kind, bs, d, <<a, k>>, <<b, l>>)
<1>1. /\ K \subseteq (1..m) \X (0..Len(d))
      /\ \A p \in K : p = <<m, Len(d)>> \/ \E q \in K : ItemAt(kind, bs, d, p, q)
  BY DEF Cuts
<1>2. <<a, k>> # <<m, Len(d)>>
  <2>1. k \in 0..Len(d) /\ Len(d) \in Nat
    BY <1>1
  <2>2. k # Len(d)
    BY <2>1
  <2> QED BY <2>2
<1>3. PICK q \in K : ItemAt(kind, bs, d, <<a, k>>, q)
  BY <1>1, <1>2
<1>4. q = <<q[1], q[2]>> /\ q[1] \in 1..m /\ q[2] \in 0..Len(d)
  BY <1>1
<1>5. PICK b, l : b = q[1] /\ l = q[2] /\ q = <<b, l>>
  BY <1>4
<1> QED BY <1>3, <1>4, <1>5

\* No cut but the last has all integers before it.
LEMMA LastCut ==
  ASSUME NEW kind, NEW bs \in Seq(Byte), NEW d \in Seq(Word), NEW K, NEW m,
         Cuts(kind, bs, d, K, m, Len(d)),
         NEW a, <<a, Len(d)>> \in K
  PROVE  a = m
<1>1. /\ K \subseteq (1..m) \X (0..Len(d))
      /\ \A p \in K : p = <<m, Len(d)>> \/ \E q \in K : ItemAt(kind, bs, d, p, q)
  BY DEF Cuts
<1> SUFFICES ASSUME a # m PROVE FALSE
  OBVIOUS
<1>2. PICK q \in K : ItemAt(kind, bs, d, <<a, Len(d)>>, q)
  <2>1. <<a, Len(d)>> # <<m, Len(d)>>
    OBVIOUS
  <2> QED BY <1>1, <2>1
<1>3. PICK n \in Nat, l \in Nat : n = Len(d) /\ l = q[2] /\ l <= n
  <2>1. q[2] \in 0..Len(d) /\ Len(d) \in Nat
    BY <1>1
  <2> QED BY <2>1
<1>4. CASE kind = "positions"
  <2>1. q[2] = Len(d) + 1
    BY <1>2, <1>4 DEF ItemAt
  <2> QED BY <1>3, <2>1
<1>5. CASE kind # "positions"
  <2>1. bs[a] = l - n /\ bs[a] \in 1..BlockMax
    BY <1>2, <1>3, <1>5 DEF ItemAt, BlockAt
  <2> QED BY <1>3, <2>1, Constant
<1> QED BY <1>4, <1>5

\* The first group of an integer, and those behind it.
LEMMA VarBytesIs ==
  ASSUME NEW n \in Word
  PROVE  /\ Len(VarBytes[n]) >= 1
         /\ n < HalfByte => VarBytes[n] = <<n>>
         /\ n >= HalfByte =>
              /\ n \div HalfByte \in Word /\ n % HalfByte \in 0..(HalfByte - 1)
              /\ n = HalfByte * (n \div HalfByte) + (n % HalfByte)
              /\ VarBytes[n][1] = (n % HalfByte) + HalfByte
              /\ Len(VarBytes[n]) = Len(VarBytes[n \div HalfByte]) + 1
              /\ \A i \in 1..Len(VarBytes[n \div HalfByte]) :
                   VarBytes[n][i + 1] = VarBytes[n \div HalfByte][i]
<1>1. PICK H \in Nat \ {0} : H = HalfByte /\ H >= 2
  BY Constant
<1>2. n \in Nat
  BY Constant
<1>3. VarBytes[n] = IF n < H THEN <<n>> ELSE <<(n % H) + H>> \o VarBytes[n \div H]
  BY <1>1, VarBytesFollow
<1>4. CASE n < H
  <2>1. VarBytes[n] = <<n>> /\ Len(<<n>>) = 1
    BY <1>3, <1>4
  <2> QED BY <1>1, <1>2, <1>4, <2>1
<1>5. CASE n >= H
  <2>1. PICK q \in Nat, r \in 0..(H - 1) : q = n \div H /\ r = n % H /\ q <= n /\ n = H * q + r
    <3>1. n % H \in 0..(H - 1) /\ n \div H \in 0..n /\ n = H * (n \div H) + (n % H)
      BY <1>1, <1>2, Division
    <3> QED BY <1>2, <3>1
  <2>2. q \in Word
    <3>1. 2^WordBits \in Nat
      BY Constant
    <3> QED BY <1>2, <2>1, <3>1 DEF Word
  <2>3. PICK V : V = VarBytes[q] /\ V \in Seq(Byte)
    BY <2>2, VarBytesAre
  <2>4. PICK B : B = <<r + H>> /\ B \in Seq(Byte) /\ Len(B) = 1 /\ B[1] = r + H
    <3>1. r + H \in Byte
      BY <1>1, <2>1, Constant
    <3>2. <<r + H>> \in Seq(Byte) /\ Len(<<r + H>>) = 1 /\ <<r + H>>[1] = r + H
      BY <3>1
    <3> QED BY <3>2
  <2>5. VarBytes[n] = B \o V
    <3>1. ~(n < H)
      BY <1>2, <1>5
    <3> QED BY <1>3, <2>1, <2>3, <2>4, <3>1
  <2>6. Len(B \o V) = Len(B) + Len(V)
    BY ONLY <2>3, <2>4, Joined
  <2>7. /\ \A i \in 1..Len(B) : (B \o V)[i] = B[i]
        /\ \A i \in 1..Len(V) : (B \o V)[Len(B) + i] = V[i]
    BY ONLY <2>3, <2>4, JoinedAt
  <2>8. Len(V) \in Nat
    BY <2>3
  <2>9. (B \o V)[1] = r + H /\ \A i \in 1..Len(V) : (B \o V)[i + 1] = V[i]
    <3>1. 1 \in 1..Len(B)
      BY <2>4
    <3>2. \A i \in 1..Len(V) : i + 1 = Len(B) + i
      BY <2>4
    <3> QED BY <2>4, <2>7, <3>1, <3>2
  <2>10. Len(VarBytes[n]) = Len(V) + 1 /\ Len(VarBytes[n]) >= 1
    BY <2>4, <2>5, <2>6, <2>8
  <2>11. VarBytes[n][1] = r + H /\ \A i \in 1..Len(V) : VarBytes[n][i + 1] = V[i]
    BY <2>5, <2>9
  <2>12. ~(n < HalfByte)
    BY <1>1, <1>2, <1>5
  <2>13. q = n \div HalfByte /\ r = n % HalfByte /\ V = VarBytes[n \div HalfByte]
    BY <1>1, <2>1, <2>3
  <2> QED BY <1>1, <2>1, <2>2, <2>10, <2>11, <2>12, <2>13
<1> QED BY <1>1, <1>2, <1>4, <1>5

\* Groups behind the first are those of what is left of the integer.
LEMMA GroupsLess ==
  ASSUME NEW bs, NEW n \in Word, NEW a \in Nat \ {0}, NEW b, GroupsAt(bs, n, a, b)
  PROVE  /\ bs[a] = VarBytes[n][1] /\ a < b /\ b <= Len(bs) + 1 /\ b \in Nat
         /\ n < HalfByte => b = a + 1 /\ bs[a] = n
         /\ n >= HalfByte => GroupsAt(bs, n \div HalfByte, a + 1, b)
<1>1. PICK V : V = VarBytes[n] /\ V \in Seq(Byte) /\ Len(V) >= 1 /\ Len(V) \in Nat
  <2>1. VarBytes[n] \in Seq(Byte) /\ Len(VarBytes[n]) >= 1
    BY VarBytesAre, VarBytesIs
  <2> QED BY <2>1
<1>2. b = a + Len(V) /\ b <= Len(bs) + 1 /\ \A i \in 1..Len(V) : bs[a + i - 1] = V[i]
  BY <1>1 DEF GroupsAt
<1>3. bs[a] = V[1]
  <2>1. 1 \in 1..Len(V) /\ a + 1 - 1 = a
    BY <1>1
  <2>2. bs[a + 1 - 1] = V[1]
    BY <1>2, <2>1
  <2> QED BY <2>1, <2>2
<1>4. ASSUME n < HalfByte PROVE b = a + 1 /\ bs[a] = n
  <2>1. V = <<n>> /\ Len(<<n>>) = 1 /\ <<n>>[1] = n
    BY <1>1, <1>4, VarBytesIs
  <2> QED BY <1>2, <1>3, <2>1
<1>5. ASSUME n >= HalfByte PROVE GroupsAt(bs, n \div HalfByte, a + 1, b)
  <2>1. PICK W : /\ W = VarBytes[n \div HalfByte] /\ W \in Seq(Byte) /\ Len(V) = Len(W) + 1
                 /\ \A i \in 1..Len(W) : V[i + 1] = W[i]
    <3>1. n \div HalfByte \in Word
      BY <1>5, VarBytesIs
    <3>2. VarBytes[n \div HalfByte] \in Seq(Byte)
      BY <3>1, VarBytesAre
    <3> QED BY <1>1, <1>5, <3>2, VarBytesIs
  <2>2. Len(W) \in Nat /\ b = (a + 1) + Len(W)
    <3>1. PICK g \in Nat : g = Len(W) /\ Len(V) = g + 1
      BY <2>1
    <3>2. b = a + (g + 1)
      BY <1>2, <3>1
    <3>3. b = (a + 1) + g
      BY <3>2
    <3> QED BY <3>1, <3>3
  <2>3. ASSUME NEW i \in 1..Len(W) PROVE bs[(a + 1) + i - 1] = W[i]
    <3>1. i + 1 \in 1..Len(V) /\ (a + 1) + i - 1 = a + (i + 1) - 1
      BY <2>1, <2>2
    <3>2. bs[a + (i + 1) - 1] = V[i + 1]
      BY <1>2, <3>1
    <3> QED BY <2>1, <3>1, <3>2
  <2> QED BY <1>2, <2>1, <2>2, <2>3 DEF GroupsAt
<1>6. a < b /\ b \in Nat
  BY <1>1, <1>2
<1> QED BY <1>1, <1>2, <1>3, <1>4, <1>5, <1>6

-----------------------------------------------------------------------------
(* What the reader finds.                                                  *)

\* The section is what the bytes were made of.
MadeOf(whole) ==
  /\ \A i \in 1..Len(bytes) : i <= Len(whole) => bytes[i] = whole[i]
  /\ damage = "none" => Len(bytes) = Len(whole)
  /\ damage = "cut" => Len(bytes) < Len(whole)
  /\ damage = "extended" => Len(bytes) > Len(whole)

\* The reader is at a cut, or in the middle of a block or of an integer, and
\* has read what was written before it.
Found(whole, K) ==
  /\ stage = "header" =>
       <<at, Len(out)>> \in K /\ \A i \in 1..Len(out) : out[i] = Ints[i]
  /\ stage = "unpack" =>
       /\ \A i \in 1..Len(out) : out[i] = Ints[i]
       /\ <<end, Len(out) + block>> \in K
       /\ \A i \in 1..block : Ints[Len(out) + i] < 2^width
       /\ Holds(queue \o Rest(whole, at), Ints, Len(out), block, width)
  /\ stage = "groups" =>
       /\ \A i \in 1..Len(out) : out[i] = values[i]
       /\ \/ <<at, Len(out)>> \in K /\ queue = <<>>
          \/ \E rest \in Word, b \in Nat :
               /\ <<b, Len(out) + 1>> \in K
               /\ GroupsAt(whole, rest, at, b)
               /\ Ints[Len(out) + 1] = Number(queue) + 2^Len(queue) * rest

\* Sets of cuts.
Listings == SUBSET (Nat \X Nat)

ReaderInv ==
  stage \in {"header", "unpack", "groups"} =>
    \E whole \in Seq(Byte), K \in Listings :
      /\ Cuts(job, whole, Ints, K, Len(whole) + 1, Len(Ints))
      /\ MadeOf(whole) /\ Found(whole, K)

\* A section that nothing happened to is what was written.
LEMMA Undamaged ==
  ASSUME CodecInv, NEW whole \in Seq(Byte), MadeOf(whole), damage = "none"
  PROVE  bytes = whole
<1>1. bytes \in Seq(Byte) /\ Len(bytes) = Len(whole)
  BY DEF CodecInv, Types, MadeOf
<1>2. \A i \in 1..Len(bytes) : bytes[i] = whole[i]
  <2>1. Len(bytes) \in Nat
    BY <1>1
  <2> QED BY <1>1, <2>1 DEF MadeOf
<1> QED BY ONLY whole \in Seq(Byte), <1>1, <1>2, SeqEqual

\* The reader starts at the first cut.
LEMMA ReaderStarts ==
  ASSUME NEW whole \in Seq(Byte), Section(whole), Section(whole)',
         stage' = StartOf(job), at' = 1, out' = <<>>, queue' = <<>>, MadeOf(whole)'
  PROVE  ReaderInv'
<1>1. PICK K \in Listings : Cuts(job', whole, Ints', K, Len(whole) + 1, Len(Ints'))
  <2>1. PICK K : Cuts(job', whole, Ints', K, Len(whole) + 1, Len(Ints'))
    BY DEF Section
  <2>2. K \subseteq (1..(Len(whole) + 1)) \X (0..Len(Ints'))
    BY <2>1 DEF Cuts
  <2>3. K \subseteq Nat \X Nat
    BY <2>2
  <2> QED BY <2>1, <2>3 DEF Listings
<1>2. <<1, 0>> \in K
  BY <1>1 DEF Cuts
<1>3. Len(out') = 0 /\ stage' \in {"header", "groups"}
  BY DEF StartOf
<1>4. Found(whole, K)'
  <2>1. <<at', Len(out')>> \in K
    BY <1>2, <1>3
  <2>2. \A i \in 1..Len(out') : FALSE
    BY <1>3
  <2> QED BY <1>3, <2>1, <2>2 DEF Found
<1> QED BY <1>1, <1>4 DEF ReaderInv

\* Behind its header are the integers of a block.
LEMMA ReadHeaderFinds ==
  ASSUME CodecInv, Ours, ReaderInv, ReadHeader
  PROVE  ReaderInv'
<1>1. /\ stage = "header" /\ stage' = "unpack" /\ GoodHeader /\ Len(out) < expected
      /\ block' = bytes[at] /\ width' = bytes[at + 1] /\ queue' = <<>>
      /\ at' = at + 2 /\ end' = at + 2 + ByteLength(bytes[at], bytes[at + 1])
      /\ UNCHANGED <<job, values, bytes, damage, out>>
  BY DEF ReadHeader, inputs
<1>2. PICK d : d = Ints /\ d = Ints' /\ d \in Seq(Word) /\ Len(d) = expected
  <2>1. Ints' = Ints
    BY <1>1 DEF Ints
  <2> QED BY <2>1, IntsAre DEF Ours
<1>3. PICK whole \in Seq(Byte), K \in Listings :
        /\ Cuts(job, whole, Ints, K, Len(whole) + 1, Len(Ints))
        /\ MadeOf(whole) /\ Found(whole, K)
  BY <1>1 DEF ReaderInv
<1>4. PICK a \in Nat, k \in Nat : a = at /\ k = Len(out) /\ a + 1 <= Len(bytes) /\ a # 0
  <2>1. at \in Nat \ {0} /\ Len(out) \in Nat
    BY DEF CodecInv, Types
  <2> QED BY <1>1, <2>1 DEF GoodHeader
<1>5. <<a, k>> \in K /\ k < Len(d) /\ \A i \in 1..k : out[i] = d[i]
  BY <1>1, <1>2, <1>3, <1>4 DEF Found
<1>6. PICK m : m = Len(whole) + 1 /\ Cuts(job, whole, d, K, m, Len(d))
  BY <1>2, <1>3
<1>7. PICK b \in 1..m, l \in 0..Len(d) :
        <<b, l>> \in K /\ ItemAt(job, whole, d, <<a, k>>, <<b, l>>)
  BY ONLY <1>2, <1>3, <1>5, <1>6, NextItem
<1>8. BlockAt(whole, d, a, k, b, l)
  <2>1. job # "positions"
    BY <1>1 DEF CodecInv, Kinds
  <2> QED BY <1>7, <2>1 DEF ItemAt
<1>9. whole[a] = bytes[a] /\ whole[a + 1] = bytes[a + 1]
  <2>1. a \in 1..Len(bytes) /\ a + 1 \in 1..Len(bytes) /\ a <= Len(whole) /\ a + 1 <= Len(whole)
    <3>1. Len(bytes) \in Nat /\ Len(whole) \in Nat
      BY DEF CodecInv, Types
    <3> QED BY <1>4, <1>8, <3>1 DEF BlockAt
  <2> QED BY <1>3, <2>1 DEF MadeOf
<1>10. end' = b /\ k + block' = l
  <2>1. whole[a] = l - k /\ b = a + 2 + ByteLength(whole[a], whole[a + 1])
    BY <1>8 DEF BlockAt
  <2>2. Len(d) \in Nat
    BY <1>2
  <2> QED BY <1>1, <1>4, <1>7, <1>9, <2>1, <2>2
<1>11. Holds(queue' \o Rest(whole, a + 2), d, k, block', width')
       /\ \A i \in 1..block' : d[k + i] < 2^width'
  <2>1. a + 2 \in 1..(Len(whole) + 1)
    <3>1. Len(whole) \in Nat
      BY <1>3
    <3> QED BY <1>4, <1>8, <3>1 DEF BlockAt
  <2>2. Rest(whole, a + 2) \in Seq({0, 1})
    BY ONLY <1>3, <2>1, RestIs
  <2>3. <<>> \o Rest(whole, a + 2) = Rest(whole, a + 2)
    BY ONLY <2>2, ConcatEmptySeq
  <2>4. /\ Holds(Rest(whole, a + 2), d, k, whole[a], whole[a + 1])
        /\ \A i \in 1..whole[a] : d[k + i] < 2^whole[a + 1]
    BY <1>8 DEF BlockAt
  <2> QED BY <1>1, <1>4, <1>9, <2>3, <2>4
<1>12. Found(whole, K)'
  BY <1>1, <1>2, <1>4, <1>5, <1>7, <1>10, <1>11 DEF Found
<1>13. MadeOf(whole)'
  BY <1>1, <1>3 DEF MadeOf
<1>14. Cuts(job', whole, Ints', K, Len(whole) + 1, Len(Ints'))
  BY <1>1, <1>2, <1>3
<1> QED BY <1>3, <1>12, <1>13, <1>14 DEF ReaderInv

\* The headers of a section that was not damaged are good.
LEMMA HeaderFailsFinds ==
  ASSUME CodecInv, Ours, ReaderInv, HeaderFails
  PROVE  damage # "none"
<1> SUFFICES ASSUME damage = "none" PROVE FALSE
  OBVIOUS
<1>1. stage = "header" /\ ~GoodHeader /\ Len(out) < expected
  BY DEF HeaderFails
<1>2. PICK d : d = Ints /\ d \in Seq(Word) /\ Len(d) = expected
  BY IntsAre DEF Ours
<1>3. PICK whole \in Seq(Byte), K \in Listings :
        /\ Cuts(job, whole, Ints, K, Len(whole) + 1, Len(Ints))
        /\ MadeOf(whole) /\ Found(whole, K)
  BY <1>1 DEF ReaderInv
<1>4. bytes = whole
  BY <1>3, Undamaged
<1>5. PICK m : m = Len(whole) + 1 /\ Cuts(job, whole, d, K, m, Len(d))
  BY <1>2, <1>3
<1>6. <<at, Len(out)>> \in K /\ Len(out) < Len(d)
  BY <1>1, <1>2, <1>3 DEF Found
<1>7. PICK b \in 1..m, l \in 0..Len(d) :
        <<b, l>> \in K /\ ItemAt(job, whole, d, <<at, Len(out)>>, <<b, l>>)
  BY ONLY <1>2, <1>3, <1>5, <1>6, NextItem
<1>8. BlockAt(bytes, d, at, Len(out), b, l)
  <2>1. job # "positions"
    BY <1>1 DEF CodecInv, Kinds
  <2> QED BY <1>4, <1>7, <2>1 DEF ItemAt
<1>9. PICK c \in Nat, w \in Nat, g \in Nat :
        c = bytes[at] /\ w = bytes[at + 1] /\ g = ByteLength(bytes[at], bytes[at + 1])
  <2>1. bytes[at] \in Nat /\ bytes[at + 1] \in Nat
    BY <1>8, Constant DEF BlockAt
  <2> QED BY <2>1, ByteLengthIs
<1>10. /\ at + 1 <= Len(bytes) /\ c = l - Len(out) /\ c \in 1..BlockMax /\ w \in 0..WordBits
       /\ b = at + 2 + g /\ b <= Len(bytes) + 1
  BY <1>8, <1>9 DEF BlockAt
<1>11. /\ at \in Nat /\ Len(out) \in Nat /\ Len(bytes) \in Nat /\ Len(d) \in Nat
       /\ expected = Len(d) /\ l <= Len(d)
  BY <1>2, <1>7 DEF CodecInv, Types
<1>12. c <= expected - Len(out) /\ at + 1 + g <= Len(bytes) /\ w <= WordBits
  BY <1>7, <1>10, <1>11, Constant
<1> QED BY <1>1, <1>9, <1>10, <1>12 DEF GoodHeader

\* A byte goes from the section to the buffer; together they hold the same.
LEMMA LoadByteFinds ==
  ASSUME CodecInv, Ours, ReaderInv, LoadByte
  PROVE  ReaderInv'
<1>1. /\ stage = "unpack" /\ stage' = "unpack" /\ block > 0 /\ Len(queue) < width
      /\ queue' = queue \o Bits(bytes[at], ByteBits) /\ at' = at + 1
      /\ UNCHANGED <<job, values, block, width, bytes, damage, end, out>>
  BY DEF LoadByte, inputs
<1>2. Ints' = Ints
  BY <1>1 DEF Ints
<1>3. PICK whole \in Seq(Byte), K \in Listings :
        /\ Cuts(job, whole, Ints, K, Len(whole) + 1, Len(Ints))
        /\ MadeOf(whole) /\ Found(whole, K)
  BY <1>1 DEF ReaderInv
<1>4. at \in 1..Len(bytes) /\ at \in 1..Len(whole)
  <2>1. at < end /\ end <= Len(bytes) + 1
    BY <1>1, InvImplies DEF InBounds
  <2>2. end <= Len(whole) + 1 /\ end \in Nat
    <3>1. <<end, Len(out) + block>> \in K
      BY <1>1, <1>3 DEF Found
    <3>2. K \subseteq (1..(Len(whole) + 1)) \X (0..Len(Ints))
      BY <1>3 DEF Cuts
    <3> QED BY <3>1, <3>2
  <2>3. at \in Nat \ {0} /\ Len(bytes) \in Nat /\ Len(whole) \in Nat
    BY DEF CodecInv, Types
  <2> QED BY <2>1, <2>2, <2>3
<1>5. bytes[at] = whole[at]
  BY <1>3, <1>4 DEF MadeOf
<1>6. PICK B : B = Bits(bytes[at], ByteBits) /\ B \in Seq({0, 1})
  <2>1. whole[at] \in Byte
    BY <1>3, <1>4, ElementOfSeq
  <2>2. bytes[at] \in Nat /\ ByteBits \in Nat
    BY <1>5, <2>1, Constant
  <2>3. Bits(bytes[at], ByteBits) \in Seq({0, 1})
    BY ONLY <2>2, BitsAre
  <2> QED BY <2>3
<1>7. PICK R : R = Rest(whole, at + 1) /\ R \in Seq({0, 1})
  <2>1. at + 1 \in 1..(Len(whole) + 1)
    BY <1>4
  <2>2. Rest(whole, at + 1) \in Seq({0, 1})
    BY ONLY <1>3, <2>1, RestIs
  <2> QED BY <2>2
<1>8. Rest(whole, at) = B \o R
  <2>1. Rest(whole, at) = Bits(whole[at], ByteBits) \o Rest(whole, at + 1)
    BY ONLY <1>3, <1>4, RestFirst
  <2> QED BY <1>5, <1>6, <1>7, <2>1
<1>9. queue' \o Rest(whole, at') = queue \o Rest(whole, at)
  <2>1. queue \in Seq({0, 1})
    BY DEF CodecInv, Types
  <2>2. (queue \o B) \o R = queue \o (B \o R)
    BY ONLY <1>6, <1>7, <2>1, ConcatAssociative
  <2> QED BY <1>1, <1>6, <1>7, <1>8, <2>2
<1>10. Found(whole, K)'
  BY <1>1, <1>2, <1>3, <1>9 DEF Found
<1>11. MadeOf(whole)'
  BY <1>1, <1>3 DEF MadeOf
<1> QED BY <1>1, <1>2, <1>3, <1>10, <1>11 DEF ReaderInv

\* The first bits of the buffer are the next integer.
LEMMA TakeValueFinds ==
  ASSUME CodecInv, Ours, ReaderInv, TakeValue
  PROVE  ReaderInv'
<1>1. /\ stage = "unpack" /\ stage' = "unpack" /\ block > 0 /\ Len(queue) >= width
      /\ out' = Append(out, Number(SubSeq(queue, 1, width)))
      /\ queue' = Behind(queue, width) /\ block' = block - 1
      /\ UNCHANGED <<job, values, width, bytes, damage, at, end>>
  BY DEF TakeValue, inputs
<1>2. PICK d : d = Ints /\ d = Ints' /\ d \in Seq(Word) /\ Len(d) \in Nat
  <2>1. Ints' = Ints
    BY <1>1 DEF Ints
  <2> QED BY <2>1, IntsAre
<1>3. PICK whole \in Seq(Byte), K \in Listings :
        /\ Cuts(job, whole, Ints, K, Len(whole) + 1, Len(Ints))
        /\ MadeOf(whole) /\ Found(whole, K)
  BY <1>1 DEF ReaderInv
<1>4. PICK k \in Nat, c \in Nat, w \in Nat :
        /\ k = Len(out) /\ c = block /\ w = width /\ c >= 1 /\ w <= Len(queue)
        /\ out \in Seq(Word) /\ queue \in Seq({0, 1})
  BY <1>1, Constant DEF CodecInv, Types
<1>5. /\ \A i \in 1..k : out[i] = d[i]
      /\ <<end, k + c>> \in K
      /\ \A i \in 1..c : d[k + i] < 2^w
      /\ Holds(queue \o Rest(whole, at), d, k, c, w)
  BY <1>1, <1>2, <1>3, <1>4 DEF Found
<1>6. K \subseteq (1..(Len(whole) + 1)) \X (0..Len(d))
  BY <1>2, <1>3 DEF Cuts
<1>7. PICK v \in Word : v = d[k + 1] /\ v \in Nat /\ v < 2^w
  <2>1. k + c \in 0..Len(d)
    BY <1>5, <1>6
  <2>2. k + 1 \in 1..Len(d) /\ 1 \in 1..c
    BY <1>2, <1>4, <2>1
  <2>3. d[k + 1] \in Word
    BY ONLY <1>2, <2>2, ElementOfSeq
  <2> QED BY <1>5, <2>2, <2>3, Constant
<1>8. PICK R : R = Rest(whole, at) /\ R \in Seq({0, 1})
  <2>1. at \in 1..(Len(whole) + 1)
    <3>1. at <= end /\ at \in Nat \ {0}
      BY <1>1 DEF CodecInv, Types, BlockIsCovered
    <3>2. end \in 1..(Len(whole) + 1) /\ Len(whole) \in Nat
      BY <1>5, <1>6
    <3> QED BY <3>1, <3>2
  <2>2. Rest(whole, at) \in Seq({0, 1})
    BY ONLY <1>3, <2>1, RestIs
  <2> QED BY <2>2
<1>9. /\ SubSeq(queue, 1, w) = Bits(v, w)
      /\ Holds(Behind(queue, w) \o R, d, k + 1, c - 1, w)
  <2>1. d[k + 1] \in Nat
    BY <1>7
  <2>2. Holds(queue \o R, d, k, c, w)
    BY <1>5, <1>8
  <2>3. queue \in Seq({0, 1}) /\ R \in Seq({0, 1}) /\ c >= 1 /\ w <= Len(queue)
    BY <1>4, <1>8
  <2>4. /\ SubSeq(queue, 1, w) = Bits(d[k + 1], w)
        /\ Holds(Behind(queue, w) \o R, d, k + 1, c - 1, w)
    BY ONLY k \in Nat, c \in Nat, w \in Nat, <2>1, <2>2, <2>3, HoldsLess
  <2> QED BY <1>7, <2>4
<1>10. out' = Append(out, v)
  <2>1. Number(Bits(v, w)) = v
    BY <1>7, NumberOfBits
  <2> QED BY <1>1, <1>4, <1>9, <2>1
<1>11. Len(out') = k + 1 /\ \A i \in 1..(k + 1) : out'[i] = d[i]
  <2>1. /\ Len(Append(out, v)) = k + 1 /\ Append(out, v)[k + 1] = v
        /\ \A i \in 1..k : Append(out, v)[i] = out[i]
    BY <1>4
  <2>2. ASSUME NEW i \in 1..(k + 1) PROVE Append(out, v)[i] = d[i]
    <3>1. CASE i \in 1..k
      BY <1>5, <2>1, <3>1
    <3>2. CASE i = k + 1
      BY <1>7, <2>1, <3>2
    <3>3. i \in 1..k \/ i = k + 1
      OBVIOUS
    <3> QED BY <3>1, <3>2, <3>3
  <2> QED BY <1>10, <2>1, <2>2
<1>12. block' = c - 1 /\ (k + 1) + block' = k + c
       /\ \A i \in 1..block' : d[(k + 1) + i] < 2^w
  <2>1. block' = c - 1 /\ (k + 1) + (c - 1) = k + c
    BY <1>1, <1>4
  <2>2. ASSUME NEW i \in 1..(c - 1) PROVE d[(k + 1) + i] < 2^w
    <3>1. i + 1 \in 1..c /\ k + (i + 1) = (k + 1) + i
      BY <1>4
    <3> QED BY <1>5, <3>1
  <2> QED BY <2>1, <2>2
<1>13. Holds(queue' \o Rest(whole, at'), d, k + 1, block', width')
  BY <1>1, <1>4, <1>8, <1>9, <1>12
<1>14. Found(whole, K)'
  <2>1. <<end', Len(out') + block'>> \in K
    BY <1>1, <1>5, <1>11, <1>12
  <2>2. \A i \in 1..block' : Ints'[Len(out') + i] < 2^width'
    BY <1>1, <1>2, <1>4, <1>11, <1>12
  <2>3. Holds(queue' \o Rest(whole, at'), Ints', Len(out'), block', width')
    BY <1>2, <1>11, <1>13
  <2> QED BY <1>1, <1>2, <1>11, <2>1, <2>2, <2>3 DEF Found
<1>15. MadeOf(whole)'
  BY <1>1, <1>3 DEF MadeOf
<1>16. Cuts(job', whole, Ints', K, Len(whole) + 1, Len(Ints'))
  BY <1>1, <1>2, <1>3
<1> QED BY <1>3, <1>14, <1>15, <1>16 DEF ReaderInv

\* Behind its integers, a block has nothing but zeros.
LEMMA BlockEndsFinds ==
  ASSUME CodecInv, Ours, ReaderInv, BlockEnds
  PROVE  ReaderInv'
<1>1. /\ stage = "unpack" /\ stage' = "header" /\ block = 0 /\ at' = end
      /\ UNCHANGED <<job, values, bytes, damage, out>>
  BY DEF BlockEnds, inputs
<1>2. Ints' = Ints
  BY <1>1 DEF Ints
<1>3. PICK whole \in Seq(Byte), K \in Listings :
        /\ Cuts(job, whole, Ints, K, Len(whole) + 1, Len(Ints))
        /\ MadeOf(whole) /\ Found(whole, K)
  BY <1>1 DEF ReaderInv
<1>4. Len(out) + block = Len(out)
  <2>1. Len(out) \in Nat
    BY DEF CodecInv, Types
  <2> QED BY <1>1, <2>1
<1>5. Found(whole, K)'
  BY <1>1, <1>2, <1>3, <1>4 DEF Found
<1>6. MadeOf(whole)'
  BY <1>1, <1>3 DEF MadeOf
<1> QED BY <1>1, <1>2, <1>3, <1>5, <1>6 DEF ReaderInv

\* With all integers read, the reader is behind the section, and nothing was
\* added to it or cut off from it.
LEMMA AllRead ==
  ASSUME CodecInv, Ours, NEW whole \in Seq(Byte), NEW K,
         Cuts(job, whole, Ints, K, Len(whole) + 1, Len(Ints)), MadeOf(whole),
         <<at, Len(out)>> \in K, Len(out) = expected,
         damage \in {"none", "cut", "extended"}
  PROVE  NothingLeft <=> damage = "none"
<1>1. PICK d : d = Ints /\ d \in Seq(Word) /\ Len(d) = expected
  BY IntsAre DEF Ours
<1>2. PICK m : m = Len(whole) + 1 /\ Cuts(job, whole, d, K, m, Len(d)) /\ <<at, Len(d)>> \in K
  BY <1>1
<1>3. at = m
  BY ONLY whole \in Seq(Byte), <1>1, <1>2, LastCut
<1>4. Len(whole) \in Nat /\ Len(bytes) \in Nat /\ at \in 1..(Len(bytes) + 1)
  BY DEF CodecInv, Types
<1>5. ~(Len(bytes) < Len(whole))
  BY <1>2, <1>3, <1>4
<1>6. at > Len(bytes) <=> Len(bytes) = Len(whole)
  BY <1>2, <1>3, <1>4
<1>7. Len(bytes) = Len(whole) <=> damage = "none"
  BY <1>4, <1>5 DEF MadeOf
<1> QED BY <1>6, <1>7 DEF NothingLeft

\* The reader of packed integers ends with what was written, or notices the length.
LEMMA ReadEndsFinds ==
  ASSUME CodecInv, Ours, ReaderInv, damage \in {"none", "cut", "extended"}
  PROVE  /\ ReadEnds => damage = "none" /\ out' = values
         /\ EndFails => damage # "none"
<1> SUFFICES ASSUME stage = "header", Len(out) = expected
             PROVE  /\ NothingLeft <=> damage = "none"
                    /\ IF job = "deltas" THEN Sums(out) = values /\ Summable(out) ELSE out = values
  BY DEF ReadEnds, EndFails
<1>1. PICK d : d = Ints /\ d \in Seq(Word) /\ Len(d) = expected
  BY IntsAre DEF Ours
<1>2. PICK whole \in Seq(Byte), K \in Listings :
        /\ Cuts(job, whole, Ints, K, Len(whole) + 1, Len(Ints))
        /\ MadeOf(whole) /\ Found(whole, K)
  BY DEF ReaderInv
<1>3. <<at, Len(out)>> \in K /\ \A i \in 1..Len(out) : out[i] = d[i]
  BY <1>1, <1>2 DEF Found
<1>4. NothingLeft <=> damage = "none"
  BY <1>2, <1>3, AllRead
<1>5. out = d
  <2>1. out \in Seq(Word) /\ Len(out) = Len(d)
    BY <1>1 DEF CodecInv, Types
  <2> QED BY ONLY <1>1, <1>3, <2>1, SeqEqual
<1>6. job \in {"plain", "deltas"}
  BY DEF CodecInv, Types, Kinds
<1>7. CASE job = "plain"
  BY <1>1, <1>4, <1>5, <1>7 DEF Ints, Integers
<1>8. CASE job = "deltas"
  <2>1. d = Deltas(values) /\ values \in Seq(Word) /\ Ascending(values)
    BY <1>1, <1>8 DEF Ints, Integers, Ours
  <2>2. Sums(Deltas(values)) = values /\ Summable(Deltas(values))
    BY <2>1, DeltasAddUp
  <2> QED BY <1>4, <1>5, <1>8, <2>1, <2>2
<1> QED BY <1>6, <1>7, <1>8

\* The reader of positions is in the groups of the next integer.
LEMMA GroupIs ==
  ASSUME CodecInv, Ours, stage = "groups", Len(out) < expected,
         NEW whole \in Seq(Byte), NEW K,
         Cuts(job, whole, Ints, K, Len(whole) + 1, Len(Ints)), MadeOf(whole), Found(whole, K)
  PROVE  \E rest \in Word, b \in Nat :
           /\ <<b, Len(out) + 1>> \in K /\ GroupsAt(whole, rest, at, b)
           /\ Ints[Len(out) + 1] = Number(queue) + 2^Len(queue) * rest
           /\ at < b /\ b <= Len(whole) + 1
           /\ at <= Len(bytes) => bytes[at] = VarBytes[rest][1]
<1>1. PICK d : d = Ints /\ d \in Seq(Word) /\ Len(d) = expected /\ Len(d) \in Nat
  BY IntsAre DEF Ours
<1>2. PICK a \in Nat \ {0}, k \in Nat : a = at /\ k = Len(out) /\ k < Len(d)
  <2>1. at \in Nat \ {0} /\ Len(out) \in Nat
    BY DEF CodecInv, Types
  <2> QED BY <1>1, <2>1
<1>3. PICK rest \in Word, b \in Nat :
        /\ <<b, k + 1>> \in K /\ GroupsAt(whole, rest, a, b)
        /\ d[k + 1] = Number(queue) + 2^Len(queue) * rest
  <2>1. CASE <<at, Len(out)>> \in K /\ queue = <<>>
    <3>1. PICK m : m = Len(whole) + 1 /\ Cuts(job, whole, d, K, m, Len(d)) /\ <<a, k>> \in K
      BY <1>1, <1>2, <2>1
    <3>2. PICK b \in 1..m, l \in 0..Len(d) :
            <<b, l>> \in K /\ ItemAt(job, whole, d, <<a, k>>, <<b, l>>)
      BY ONLY whole \in Seq(Byte), <1>1, <1>2, <3>1, NextItem
    <3>3. l = k + 1 /\ GroupsAt(whole, d[k + 1], a, b)
      <4>1. job = "positions"
        BY DEF CodecInv, Kinds
      <4> QED BY <3>2, <4>1 DEF ItemAt
    <3>4. d[k + 1] \in Word
      <4>1. k + 1 \in 1..Len(d)
        BY <1>1, <1>2
      <4> QED BY ONLY <1>1, <4>1, ElementOfSeq
    <3>5. d[k + 1] = Number(queue) + 2^Len(queue) * d[k + 1]
      <4>1. Number(<<>>) \in 0..(2^Len(<<>>) - 1)
        <5>1. <<>> \in Seq({0, 1})
          OBVIOUS
        <5> QED BY ONLY <5>1, NumberIs
      <4>2. Len(<<>>) = 0 /\ 2^0 = 1
        BY PowerIs
      <4>3. Number(<<>>) = 0
        BY <4>1, <4>2
      <4>4. d[k + 1] \in Nat
        BY <3>4, Constant
      <4> QED BY <2>1, <4>2, <4>3, <4>4
    <3>6. b \in Nat
      <4>1. m \in Nat
        BY <3>1
      <4> QED BY <4>1
    <3> QED BY <3>2, <3>3, <3>4, <3>5, <3>6
  <2>2. CASE \E rest \in Word, b \in Nat :
               /\ <<b, Len(out) + 1>> \in K
               /\ GroupsAt(whole, rest, at, b)
               /\ Ints[Len(out) + 1] = Number(queue) + 2^Len(queue) * rest
    BY <1>1, <1>2, <2>2
  <2> QED BY <2>1, <2>2 DEF Found
<1>4. whole[a] = VarBytes[rest][1] /\ a < b /\ b <= Len(whole) + 1 /\ b \in Nat
  BY ONLY rest \in Word, a \in Nat \ {0}, <1>3, GroupsLess
<1>5. ASSUME a <= Len(bytes) PROVE bytes[a] = VarBytes[rest][1]
  <2>1. a \in 1..Len(bytes) /\ a <= Len(whole)
    <3>1. Len(bytes) \in Nat /\ Len(whole) \in Nat
      BY DEF CodecInv, Types
    <3> QED BY <1>4, <1>5, <3>1
  <2> QED BY <1>4, <2>1 DEF MadeOf
<1> QED BY <1>1, <1>2, <1>3, <1>4, <1>5

\* A group is the lowest bits of what is left of its integer.
LEMMA GroupCounts ==
  ASSUME NEW q \in Seq({0, 1}), NEW h \in Nat, NEW r \in Nat, r < 2^h
  PROVE  /\ Number(q \o Bits(r, h)) = Number(q) + 2^Len(q) * r
         /\ Len(q \o Bits(r, h)) = Len(q) + h
<1>1. PICK l \in Nat : l = Len(q)
  OBVIOUS
<1>2. PICK B : B = Bits(r, h) /\ B \in Seq({0, 1}) /\ Len(B) = h
  BY BitsAre
<1>3. Number(B) = r
  BY <1>2, NumberOfBits
<1>4. Number(q \o B) = Number(q) + 2^Len(q) * Number(B)
  BY ONLY q \in Seq({0, 1}), <1>2, NumberJoined
<1>5. Len(q \o B) = l + h
  <2>1. Len(q \o B) = Len(q) + Len(B)
    BY ONLY q \in Seq({0, 1}), <1>2, Joined
  <2> QED BY <1>1, <1>2, <2>1
<1> QED BY <1>1, <1>2, <1>3, <1>4, <1>5

\* A group that is not the last goes from what is left of its integer to the buffer.
LEMMA ReadGroupFinds ==
  ASSUME CodecInv, Ours, ReaderInv, ReadGroup
  PROVE  ReaderInv'
<1>1. /\ stage = "groups" /\ stage' = "groups" /\ Len(out) < expected
      /\ bytes[at] >= HalfByte /\ at <= Len(bytes)
      /\ queue' = queue \o Bits(bytes[at] - HalfByte, ByteBits - 1) /\ at' = at + 1
      /\ UNCHANGED <<job, values, bytes, damage, out>>
  <2>1. at \in Nat /\ Len(bytes) \in Nat
    BY DEF CodecInv, Types
  <2> QED BY <2>1 DEF ReadGroup, inputs, Truncated
<1>2. Ints' = Ints
  BY <1>1 DEF Ints
<1>3. PICK whole \in Seq(Byte), K \in Listings :
        /\ Cuts(job, whole, Ints, K, Len(whole) + 1, Len(Ints))
        /\ MadeOf(whole) /\ Found(whole, K)
  BY <1>1 DEF ReaderInv
<1>4. PICK rest \in Word, b \in Nat :
        /\ <<b, Len(out) + 1>> \in K /\ GroupsAt(whole, rest, at, b)
        /\ Ints[Len(out) + 1] = Number(queue) + 2^Len(queue) * rest
        /\ bytes[at] = VarBytes[rest][1]
  BY <1>1, <1>3, GroupIs
<1>5. rest >= HalfByte
  <2> SUFFICES ASSUME rest < HalfByte PROVE FALSE
    BY Constant
  <2>1. VarBytes[rest] = <<rest>>
    BY VarBytesIs
  <2> QED BY <1>1, <1>4, <2>1, Constant
<1>6. PICK q \in Word, r \in 0..(HalfByte - 1) :
        /\ q = rest \div HalfByte /\ rest = HalfByte * q + r
        /\ bytes[at] = r + HalfByte
  BY <1>4, <1>5, VarBytesIs
<1>7. GroupsAt(whole, q, at', b)
  <2>1. at \in Nat \ {0}
    BY DEF CodecInv, Types
  <2> QED BY <1>1, <1>4, <1>5, <1>6, <2>1, GroupsLess
<1>8. Number(queue') + 2^Len(queue') * q = Ints[Len(out) + 1]
  <2>1. PICK h \in Nat : h = ByteBits - 1 /\ HalfByte = 2^h
    BY Constant DEF HalfByte
  <2>2. queue \in Seq({0, 1}) /\ q \in Nat /\ r \in Nat /\ r < 2^h /\ bytes[at] - HalfByte = r
    <3>1. queue \in Seq({0, 1})
      BY DEF CodecInv, Types
    <3>2. PICK H \in Nat : H = HalfByte
      BY Constant
    <3>3. q \in Nat /\ r \in Nat /\ r < H /\ (r + H) - H = r
      BY <3>2, Constant
    <3> QED BY <1>6, <2>1, <3>1, <3>2, <3>3
  <2>3. PICK Q \in Seq({0, 1}), n \in Nat, l \in Nat, p \in Nat, m \in Nat :
          Q = queue /\ n = Number(Q) /\ l = Len(Q) /\ p = q /\ m = r /\ m < 2^h
    <3>1. Number(queue) \in 0..(2^Len(queue) - 1)
      BY <2>2, NumberIs
    <3>2. Number(queue) \in Nat /\ Len(queue) \in Nat
      BY <2>2, <3>1
    <3> QED BY <2>2, <3>2
  <2>4. PICK s \in Nat, t \in Nat : s = 2^l /\ t = 2^h /\ 2^(l + h) = s * t
    <3>1. 2^l \in Nat /\ 2^h \in Nat /\ 2^(l + h) = 2^l * 2^h
      BY PowerIs, PowersMultiply
    <3> QED BY <3>1
  <2>5. Number(queue') = n + s * m /\ Len(queue') = l + h
    <3>1. m < 2^h
      BY <2>3
    <3>2. Number(Q \o Bits(m, h)) = Number(Q) + 2^Len(Q) * m /\ Len(Q \o Bits(m, h)) = Len(Q) + h
      BY ONLY <3>1, GroupCounts
    <3> QED BY <1>1, <2>1, <2>2, <2>3, <2>4, <3>2
  <2>6. (n + s * m) + (s * t) * p = n + s * (t * p + m)
    <3>1. s * (t * p + m) = s * (t * p) + s * m
      OBVIOUS
    <3>2. (s * t) * p = s * (t * p)
      OBVIOUS
    <3>3. s * (t * p) \in Nat /\ s * m \in Nat
      OBVIOUS
    <3> QED BY <3>1, <3>2, <3>3
  <2>7. Ints[Len(out) + 1] = n + s * (t * p + m)
    BY <1>4, <1>6, <2>1, <2>3, <2>4
  <2> QED BY <2>3, <2>4, <2>5, <2>6, <2>7
<1>9. Found(whole, K)'
  <2>1. /\ <<b, Len(out') + 1>> \in K /\ GroupsAt(whole, q, at', b)
        /\ Ints'[Len(out') + 1] = Number(queue') + 2^Len(queue') * q
    BY <1>1, <1>2, <1>4, <1>7, <1>8
  <2>2. \A i \in 1..Len(out') : out'[i] = values'[i]
    BY <1>1, <1>3 DEF Found
  <2> QED BY <1>1, <2>1, <2>2 DEF Found
<1>10. MadeOf(whole)'
  BY <1>1, <1>3 DEF MadeOf
<1> QED BY <1>1, <1>2, <1>3, <1>9, <1>10 DEF ReaderInv

\* The last group of an integer leads to the position that was written.
LEMMA PositionIs ==
  ASSUME CodecInv, Ours, stage = "groups", Len(out) < expected,
         \A i \in 1..Len(out) : out[i] = values[i],
         bytes[at] \in Word, bytes[at] < HalfByte,
         Ints[Len(out) + 1] = Number(queue) + 2^Len(queue) * bytes[at]
  PROVE  Position = values[Len(out) + 1] /\ GoodPosition
<1>1. PICK d : d = Ints /\ d = Deltas(values) /\ values \in Seq(Word) /\ Len(values) = expected
               /\ Ascending(values)
  <2>1. job = "positions"
    BY DEF CodecInv, Kinds
  <2> QED BY <2>1 DEF Ours, Ints, Integers
<1>2. PICK k \in Nat : /\ k = Len(out) /\ k + 1 \in 1..Len(values) /\ out \in Seq(Word)
                       /\ DOMAIN values = 1..Len(values)
  <2>1. out \in Seq(Word) /\ Len(out) \in Nat /\ expected \in Nat
    BY DEF CodecInv, Types
  <2> QED BY <1>1, <2>1
<1>3. Integer = d[k + 1]
  <2>1. PICK h \in Nat : h = ByteBits - 1 /\ HalfByte = 2^h
    BY Constant DEF HalfByte
  <2>2. PICK r \in Nat : r = bytes[at] /\ r < 2^h
    BY <2>1, Constant
  <2>3. queue \in Seq({0, 1})
    BY DEF CodecInv, Types
  <2>4. Number(queue \o Bits(r, h)) = Number(queue) + 2^Len(queue) * r
    BY ONLY h \in Nat, r \in Nat, <2>2, <2>3, GroupCounts
  <2> QED BY <1>1, <1>2, <2>1, <2>2, <2>4 DEF Integer
<1>4. PICK v \in Nat : v = values[k + 1] /\ v \in Word
  <2>1. values[k + 1] \in Word
    BY ONLY <1>1, <1>2, ElementOfSeq
  <2> QED BY <2>1, Constant
<1>5. d[k + 1] = IF k + 1 = 1 THEN values[k + 1] ELSE values[k + 1] - values[(k + 1) - 1]
  BY <1>1, <1>2 DEF Deltas
<1>6. CASE k = 0
  <2>1. out = <<>>
    BY <1>2, <1>6, EmptySeq
  <2>2. d[k + 1] = v
    <3>1. k + 1 = 1
      BY <1>6
    <3> QED BY <1>4, <1>5, <3>1
  <2> QED BY <1>2, <1>3, <1>4, <2>1, <2>2 DEF Position, GoodPosition
<1>7. CASE k # 0
  <2>1. PICK u \in Nat : u = values[k] /\ u < v /\ u = out[k]
    <3>1. k \in 1..Len(values) /\ k < k + 1 /\ k \in 1..Len(out)
      BY <1>2, <1>7
    <3>2. values[k] \in Word
      BY ONLY <1>1, <3>1, ElementOfSeq
    <3>3. values[k] < values[k + 1]
      BY <1>1, <1>2, <3>1 DEF Ascending
    <3>4. values[k] \in Nat
      BY <3>2, Constant
    <3> QED BY <1>4, <3>1, <3>3, <3>4
  <2>2. out # <<>>
    BY <1>2, <1>7
  <2>3. k + 1 # 1 /\ (k + 1) - 1 = k
    BY <1>7
  <2>4. Integer = v - u
    BY <1>3, <1>4, <1>5, <2>1, <2>3
  <2>5. Position = u + (v - u)
    BY <1>2, <2>1, <2>2, <2>4 DEF Position
  <2>6. Position = v /\ v - u > 0
    BY <2>1, <2>5
  <2> QED BY <1>2, <1>4, <2>4, <2>6 DEF GoodPosition
<1> QED BY <1>6, <1>7

\* A position that is read is the next one, and a cut is reached.
LEMMA ReadPositionFinds ==
  ASSUME CodecInv, Ours, ReaderInv, ReadPosition
  PROVE  ReaderInv'
<1>1. /\ stage = "groups" /\ stage' = "groups" /\ Len(out) < expected
      /\ bytes[at] < HalfByte /\ at <= Len(bytes)
      /\ out' = Append(out, Position) /\ queue' = <<>> /\ at' = at + 1
      /\ UNCHANGED <<job, values, bytes, damage>>
  <2>1. at \in Nat /\ Len(bytes) \in Nat
    BY DEF CodecInv, Types
  <2> QED BY <2>1 DEF ReadPosition, inputs, Truncated
<1>2. Ints' = Ints
  BY <1>1 DEF Ints
<1>3. PICK whole \in Seq(Byte), K \in Listings :
        /\ Cuts(job, whole, Ints, K, Len(whole) + 1, Len(Ints))
        /\ MadeOf(whole) /\ Found(whole, K)
  BY <1>1 DEF ReaderInv
<1>4. PICK rest \in Word, b \in Nat :
        /\ <<b, Len(out) + 1>> \in K /\ GroupsAt(whole, rest, at, b)
        /\ Ints[Len(out) + 1] = Number(queue) + 2^Len(queue) * rest
        /\ bytes[at] = VarBytes[rest][1]
  BY <1>1, <1>3, GroupIs
<1>5. rest < HalfByte
  <2> SUFFICES ASSUME rest >= HalfByte PROVE FALSE
    BY Constant
  <2>1. PICK r \in 0..(HalfByte - 1) : VarBytes[rest][1] = r + HalfByte
    BY VarBytesIs
  <2> QED BY <1>1, <1>4, <2>1, Constant
<1>6. bytes[at] = rest
  <2>1. VarBytes[rest] = <<rest>>
    BY <1>5, VarBytesIs
  <2> QED BY <1>4, <2>1
<1>7. b = at + 1
  <2>1. at \in Nat \ {0}
    BY DEF CodecInv, Types
  <2> QED BY <1>4, <1>5, <2>1, GroupsLess
<1>8. \A i \in 1..Len(out) : out[i] = values[i]
  BY <1>1, <1>3 DEF Found
<1>9. PICK v : v = values[Len(out) + 1] /\ out' = Append(out, v) /\ v \in Word
  <2>1. Position = values[Len(out) + 1] /\ GoodPosition
    BY <1>1, <1>4, <1>6, <1>8, PositionIs
  <2> QED BY <1>1, <2>1 DEF GoodPosition
<1>10. PICK k \in Nat : k = Len(out) /\ out \in Seq(Word)
  <2>1. out \in Seq(Word) /\ Len(out) \in Nat
    BY DEF CodecInv, Types
  <2> QED BY <2>1
<1>11. Len(out') = k + 1 /\ \A i \in 1..(k + 1) : out'[i] = values[i]
  <2>1. /\ Len(Append(out, v)) = k + 1 /\ Append(out, v)[k + 1] = v
        /\ \A i \in 1..k : Append(out, v)[i] = out[i]
    BY <1>9, <1>10
  <2>2. ASSUME NEW i \in 1..(k + 1) PROVE Append(out, v)[i] = values[i]
    <3>1. CASE i \in 1..k
      BY <1>8, <1>10, <2>1, <3>1
    <3>2. CASE i = k + 1
      BY <1>9, <1>10, <2>1, <3>2
    <3>3. i \in 1..k \/ i = k + 1
      OBVIOUS
    <3> QED BY <3>1, <3>2, <3>3
  <2> QED BY <1>9, <2>1, <2>2
<1>12. Found(whole, K)'
  <2>1. <<at', Len(out')>> \in K
    BY <1>1, <1>4, <1>7, <1>10, <1>11
  <2>2. \A i \in 1..Len(out') : out'[i] = values'[i]
    BY <1>1, <1>11
  <2> QED BY <1>1, <2>1, <2>2 DEF Found
<1>13. MadeOf(whole)'
  BY <1>1, <1>3 DEF MadeOf
<1> QED BY <1>1, <1>2, <1>3, <1>12, <1>13 DEF ReaderInv

\* The groups of a section that was not damaged are good.
LEMMA GroupFailsFinds ==
  ASSUME CodecInv, Ours, ReaderInv, GroupFails
  PROVE  damage # "none"
<1> SUFFICES ASSUME damage = "none" PROVE FALSE
  OBVIOUS
<1>1. stage = "groups" /\ Len(out) < expected
      /\ (Truncated \/ TooLarge \/ (bytes[at] < HalfByte /\ ~GoodPosition))
  BY DEF GroupFails
<1>2. PICK whole \in Seq(Byte), K \in Listings :
        /\ Cuts(job, whole, Ints, K, Len(whole) + 1, Len(Ints))
        /\ MadeOf(whole) /\ Found(whole, K)
  BY <1>1 DEF ReaderInv
<1>3. bytes = whole
  BY <1>2, Undamaged
<1>4. PICK rest \in Word, b \in Nat :
        /\ Ints[Len(out) + 1] = Number(queue) + 2^Len(queue) * rest
        /\ at < b /\ b <= Len(whole) + 1
        /\ at <= Len(bytes) => bytes[at] = VarBytes[rest][1]
  BY <1>1, <1>2, GroupIs
<1>5. at <= Len(bytes) /\ ~Truncated /\ bytes[at] = VarBytes[rest][1]
  <2>1. at \in Nat /\ Len(bytes) \in Nat
    BY DEF CodecInv, Types
  <2>2. at <= Len(bytes)
    BY <1>3, <1>4, <2>1
  <2> QED BY <1>4, <2>1, <2>2 DEF Truncated
<1>6. rest < HalfByte => bytes[at] = rest
  BY <1>5, VarBytesIs
<1>7. ~TooLarge
  <2> SUFFICES ASSUME Len(queue) = LastShift, bytes[at] > LastGroup PROVE FALSE
    BY DEF TooLarge
  <2>1. PICK l \in Nat, g \in Nat : l = LastShift /\ g = WordBits - l /\ l + g = WordBits
    <3>1. LastShift \in Nat /\ WordBits - LastShift \in Nat
      BY LastIs, Constant
    <3> QED BY <3>1, Constant
  <2>2. PICK s \in Nat \ {0}, t \in Nat \ {0} : s = 2^l /\ t = 2^g /\ 2^WordBits = s * t
    <3>1. 2^l \in Nat \ {0} /\ 2^g \in Nat \ {0} /\ 2^(l + g) = 2^l * 2^g
      BY PowerIs, PowersMultiply
    <3> QED BY <2>1, <3>1
  <2>3. PICK n \in Nat : n = Number(queue)
    <3>1. queue \in Seq({0, 1})
      BY DEF CodecInv, Types
    <3>2. Number(queue) \in 0..(2^Len(queue) - 1)
      BY <3>1, NumberIs
    <3> QED BY <3>2
  <2>4. n + s * rest \in Word
    <3>1. Ints \in Seq(Word) /\ Len(out) + 1 \in 1..Len(Ints)
      <4>1. Ints \in Seq(Word) /\ Len(Ints) = expected /\ expected \in Nat /\ Len(out) \in Nat
        BY IntsAre DEF Ours, CodecInv, Types
      <4> QED BY <1>1, <4>1
    <3>2. Ints[Len(out) + 1] \in Word
      BY ONLY <3>1, ElementOfSeq
    <3> QED BY <1>4, <2>1, <2>2, <2>3, <3>2
  <2>5. rest \in Nat
    BY Constant
  <2>6. n + s * rest < s * t
    BY <2>2, <2>3, <2>4, <2>5 DEF Word
  <2>7. rest < t
    <3> SUFFICES ASSUME rest >= t PROVE FALSE
      BY <2>5
    <3>1. s * rest >= s * t
      BY <2>5
    <3>2. s * rest \in Nat /\ s * t \in Nat
      BY <2>5
    <3> QED BY <2>6, <3>1, <3>2
  <2>8. LastGroup = t - 1
    BY <2>1, <2>2 DEF LastGroup
  <2>9. rest < HalfByte
    BY <2>5, <2>7, <2>8, LastIs, Constant
  <2> QED BY <1>6, <2>5, <2>7, <2>8, <2>9
<1>8. ASSUME bytes[at] < HalfByte PROVE GoodPosition
  <2>1. rest < HalfByte
    <3> SUFFICES ASSUME rest >= HalfByte PROVE FALSE
      BY Constant
    <3>1. PICK r \in 0..(HalfByte - 1) : VarBytes[rest][1] = r + HalfByte
      BY VarBytesIs
    <3> QED BY <1>5, <1>8, <3>1, Constant
  <2>2. \A i \in 1..Len(out) : out[i] = values[i]
    BY <1>1, <1>2 DEF Found
  <2> QED BY <1>1, <1>4, <1>6, <1>8, <2>1, <2>2, PositionIs
<1> QED BY <1>1, <1>5, <1>7, <1>8

\* The reader of positions ends with what was written, or notices the length.
LEMMA PositionsEndFinds ==
  ASSUME CodecInv, Ours, ReaderInv, damage \in {"none", "cut", "extended"}
  PROVE  /\ PositionsEnd => damage = "none" /\ out' = values
         /\ PositionsFail => damage # "none"
<1> SUFFICES ASSUME stage = "groups", Len(out) = expected
             PROVE  (NothingLeft <=> damage = "none") /\ out = values
  BY DEF PositionsEnd, PositionsFail, reading
<1>1. PICK d : d = Ints /\ d \in Seq(Word) /\ Len(d) = expected /\ Len(d) \in Nat
  BY IntsAre DEF Ours
<1>2. PICK whole \in Seq(Byte), K \in Listings :
        /\ Cuts(job, whole, Ints, K, Len(whole) + 1, Len(Ints))
        /\ MadeOf(whole) /\ Found(whole, K)
  BY DEF ReaderInv
<1>3. \A i \in 1..Len(out) : out[i] = values[i]
  BY <1>2 DEF Found
<1>4. <<at, Len(out)>> \in K
  <2>1. ASSUME NEW b PROVE <<b, Len(out) + 1>> \notin K
    <3>1. K \subseteq (1..(Len(whole) + 1)) \X (0..Len(d))
      BY <1>1, <1>2 DEF Cuts
    <3>2. Len(out) + 1 \notin 0..Len(d)
      BY <1>1
    <3> QED BY <3>1, <3>2
  <2> QED BY <1>2, <2>1 DEF Found
<1>5. NothingLeft <=> damage = "none"
  BY <1>2, <1>4, AllRead
<1>6. out = values
  <2>1. out \in Seq(Word) /\ values \in Seq(Word) /\ Len(out) = Len(values)
    BY DEF CodecInv, Types, Ours
  <2> QED BY ONLY <1>3, <2>1, SeqEqual
<1> QED BY <1>5, <1>6

-----------------------------------------------------------------------------
(* From the writer to the reader.                                          *)

\* Sections of this writer that the reader takes for whole.
Passed == damage \in {"none", "cut", "extended"}

TripInv ==
  /\ stage \in {"write", "stored"} => damage = "none"
  /\ stage = "check" => damage \in {"none", "burst"}
  /\ Passed =>
       /\ Ours /\ WriterInv /\ ReaderInv
       /\ stage \in {"stored", "check"} => Section(bytes) /\ stored = Checksum(bytes)
       /\ stage = "done" => damage = "none" /\ out = values
       /\ stage = "rejected" => damage # "none"

\* No step changes what is to be written.
LEMMA OursStays ==
  ASSUME Ours, UNCHANGED inputs
  PROVE  Ours' /\ Ints' = Ints
BY DEF Ours, Ints, inputs, Ascending

\* A writer begins, or a reader of foreign bytes, of which nothing is said.
LEMMA InitTrip ==
  ASSUME Init
  PROVE  TripInv
<1>1. block = 0 /\ queue = <<>>
  BY DEF Init
<1>2. CASE \E s \in {t \in Sections : Writable(t)} :
             /\ job = s.kind /\ values = s.values /\ expected = Len(s.values)
             /\ todo = Integers(s.kind, s.values)
             /\ bytes = <<>>
             /\ stage = "write" /\ damage = "none"
  <2>1. PICK s \in Sections :
          /\ Writable(s) /\ job = s.kind /\ values = s.values /\ expected = Len(s.values)
          /\ todo = Integers(s.kind, s.values) /\ bytes = <<>>
          /\ stage = "write" /\ damage = "none"
    BY <1>2
  <2>2. PICK k \in {"plain", "deltas", "positions"},
             v \in UNION {[1..n -> Values] : n \in 0..MaxLen} :
               s = [kind |-> k, values |-> v]
    BY DEF Sections
  <2>3. PICK n \in 0..MaxLen : v \in [1..n -> Values]
    BY <2>2
  <2>4. v \in Seq(Word)
    <3>1. n \in Nat
      BY InputAssumption
    <3>2. v \in [1..n -> Word]
      BY <2>3, InputAssumption DEF Word
    <3> QED BY <3>1, <3>2, SeqDef
  <2>5. Ours /\ todo = Ints
    BY <2>1, <2>2, <2>4 DEF Ours, Ints, Writable
  <2>6. WriterInv
    BY <1>1, <2>1, <2>5, WriterStarts
  <2> QED BY <2>1, <2>5, <2>6 DEF TripInv, ReaderInv
<1>3. CASE \E f \in Foreign :
             /\ f.kind = "positions" => f.expected > 0
             /\ job = f.kind /\ expected = f.expected /\ bytes = f.bytes
             /\ values = <<>> /\ todo = <<>>
             /\ stage = StartOf(f.kind) /\ damage = "foreign"
  <2>1. damage = "foreign" /\ stage \in {"header", "groups"}
    BY <1>3 DEF StartOf
  <2> QED BY <2>1 DEF TripInv, Passed
<1> QED BY <1>2, <1>3 DEF Init

\* Each part of the program keeps the invariant.
LEMMA WriteTrips ==
  ASSUME CodecInv, TripInv, Write
  PROVE  TripInv'
<1>1. /\ stage = "write" /\ damage = "none" /\ damage' = "none" /\ UNCHANGED inputs
      /\ stage' = "write" \/ Store
  BY DEF Write, StartBlock, PackValue, PutByte, PutVariable, Store, TripInv
<1>2. Ours /\ WriterInv
  BY <1>1 DEF TripInv, Passed
<1>3. Ours'
  BY <1>1, <1>2, OursStays
<1>4. CASE stage' = "write"
  <2>1. WriterInv'
    <3>1. ~Store
      BY <1>4 DEF Store
    <3> QED BY <1>2, <3>1, StartBlockWrites, PackValueWrites, PutByteWrites, PutVariableWrites
      DEF Write
  <2> QED BY <1>1, <1>3, <1>4, <2>1 DEF TripInv, ReaderInv
<1>5. CASE Store
  <2>1. stage' = "stored" /\ stored' = Checksum(bytes) /\ bytes' = bytes
        /\ UNCHANGED <<job, values>>
    BY <1>5 DEF Store, inputs
  <2>2. Section(bytes)
    BY <1>2, <1>5, StoreWrites
  <2>3. Section(bytes)'
    BY <2>1, <2>2 DEF Section, Ints
  <2>4. stored' = Checksum(bytes')
    BY <2>1
  <2> QED BY <1>1, <1>3, <2>1, <2>3, <2>4 DEF TripInv, ReaderInv, WriterInv
<1> QED BY <1>1, <1>4, <1>5

LEMMA FetchTrips ==
  ASSUME CodecInv, TripInv, Fetch
  PROVE  TripInv'
<1>1. /\ stage = "stored" /\ stage' = "check"
      /\ UNCHANGED <<job, values, stored>> /\ UNCHANGED inputs
      /\ (damage' = "none" /\ bytes' = bytes) \/ damage' = "burst"
  BY DEF Fetch, inputs
<1>2. Ours /\ Section(bytes) /\ stored = Checksum(bytes)
  BY <1>1 DEF TripInv, Passed
<1>3. CASE damage' = "burst"
  BY <1>1, <1>3 DEF TripInv, Passed
<1>4. CASE damage' = "none" /\ bytes' = bytes
  <2>1. Ours'
    BY <1>1, <1>2, OursStays
  <2>2. Section(bytes)' /\ stored' = Checksum(bytes')
    BY <1>1, <1>2, <1>4 DEF Section, Ints
  <2> QED BY <1>1, <1>4, <2>1, <2>2 DEF TripInv, ReaderInv, WriterInv
<1> QED BY <1>1, <1>3, <1>4

LEMMA MisplaceTrips ==
  ASSUME CodecInv, TripInv, Misplace
  PROVE  TripInv'
<1>1. /\ stage = "stored" /\ stage' = StartOf(job)
      /\ UNCHANGED <<job, values, at, out, queue>> /\ UNCHANGED inputs
      /\ \/ \E n \in 0..(Len(bytes) - 1) : damage' = "cut" /\ bytes' = SubSeq(bytes, 1, n)
         \/ \E b \in Byte : damage' = "extended" /\ bytes' = Append(bytes, b)
  BY DEF Misplace, inputs, writing, reading
<1>2. Ours /\ Section(bytes)
  BY <1>1 DEF TripInv, Passed
<1>3. PICK whole \in Seq(Byte) : whole = bytes
  BY DEF CodecInv, Types
<1>4. at' = 1 /\ out' = <<>> /\ queue' = <<>>
  BY <1>1 DEF CodecInv, NotRead
<1>5. Section(whole) /\ Section(whole)'
  BY <1>1, <1>2, <1>3 DEF Section, Ints
<1>6. MadeOf(whole)'
  <2>1. PICK m \in Nat : m = Len(whole)
    BY <1>3
  <2>2. ASSUME NEW n \in 0..(Len(bytes) - 1), damage' = "cut", bytes' = SubSeq(bytes, 1, n)
        PROVE  MadeOf(whole)'
    <3>1. n \in Nat /\ n < m
      BY <1>3, <2>1
    <3>2. 1 \in 1..(Len(whole) + 1) /\ 1 <= n + 1 /\ n <= Len(whole)
      BY <2>1, <3>1
    <3>3. Len(SubSeq(whole, 1, n)) = n - 1 + 1
      BY ONLY <1>3, n \in Nat, <3>1, <3>2, Part
    <3>4. \A i \in 1..(n - 1 + 1) : SubSeq(whole, 1, n)[i] = whole[1 + i - 1]
      BY ONLY <1>3, n \in Nat, <3>1, <3>2, PartAt
    <3>5. Len(bytes') = n /\ \A i \in 1..n : bytes'[i] = whole[i]
      BY <1>3, <2>2, <3>1, <3>3, <3>4
    <3> QED BY <2>1, <2>2, <3>1, <3>5 DEF MadeOf
  <2>3. ASSUME NEW b \in Byte, damage' = "extended", bytes' = Append(bytes, b)
        PROVE  MadeOf(whole)'
    <3>1. Len(bytes') = m + 1 /\ \A i \in 1..m : bytes'[i] = whole[i]
      BY <1>3, <2>1, <2>3
    <3> QED BY <2>1, <2>3, <3>1 DEF MadeOf
  <2> QED BY <1>1, <2>2, <2>3
<1>7. ReaderInv'
  BY <1>1, <1>3, <1>4, <1>5, <1>6, ReaderStarts
<1>8. Ours'
  BY <1>1, <1>2, OursStays
<1>9. stage' \in {"header", "groups"} /\ damage' \in {"cut", "extended"}
  BY <1>1 DEF StartOf
<1> QED BY <1>7, <1>8, <1>9 DEF TripInv, WriterInv

LEMMA CheckTrips ==
  ASSUME CodecInv, TripInv, CheckSum \/ CheckFails
  PROVE  TripInv'
<1>1. /\ stage = "check"
      /\ stage' = StartOf(job) \/ (stage' = "rejected" /\ Checksum(bytes) # stored)
      /\ UNCHANGED <<job, values, bytes, damage, at, out, queue>> /\ UNCHANGED inputs
  BY DEF CheckSum, CheckFails, Reject, inputs, writing, reading
<1>2. stage' \in {"header", "groups", "rejected"}
  BY <1>1 DEF StartOf
<1>3. CASE damage = "burst"
  BY <1>1, <1>2, <1>3 DEF TripInv, Passed
<1>4. CASE damage = "none"
  <2>1. Ours /\ Section(bytes) /\ stored = Checksum(bytes)
    BY <1>1, <1>4 DEF TripInv, Passed
  <2>2. stage' = StartOf(job) /\ stage' # "rejected"
    BY <1>1, <2>1 DEF StartOf
  <2>3. PICK whole \in Seq(Byte) : whole = bytes
    BY DEF CodecInv, Types
  <2>4. at' = 1 /\ out' = <<>> /\ queue' = <<>>
    BY <1>1 DEF CodecInv, NotRead
  <2>5. Section(whole) /\ Section(whole)'
    BY <1>1, <2>1, <2>3 DEF Section, Ints
  <2>6. MadeOf(whole)'
    BY <1>1, <1>4, <2>3 DEF MadeOf
  <2>7. ReaderInv'
    BY <2>2, <2>3, <2>4, <2>5, <2>6, ReaderStarts
  <2>8. Ours'
    BY <1>1, <2>1, OursStays
  <2> QED BY <1>1, <1>2, <1>4, <2>2, <2>7, <2>8 DEF TripInv, WriterInv
<1> QED BY <1>1, <1>3, <1>4 DEF TripInv

\* What the reader does behind the checksum.
ReadStep ==
  \/ ReadHeader \/ HeaderFails \/ LoadByte \/ TakeValue \/ BlockEnds
  \/ ReadEnds \/ EndFails \/ ReadVariable

LEMMA ReadTrips ==
  ASSUME CodecInv, TripInv, ReadStep
  PROVE  TripInv'
<1>1. /\ UNCHANGED inputs /\ UNCHANGED damage
      /\ stage \in {"header", "unpack", "groups"}
      /\ stage' \in {"header", "unpack", "groups", "done", "rejected"}
  BY DEF ReadStep, ReadVariable, ReadHeader, HeaderFails, LoadByte, TakeValue, BlockEnds,
    ReadEnds, EndFails, ReadGroup, ReadPosition, GroupFails, PositionsEnd, PositionsFail, Reject
<1>2. CASE ~Passed
  BY <1>1, <1>2 DEF TripInv, Passed
<1>3. CASE Passed
  <2>1. Ours /\ ReaderInv /\ damage \in {"none", "cut", "extended"}
    BY <1>3 DEF TripInv, Passed
  <2>2. Ours'
    BY <1>1, <2>1, OursStays
  <2>3. stage' = "done" => damage = "none" /\ out' = values
    <3>1. stage' = "done" => ReadEnds \/ PositionsEnd
      BY DEF ReadStep, ReadVariable, ReadHeader, HeaderFails, LoadByte, TakeValue, BlockEnds,
        EndFails, ReadGroup, ReadPosition, GroupFails, PositionsFail, Reject
    <3> QED BY <2>1, <3>1, ReadEndsFinds, PositionsEndFinds
  <2>4. stage' = "rejected" => damage # "none"
    <3>1. stage' = "rejected" => HeaderFails \/ EndFails \/ GroupFails \/ PositionsFail
      BY DEF ReadStep, ReadVariable, ReadHeader, LoadByte, TakeValue, BlockEnds,
        ReadEnds, ReadGroup, ReadPosition, PositionsEnd
    <3> QED BY <2>1, <3>1, HeaderFailsFinds, ReadEndsFinds, GroupFailsFinds, PositionsEndFinds
  <2>5. ReaderInv'
    <3>1. CASE stage' \in {"done", "rejected"}
      BY <3>1 DEF ReaderInv
    <3>2. CASE stage' \in {"header", "unpack", "groups"}
      <4>1. ReadHeader \/ LoadByte \/ TakeValue \/ BlockEnds \/ ReadGroup \/ ReadPosition
        BY <3>2 DEF ReadStep, ReadVariable, HeaderFails, ReadEnds, EndFails, GroupFails,
          PositionsEnd, PositionsFail, Reject
      <4> QED BY <2>1, <4>1, ReadHeaderFinds, LoadByteFinds, TakeValueFinds, BlockEndsFinds,
        ReadGroupFinds, ReadPositionFinds
    <3> QED BY <1>1, <3>1, <3>2
  <2>6. WriterInv'
    BY <1>1 DEF WriterInv
  <2> QED BY <1>1, <2>2, <2>3, <2>4, <2>5, <2>6 DEF TripInv, inputs
<1> QED BY <1>2, <1>3

LEMMA NextTrips ==
  ASSUME CodecInv, TripInv, [Next]_vars
  PROVE  TripInv'
<1>1. CASE Unpack
  BY <1>1, CheckTrips, ReadTrips DEF Unpack, ReadStep
<1>2. CASE ReadVariable
  BY <1>2, ReadTrips DEF ReadStep
<1>3. CASE UNCHANGED vars
  <2>1. /\ UNCHANGED <<job, values, expected, stage, todo, block, width, queue, bytes>>
        /\ UNCHANGED <<stored, damage, at, end, out>>
    BY <1>3 DEF vars, inputs, writing, reading
  <2>2. Ours' = Ours /\ Section(bytes)' = Section(bytes) /\ Passed' = Passed /\ Ints' = Ints
    BY <2>1 DEF Ours, Ascending, Section, Ints, Passed
  <2>3. WriterInv' = WriterInv
    <3>1. LeftToDo' = LeftToDo /\ Packed' = Packed
      BY <2>1, <2>2 DEF LeftToDo, Packed
    <3> QED BY <2>1, <2>2, <3>1 DEF WriterInv, BlockOpen
  <2>4. ReaderInv' = ReaderInv
    BY <2>1, <2>2 DEF ReaderInv, MadeOf, Found
  <2> QED BY <2>1, <2>2, <2>3, <2>4 DEF TripInv
<1> QED BY <1>1, <1>2, <1>3, WriteTrips, FetchTrips, MisplaceTrips DEF Next

-----------------------------------------------------------------------------
(* The theorems.                                                           *)

\* The codec keeps its invariant.
THEOREM CodecInductive == Spec => []CodecInv
<1>1. Init => CodecInv
  BY InitInv
<1>2. CodecInv /\ [Next]_vars => CodecInv'
  BY NextKeeps
<1> QED BY <1>1, <1>2, PTL DEF Spec

\* No packing loop shifts a bit out of its buffer, for any widths of bytes, words
\* and buffer, and whatever the bytes are.
THEOREM CodecTypeCorrect == Spec => []TypeOK
<1>1. CodecInv => TypeOK
  BY InvImplies
<1> QED BY <1>1, CodecInductive, PTL

\* The unpacking loop of read_packed_u32s never indexes behind its block.
THEOREM UnpackingStaysInBounds == Spec => []InBounds
<1>1. CodecInv => InBounds
  BY InvImplies
<1> QED BY <1>1, CodecInductive, PTL

\* Whatever a reader returns is as long as it was asked to be, and documents and
\* positions ascend.
THEOREM DecodedStaysWellFormed == Spec => []DecodedIsWellFormed
<1>1. CodecInv => DecodedIsWellFormed
  BY InvImplies
<1> QED BY <1>1, CodecInductive, PTL

\* Writer and reader keep the invariants that tie them together.
THEOREM TripInductive == Spec => []TripInv
<1>1. Init => TripInv
  BY InitTrip
<1>2. CodecInv /\ TripInv /\ [Next]_vars => TripInv'
  BY NextTrips
<1> QED BY <1>1, <1>2, CodecInductive, PTL DEF Spec

\* RoundTrip: what put_packed_u32s, put_packed_deltas and put_var_u32 write is
\* never rejected when it is not damaged, and what is read is what was written.
THEOREM RoundTrips == Spec => []RoundTrip
<1>1. TripInv => RoundTrip
  BY DEF TripInv, Passed, RoundTrip
<1> QED BY <1>1, TripInductive, PTL

\* WrongLengthIsRejected: no prefix of a section, and no section with a byte
\* more, is read as a whole one, even behind a checksum that passes.
THEOREM WrongLengthRejected == Spec => []WrongLengthIsRejected
<1>1. TripInv => WrongLengthIsRejected
  BY DEF TripInv, Passed, WrongLengthIsRejected
<1> QED BY <1>1, TripInductive, PTL

=============================================================================
