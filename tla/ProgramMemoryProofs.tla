------------------------- MODULE ProgramMemoryProofs -------------------------
(***************************************************************************)
(* What the program memory keeps, for sizes of up to 64 bits, all sizes of *)
(* values and however many appends.  First the sizes it grows to:          *)
(* bigger_pow2 returns the least power of two that is not less than its    *)
(* argument, and 0 when there is none.                                     *)
(***************************************************************************)
EXTENDS ProgramMemory, BasicFacts, FiniteSetTheorems

(***************************************************************************)
(* Pow2 is a function: tables of its values exist and agree.               *)
(***************************************************************************)
\* The first n + 1 powers of two
Table(n) == {g \in [0 .. n -> Nat] : g[0] = 1 /\ \A i \in 1 .. n : g[i] = 2 * g[i - 1]}

\* A table of any length of the powers of two exists.
LEMMA TableExists == \A n \in Nat : Table(n) # {}
<1> DEFINE T == {n \in Nat : Table(n) # {}}
<1>1. 0 \in T
  <2>1. [i \in 0 .. 0 |-> 1] \in Table(0)
    BY DEF Table
  <2> QED BY <2>1
<1>2. ASSUME NEW n \in Nat, n \in T PROVE n + 1 \in T
  <2>1. PICK g : g \in Table(n)
    BY <1>2
  <2> DEFINE h == [i \in 0 .. n + 1 |-> IF i = n + 1 THEN 2 * g[n] ELSE g[i]]
  <2>2. h \in Table(n + 1)
    BY <2>1 DEF Table
  <2> QED BY <2>2
<1> HIDE DEF T
<1>3. Nat \subseteq T
  BY <1>1, <1>2, SetInduction
<1> QED
  BY <1>3 DEF T

\* Two tables have the same entries where both have one.
LEMMA TablesAgree ==
  ASSUME NEW m \in Nat, NEW n \in Nat, NEW g \in Table(m), NEW h \in Table(n)
  PROVE \A i \in Nat : i <= m /\ i <= n => g[i] = h[i]
<1> DEFINE T == {i \in Nat : i <= m /\ i <= n => g[i] = h[i]}
<1>1. 0 \in T
  BY DEF Table
<1>2. ASSUME NEW i \in Nat, i \in T PROVE i + 1 \in T
  BY <1>2 DEF Table
<1> HIDE DEF T
<1>3. Nat \subseteq T
  BY <1>1, <1>2, SetInduction
<1> QED
  BY <1>3 DEF T

\* The recursive definition of Pow2 defines a function: the powers of two that
\* closest_pow2 and bigger_pow2 return are numbers.
LEMMA Pow2Def ==
  /\ Pow2[0] = 1
  /\ \A i \in Nat : Pow2[i] \in Nat /\ Pow2[i + 1] = 2 * Pow2[i]
<1> DEFINE F(g) == [i \in Nat |-> IF i = 0 THEN 1 ELSE 2 * g[i - 1]]
           row(n) == CHOOSE g : g \in Table(n)
           P == [i \in Nat |-> row(i)[i]]
<1>1. \A n \in Nat : row(n) \in Table(n)
  BY TableExists
<1>2. \A i \in Nat : P[i] \in Nat
  BY <1>1 DEF Table
<1>3. P[0] = 1
  BY <1>1 DEF Table
<1>4. ASSUME NEW i \in Nat, i # 0 PROVE P[i] = 2 * P[i - 1]
  <2>1. row(i) \in Table(i) /\ row(i - 1) \in Table(i - 1) /\ i - 1 \in Nat
    BY <1>1, <1>4
  <2> HIDE DEF row
  <2>2. row(i)[i - 1] = row(i - 1)[i - 1]
    BY <2>1, TablesAgree
  <2>3. row(i)[i] = 2 * row(i)[i - 1]
    BY <2>1, <1>4 DEF Table
  <2> QED BY <2>1, <2>2, <2>3
<1> HIDE DEF row
<1>5. P = F(P)
  BY <1>3, <1>4
<1> HIDE DEF P
<1>6. \E g : g = F(g)
  BY <1>5
<1>7. Pow2 = CHOOSE g : g = F(g)
  BY DEF Pow2
<1>8. Pow2 = F(Pow2)
  BY <1>6, <1>7
<1>9. \A i \in Nat : Pow2[i] = IF i = 0 THEN 1 ELSE 2 * Pow2[i - 1]
  BY <1>8
<1> DEFINE T == {i \in Nat : Pow2[i] \in Nat}
<1>10. 0 \in T
  BY <1>9
<1>11. ASSUME NEW i \in Nat, i \in T PROVE i + 1 \in T
  <2>1. Pow2[i + 1] = 2 * Pow2[i]
    BY <1>9
  <2> QED BY <2>1, <1>11
<1> HIDE DEF T
<1>12. Nat \subseteq T
  BY <1>10, <1>11, SetInduction
<1>13. \A i \in Nat : Pow2[i] \in Nat
  BY <1>12 DEF T
<1>14. \A i \in Nat : Pow2[i + 1] = 2 * Pow2[i]
  BY <1>9
<1> QED
  BY <1>9, <1>13, <1>14

\* Pow2 grows: every later power is at least twice as large.
LEMMA Pow2Grows ==
  /\ \A i \in Nat : Pow2[i] >= 1
  /\ \A i, j \in Nat : i <= j => Pow2[i] <= Pow2[j]
  /\ \A i, j \in Nat : i < j => 2 * Pow2[i] <= Pow2[j]
<1>1. \A i \in Nat : Pow2[i] >= 1
  <2> DEFINE T == {i \in Nat : Pow2[i] >= 1}
  <2>1. 0 \in T
    BY Pow2Def
  <2>2. ASSUME NEW i \in Nat, i \in T PROVE i + 1 \in T
    BY <2>2, Pow2Def
  <2> HIDE DEF T
  <2>3. Nat \subseteq T
    BY <2>1, <2>2, SetInduction
  <2> QED
    BY <2>3 DEF T
<1>2. ASSUME NEW i \in Nat PROVE \A j \in Nat : i <= j => Pow2[i] <= Pow2[j]
  <2> DEFINE T == {j \in Nat : i <= j => Pow2[i] <= Pow2[j]}
  <2>1. 0 \in T
    BY Pow2Def
  <2>2. ASSUME NEW j \in Nat, j \in T PROVE j + 1 \in T
    BY <2>2, <1>1, Pow2Def
  <2> HIDE DEF T
  <2>3. Nat \subseteq T
    BY <2>1, <2>2, SetInduction
  <2> QED
    BY <2>3 DEF T
<1>3. ASSUME NEW i \in Nat, NEW j \in Nat, i < j PROVE 2 * Pow2[i] <= Pow2[j]
  <2>1. i + 1 \in Nat /\ i + 1 <= j
    BY <1>3
  <2>2. Pow2[i + 1] <= Pow2[j]
    BY <2>1, <1>2
  <2> QED
    BY <2>2, Pow2Def
<1> QED
  BY <1>1, <1>2, <1>3

\* Pow2 turns sums into products.
LEMMA Pow2Sum == \A i, j \in Nat : Pow2[i + j] = Pow2[i] * Pow2[j]
<1> SUFFICES ASSUME NEW i \in Nat PROVE \A j \in Nat : Pow2[i + j] = Pow2[i] * Pow2[j]
  OBVIOUS
<1> DEFINE T == {j \in Nat : Pow2[i + j] = Pow2[i] * Pow2[j]}
<1>1. 0 \in T
  BY Pow2Def
<1>2. ASSUME NEW j \in Nat, j \in T PROVE j + 1 \in T
  <2>1. Pow2[(i + j) + 1] = 2 * Pow2[i + j] /\ Pow2[j + 1] = 2 * Pow2[j]
    BY Pow2Def
  <2>2. Pow2[i] \in Nat /\ Pow2[j] \in Nat
    BY Pow2Def
  <2>3. Pow2[i + (j + 1)] = 2 * (Pow2[i] * Pow2[j])
    BY <2>1, <1>2
  <2>4. 2 * (Pow2[i] * Pow2[j]) = Pow2[i] * (2 * Pow2[j])
    BY <2>2
  <2> QED
    BY <2>1, <2>3, <2>4
<1> HIDE DEF T
<1>3. Nat \subseteq T
  BY <1>1, <1>2, SetInduction
<1> QED
  BY <1>3 DEF T

-----------------------------------------------------------------------------
(***************************************************************************)
(* Division and remainder                                                  *)
(***************************************************************************)
\* Quotient and remainder are natural numbers that give the dividend back.
LEMMA Division ==
  ASSUME NEW u \in Nat, NEW p \in Nat, p >= 1
  PROVE  /\ u \div p \in Nat
         /\ u % p \in 0 .. p - 1
         /\ u = p * (u \div p) + (u % p)
OBVIOUS

\* ... and are the only such numbers.
LEMMA DivisionUnique ==
  ASSUME NEW p \in Nat, p >= 1, NEW q \in Nat, NEW r \in 0 .. p - 1
  PROVE  (p * q + r) \div p = q /\ (p * q + r) % p = r
OBVIOUS

\* The bit of a number at a place above all its bits is 0.
LEMMA DivisionSmall ==
  ASSUME NEW u \in Nat, NEW p \in Nat, u < p
  PROVE  u \div p = 0 /\ u % p = u
OBVIOUS

\* The highest bit of a number is 1.
LEMMA DivisionOnce ==
  ASSUME NEW u \in Nat, NEW p \in Nat, p <= u, u < 2 * p
  PROVE  u \div p = 1
OBVIOUS

-----------------------------------------------------------------------------
(***************************************************************************)
(* The bits of a number                                                    *)
(***************************************************************************)
\* The lowest i + 1 bits of a number are the lowest i bits and one more.
LEMMA OneMoreBit ==
  ASSUME NEW u \in Nat, NEW i \in Nat
  PROVE  u % Pow2[i + 1] = Pow2[i] * ((u \div Pow2[i]) % 2) + (u % Pow2[i])
<1> DEFINE p == Pow2[i]
           q == u \div p
           r == u % p
<1>1. p \in Nat /\ p >= 1 /\ Pow2[i + 1] = 2 * p
  BY Pow2Def, Pow2Grows
<1> HIDE DEF p
<1>2. q \in Nat /\ r \in 0 .. p - 1 /\ u = p * q + r
  BY <1>1, Division
<1> HIDE DEF q, r
<1>3. q \div 2 \in Nat /\ q % 2 \in 0 .. 1 /\ q = 2 * (q \div 2) + (q % 2)
  BY <1>2
<1> DEFINE h == q \div 2
           b == q % 2
<1> HIDE DEF h, b
<1>4. h \in Nat /\ b \in 0 .. 1 /\ q = 2 * h + b
  BY <1>3 DEF h, b
<1>5. p * (2 * h + b) = (2 * p) * h + p * b
  BY <1>1, <1>4
<1>6. p * b + r \in 0 .. 2 * p - 1
  BY <1>1, <1>2, <1>4
<1>7. u = (2 * p) * h + (p * b + r)
  <2>1. p * b \in Nat /\ (2 * p) * h \in Nat /\ r \in Nat
    BY <1>1, <1>2, <1>4
  <2> QED
    BY <2>1, <1>2, <1>4, <1>5
<1>8. u % (2 * p) = p * b + r
  <2>1. 2 * p \in Nat /\ 2 * p >= 1
    BY <1>1
  <2> QED
    BY <2>1, <1>4, <1>6, <1>7, DivisionUnique
<1> QED
  BY <1>1, <1>8 DEF p, q, r, b

\* A number is its bits: what closest_pow2 does to the bits is all it does.
LEMMA BitsUnique ==
  ASSUME NEW u \in 0 .. Pow2[W] - 1, NEW v \in 0 .. Pow2[W] - 1, Bits(u) = Bits(v)
  PROVE  u = v
<1>w. W \in Nat /\ W >= 1
  BY WAssumption
<1>p. \A i \in Nat : Pow2[i] \in Nat /\ Pow2[i] >= 1
  BY Pow2Def, Pow2Grows
<1>u. u \in Nat /\ v \in Nat /\ u < Pow2[W] /\ v < Pow2[W]
  BY <1>w, <1>p
<1> DEFINE T == {i \in Nat : i <= W => u % Pow2[i] = v % Pow2[i]}
<1>1. 0 \in T
  BY <1>u, Pow2Def
<1>2. ASSUME NEW i \in Nat, i \in T PROVE i + 1 \in T
  <2> SUFFICES ASSUME i + 1 <= W PROVE u % Pow2[i + 1] = v % Pow2[i + 1]
    OBVIOUS
  <2>1. u % Pow2[i] = v % Pow2[i] /\ i \in 0 .. W - 1
    BY <1>2, <1>w
  <2>2. (u \div Pow2[i]) % 2 = 1 <=> (v \div Pow2[i]) % 2 = 1
    BY <2>1 DEF Bits
  <2>3. u \div Pow2[i] \in Nat /\ v \div Pow2[i] \in Nat
    BY <1>p, <1>u, Division
  <2>4. (u \div Pow2[i]) % 2 = (v \div Pow2[i]) % 2
    BY <2>2, <2>3
  <2> QED
    BY <2>1, <2>4, <1>u, OneMoreBit
<1> HIDE DEF T
<1>3. Nat \subseteq T
  BY <1>1, <1>2, SetInduction
<1>4. u % Pow2[W] = v % Pow2[W]
  BY <1>3, <1>w DEF T
<1> QED
  BY <1>4, <1>u, <1>p, <1>w, DivisionSmall

\* The number with given bits is the number they are the bits of.
LEMMA NumberOfBits ==
  ASSUME NEW v \in 0 .. Pow2[W] - 1
  PROVE  Number(Bits(v)) = v
<1>1. \E u \in 0 .. Pow2[W] - 1 : Bits(u) = Bits(v)
  OBVIOUS
<1>2. Number(Bits(v)) \in 0 .. Pow2[W] - 1 /\ Bits(Number(Bits(v))) = Bits(v)
  BY <1>1 DEF Number
<1> QED
  BY <1>2, BitsUnique

\* A number that is not 0 has a highest bit.
LEMMA HighestBit ==
  ASSUME NEW x \in 1 .. Pow2[W] - 1
  PROVE  \E h \in 0 .. W - 1 :
           /\ Pow2[h] <= x /\ x < Pow2[h + 1]
           /\ h \in Bits(x) /\ \A i \in Bits(x) : i <= h
<1>w. W \in Nat /\ W >= 1
  BY WAssumption
<1>p. \A i \in Nat : Pow2[i] \in Nat /\ Pow2[i] >= 1
  BY Pow2Def, Pow2Grows
<1>x. x \in Nat /\ x >= 1 /\ x < Pow2[W]
  BY <1>w, <1>p
<1> DEFINE Between(h) == Pow2[h] <= x /\ x < Pow2[h + 1]
           T == {n \in Nat : x < Pow2[n] => \E h \in Nat : h < n /\ Between(h)}
<1>1. 0 \in T
  BY <1>x, Pow2Def
<1>2. ASSUME NEW n \in Nat, n \in T PROVE n + 1 \in T
  <2>1. CASE x < Pow2[n]
    BY <2>1, <1>2
  <2>2. CASE Pow2[n] <= x
    BY <2>2
  <2> QED
    BY <2>1, <2>2, <1>x, <1>p
<1> HIDE DEF T
<1>3. Nat \subseteq T
  BY <1>1, <1>2, SetInduction
<1>4. PICK h \in Nat : h < W /\ Between(h)
  BY <1>3, <1>x, <1>w DEF T
<1>5. h \in Bits(x)
  <2>1. x \div Pow2[h] = 1
    BY <1>4, <1>x, <1>p, Pow2Def, DivisionOnce
  <2> QED
    BY <2>1, <1>4, <1>w DEF Bits
<1>6. ASSUME NEW i \in Bits(x) PROVE i <= h
  <2>1. i \in Nat
    BY <1>w DEF Bits
  <2>2. CASE i > h
    <3>1. h + 1 <= i /\ h + 1 \in Nat
      BY <2>1, <2>2
    <3>2. x < Pow2[i]
      BY <3>1, <2>1, <1>4, <1>p, <1>x, Pow2Grows
    <3>3. x \div Pow2[i] = 0
      BY <3>2, <2>1, <1>x, <1>p, DivisionSmall
    <3> QED
      BY <3>3 DEF Bits
  <2> QED
    BY <2>1, <2>2
<1> QED
  BY <1>4, <1>5, <1>6, <1>w

\* The number whose lowest h + 1 bits are set is one less than a power of two.
LEMMA BitsBelow ==
  ASSUME NEW h \in 0 .. W - 1
  PROVE  /\ Pow2[h + 1] - 1 \in 0 .. Pow2[W] - 1
         /\ Bits(Pow2[h + 1] - 1) = 0 .. h
<1>w. W \in Nat /\ h \in Nat /\ h + 1 \in Nat /\ h + 1 <= W
  BY WAssumption
<1>p. \A i \in Nat : Pow2[i] \in Nat /\ Pow2[i] >= 1
  BY Pow2Def, Pow2Grows
<1>1. Pow2[h + 1] - 1 \in Nat /\ Pow2[h + 1] <= Pow2[W]
  BY <1>w, <1>p, Pow2Grows
<1>2. ASSUME NEW i \in 0 .. h PROVE ((Pow2[h + 1] - 1) \div Pow2[i]) % 2 = 1
  <2> DEFINE p == Pow2[i]
             q == Pow2[h - i]
  <2>0. i \in Nat /\ h - i \in Nat /\ i + (h - i) = h
    BY <1>w
  <2>1. p \in Nat /\ p >= 1 /\ q \in Nat /\ q >= 1
    BY <2>0, <1>p
  <2>2. Pow2[h + 1] = 2 * (p * q)
    <3>1. Pow2[i + (h - i)] = p * q
      BY <2>0, Pow2Sum
    <3>2. Pow2[h + 1] = 2 * Pow2[h]
      BY <1>w, Pow2Def
    <3> QED
      BY <3>1, <3>2, <2>0
  <2> HIDE DEF p, q
  <2>3. 2 * (p * q) - 1 = p * (2 * q - 1) + (p - 1)
    BY <2>1
  <2>4. 2 * q - 1 \in Nat /\ p - 1 \in 0 .. p - 1
    BY <2>1
  <2>5. (Pow2[h + 1] - 1) \div p = 2 * q - 1
    <3>1. (p * (2 * q - 1) + (p - 1)) \div p = 2 * q - 1
      BY <2>1, <2>4, DivisionUnique
    <3> QED
      BY <3>1, <2>2, <2>3
  <2>6. (2 * q - 1) % 2 = 1
    BY <2>1
  <2> QED
    BY <2>5, <2>6 DEF p
<1>3. ASSUME NEW i \in 0 .. W - 1, i > h PROVE ((Pow2[h + 1] - 1) \div Pow2[i]) % 2 = 0
  <2>1. i \in Nat /\ h + 1 <= i
    BY <1>3, <1>w
  <2>2. Pow2[h + 1] - 1 < Pow2[i]
    BY <2>1, <1>w, <1>p, Pow2Grows
  <2>3. (Pow2[h + 1] - 1) \div Pow2[i] = 0
    BY <2>1, <2>2, <1>1, <1>p, DivisionSmall
  <2> QED
    BY <2>3
<1>4. Pow2[W] \in Nat /\ Pow2[h + 1] \in Nat
  BY <1>w, <1>p
<1>5. Pow2[h + 1] - 1 \in 0 .. Pow2[W] - 1
  BY <1>1, <1>4
<1>6. ASSUME NEW i \in 0 .. W - 1
      PROVE  ((Pow2[h + 1] - 1) \div Pow2[i]) % 2 = 1 <=> i <= h
  BY <1>2, <1>3, <1>w
<1> HIDE DEF Bits
<1>7. Bits(Pow2[h + 1] - 1) = {i \in 0 .. W - 1 : i <= h}
  BY <1>6 DEF Bits
<1>8. {i \in 0 .. W - 1 : i <= h} = 0 .. h
  BY <1>w
<1> QED
  BY <1>5, <1>7, <1>8

-----------------------------------------------------------------------------
(***************************************************************************)
(* closest_pow2 and bigger_pow2                                            *)
(***************************************************************************)
\* The places from which a bit of bits is less than k places away
Reached(bits, k) == {i \in 0 .. W - 1 : \E j \in bits : i <= j /\ j < i + k}

\* An or with a number shifted by k doubles the length of the smear.
LEMMA OneShift ==
  ASSUME NEW bits \in SUBSET (0 .. W - 1), NEW k \in Nat, k >= 1
  PROVE  OrShifted(Reached(bits, k), k) = Reached(bits, 2 * k)
<1>w. W \in Nat
  BY WAssumption
<1>1. ASSUME NEW i \in OrShifted(Reached(bits, k), k) PROVE i \in Reached(bits, 2 * k)
  <2>1. i \in 0 .. W - 1
    BY DEF OrShifted, Reached
  <2>2. PICK j \in bits : \/ i <= j /\ j < i + k
                          \/ i + k <= j /\ j < (i + k) + k
    BY DEF OrShifted, Reached
  <2>3. i <= j /\ j < i + 2 * k
    BY <2>1, <2>2, <1>w
  <2> QED
    BY <2>1, <2>3 DEF Reached
<1>2. ASSUME NEW i \in Reached(bits, 2 * k) PROVE i \in OrShifted(Reached(bits, k), k)
  <2>1. PICK j \in bits : i <= j /\ j < i + 2 * k
    BY DEF Reached
  <2>2. i \in 0 .. W - 1 /\ j \in 0 .. W - 1
    BY DEF Reached
  <2>3. CASE j < i + k
    BY <2>1, <2>2, <2>3 DEF OrShifted, Reached
  <2>4. CASE i + k <= j
    <3>1. i + k \in 0 .. W - 1 /\ j < (i + k) + k
      BY <2>1, <2>2, <2>4, <1>w
    <3>2. i + k \in Reached(bits, k)
      BY <3>1, <2>4 DEF Reached
    <3> QED
      BY <3>2, <2>2 DEF OrShifted
  <2> QED
    BY <2>2, <2>3, <2>4, <1>w
<1> QED
  BY <1>1, <1>2

\* The six lines of closest_pow2 set every bit below a bit that is set.
LEMMA SmearedBits ==
  ASSUME NEW bits \in SUBSET (0 .. W - 1)
  PROVE  Smeared(bits) = {i \in 0 .. W - 1 : \E j \in bits : i <= j}
<1>w. W \in Nat /\ W <= 64
  BY WAssumption
<1>1. Reached(bits, 1) = bits
  <2>1. \A i, j \in 0 .. W - 1 : (i <= j /\ j < i + 1) <=> i = j
    BY <1>w
  <2> QED
    BY <2>1 DEF Reached
<1>2. OrShifted(bits, 1) = Reached(bits, 2)
  BY <1>1, OneShift
<1>3. OrShifted(Reached(bits, 2), 2) = Reached(bits, 4)
  BY OneShift
<1>4. OrShifted(Reached(bits, 4), 4) = Reached(bits, 8)
  BY OneShift
<1>5. OrShifted(Reached(bits, 8), 8) = Reached(bits, 16)
  BY OneShift
<1>6. OrShifted(Reached(bits, 16), 16) = Reached(bits, 32)
  BY OneShift
<1>7. OrShifted(Reached(bits, 32), 32) = Reached(bits, 64)
  BY OneShift
<1>8. Smeared(bits) = Reached(bits, 64)
  BY <1>2, <1>3, <1>4, <1>5, <1>6, <1>7 DEF Smeared
<1>9. \A i, j \in 0 .. W - 1 : j < i + 64
  BY <1>w
<1> QED
  BY <1>8, <1>9 DEF Reached

\* closest_pow2 of a number that is not 0 is the least power of two for it, or 0 where
\* that has one bit too many; of 0 it is 0, as v-- wraps.
LEMMA ClosestPow2 ==
  /\ closest_pow2(0) = 0
  /\ \A v \in 1 .. Pow2[W] - 1 :
       \E g \in 0 .. W : /\ closest_pow2(v) = IF g = W THEN 0 ELSE Pow2[g]
                         /\ v <= Pow2[g]
                         /\ \A i \in 0 .. W : v <= Pow2[i] => g <= i
<1>w. W \in Nat /\ W >= 1 /\ W - 1 \in 0 .. W - 1
  BY WAssumption
<1>p. \A i \in Nat : Pow2[i] \in Nat /\ Pow2[i] >= 1
  BY Pow2Def, Pow2Grows
<1>b. \A x : Bits(x) \subseteq 0 .. W - 1
  BY DEF Bits
<1>W. Pow2[W] \in Nat /\ Pow2[W] >= 2
  BY <1>w, <1>p, Pow2Def, Pow2Grows
<1>s. ASSUME NEW h \in 0 .. W - 1, NEW x \in Nat, h \in Bits(x), \A i \in Bits(x) : i <= h
      PROVE  Number(Smeared(Bits(x))) = Pow2[h + 1] - 1
  <2>1. Smeared(Bits(x)) = {i \in 0 .. W - 1 : \E j \in Bits(x) : i <= j}
    BY <1>b, SmearedBits
  <2>2. {i \in 0 .. W - 1 : \E j \in Bits(x) : i <= j} = 0 .. h
    BY <1>s, <1>b, <1>w
  <2> QED
    BY <2>1, <2>2, BitsBelow, NumberOfBits
<1>1. closest_pow2(0) = 0
  <2>1. (0 - 1) % Pow2[W] = Pow2[W] - 1
    BY <1>W
  <2>2. Bits(Pow2[W] - 1) = 0 .. W - 1
    BY <1>w, BitsBelow
  <2>3. Number(Smeared(Bits(Pow2[W] - 1))) = Pow2[W] - 1
    BY <2>2, <1>s, <1>w, <1>W
  <2> QED
    BY <2>1, <2>3, <1>W DEF closest_pow2
<1>2. ASSUME NEW v \in 1 .. Pow2[W] - 1
      PROVE  \E g \in 0 .. W : /\ closest_pow2(v) = IF g = W THEN 0 ELSE Pow2[g]
                               /\ v <= Pow2[g]
                               /\ \A i \in 0 .. W : v <= Pow2[i] => g <= i
  <2>v. v \in Nat /\ v >= 1 /\ v < Pow2[W] /\ v - 1 \in 0 .. Pow2[W] - 1 /\ v - 1 \in Nat
    BY <1>W
  <2>0. (v - 1) % Pow2[W] = v - 1
    BY <2>v, <1>W
  <2>c. closest_pow2(v) = (Number(Smeared(Bits(v - 1))) + 1) % Pow2[W]
    BY <2>0 DEF closest_pow2
  <2>1. CASE v = 1
    <3>1. Bits(0) = {}
      <4>1. \A i \in 0 .. W - 1 : 0 \div Pow2[i] = 0
        BY <1>w, <1>p, DivisionSmall
      <4> QED
        BY <4>1 DEF Bits
    <3>2. Smeared({}) = {}
      BY SmearedBits
    <3>3. Number(Smeared(Bits(0))) = 0
      BY <3>1, <3>2, <1>W, NumberOfBits
    <3>4. closest_pow2(1) = 1
      BY <2>c, <2>1, <3>3, <1>W
    <3> QED
      BY <2>1, <3>4, <1>w, Pow2Def
  <2>2. CASE v # 1
    <3>1. v - 1 \in 1 .. Pow2[W] - 1
      BY <2>2, <2>v, <1>W
    <3>2. PICK h \in 0 .. W - 1 : /\ Pow2[h] <= v - 1 /\ v - 1 < Pow2[h + 1]
                                  /\ h \in Bits(v - 1) /\ \A i \in Bits(v - 1) : i <= h
      BY <3>1, HighestBit
    <3>h. h \in Nat /\ h + 1 \in 0 .. W /\ Pow2[h] \in Nat /\ Pow2[h + 1] \in Nat /\ Pow2[h + 1] >= 1
      BY <1>w, <1>p
    <3>3. closest_pow2(v) = (Pow2[h + 1] - 1 + 1) % Pow2[W]
      BY <3>2, <2>c, <2>v, <1>s
    <3>4. closest_pow2(v) = IF h + 1 = W THEN 0 ELSE Pow2[h + 1]
      <4>1. CASE h + 1 = W
        BY <4>1, <3>3, <3>h, <1>W
      <4>2. CASE h + 1 < W
        <5>1. 2 * Pow2[h + 1] <= Pow2[W]
          BY <4>2, <3>h, <1>w, Pow2Grows
        <5>2. Pow2[h + 1] < Pow2[W]
          BY <5>1, <3>h, <1>W
        <5> QED
          BY <5>2, <4>2, <3>3, <3>h, <1>W
      <4> QED
        BY <4>1, <4>2, <3>h, <1>w
    <3>5. v <= Pow2[h + 1]
      BY <3>2, <3>h, <2>v
    <3>6. ASSUME NEW i \in 0 .. W, v <= Pow2[i] PROVE h + 1 <= i
      <4>1. CASE i <= h
        <5>1. Pow2[i] <= Pow2[h]
          BY <4>1, <3>h, Pow2Grows
        <5> QED
          BY <5>1, <3>6, <3>2, <3>h, <2>v, <1>p
      <4> QED
        BY <4>1, <3>h
    <3> QED
      BY <3>4, <3>5, <3>6, <3>h
  <2> QED
    BY <2>1, <2>2
<1> QED
  BY <1>1, <1>2

\* What bigger_pow2 is for: the least power of two that is at least v if one fits in a
\* size_t, and 0 if none does; 0 for 0.
THEOREM BiggerPow2 ==
  /\ bigger_pow2(0) = 0
  /\ \A v \in 1 .. Limit :
       \E g \in 0 .. W - 1 : /\ bigger_pow2(v) = Pow2[g]
                             /\ v <= Pow2[g]
                             /\ \A i \in 0 .. W - 1 : v <= Pow2[i] => Pow2[g] <= Pow2[i]
  /\ \A v \in Limit + 1 .. Pow2[W] - 1 : bigger_pow2(v) = 0
<1>w. W \in Nat /\ W >= 1 /\ W - 1 \in Nat /\ (W - 1) + 1 = W
  BY WAssumption
<1>p. \A i \in Nat : Pow2[i] \in Nat /\ Pow2[i] >= 1
  BY Pow2Def, Pow2Grows
<1>l. Limit \in Nat /\ Limit >= 1 /\ Pow2[W] = 2 * Limit
  BY <1>w, <1>p, Pow2Def DEF Limit
<1>1. bigger_pow2(0) = 0
  BY ClosestPow2 DEF bigger_pow2
<1>2. ASSUME NEW v \in 1 .. Limit
      PROVE  \E g \in 0 .. W - 1 : /\ bigger_pow2(v) = Pow2[g]
                                   /\ v <= Pow2[g]
                                   /\ \A i \in 0 .. W - 1 : v <= Pow2[i] => Pow2[g] <= Pow2[i]
  <2>1. v \in 1 .. Pow2[W] - 1
    BY <1>l
  <2>2. PICK g \in 0 .. W : /\ closest_pow2(v) = IF g = W THEN 0 ELSE Pow2[g]
                            /\ v <= Pow2[g]
                            /\ \A i \in 0 .. W : v <= Pow2[i] => g <= i
    BY <2>1, ClosestPow2
  <2>3. g <= W - 1
    BY <2>2, <1>w DEF Limit
  <2>4. g \in 0 .. W - 1 /\ closest_pow2(v) = Pow2[g] /\ Pow2[g] \in Nat
    BY <2>2, <2>3, <1>w, <1>p
  <2>5. bigger_pow2(v) = Pow2[g]
    BY <2>4, <2>2, <2>1, <1>l DEF bigger_pow2
  <2>6. \A i \in 0 .. W - 1 : v <= Pow2[i] => Pow2[g] <= Pow2[i]
    BY <2>2, <2>4, <1>w, Pow2Grows
  <2> QED
    BY <2>2, <2>4, <2>5, <2>6
<1>3. ASSUME NEW v \in Limit + 1 .. Pow2[W] - 1 PROVE bigger_pow2(v) = 0
  <2>1. v \in 1 .. Pow2[W] - 1 /\ v > Limit
    BY <1>l
  <2>2. PICK g \in 0 .. W : /\ closest_pow2(v) = IF g = W THEN 0 ELSE Pow2[g]
                            /\ v <= Pow2[g]
    BY <2>1, ClosestPow2
  <2>3. g = W
    <3>1. CASE g <= W - 1
      <4>1. Pow2[g] <= Limit
        BY <3>1, <1>w, Pow2Grows DEF Limit
      <4> QED
        BY <4>1, <2>1, <2>2, <1>l, <1>p, <1>w
    <3> QED
      BY <3>1, <1>w
  <2> QED
    BY <2>1, <2>2, <2>3, <1>l DEF bigger_pow2
<1> QED
  BY <1>1, <1>2, <1>3

(***************************************************************************)
(* The program memory                                                      *)
(***************************************************************************)
Bytes == Nat \cup {Junk}

\* Where the blocks are: the one part of the inductive invariant that no property names.
Addresses ==
  /\ IsFiniteSet(DOMAIN heap)
  /\ object = "Alive" /\ m_data_size # 0 => m_data \in DOMAIN heap
  /\ object = "Alive" /\ m_data \in DOMAIN heap => Len(heap[m_data]) = m_data_size
  /\ object = "None" => /\ m_size = 0 /\ m_data_size = 0 /\ m_data = 0
                        /\ initial = 0 /\ appended = 0 /\ copied = 0
                        /\ DOMAIN heap = {}

Inv ==
  /\ TypeOK
  /\ Addresses
  /\ InsideBuffer
  /\ HoldsWhatWasAppended
  /\ NoBytesLeaked
  /\ CopiesAreLinear

-----------------------------------------------------------------------------
\* Powers of two as the functions of the buffer use them.
LEMMA Powers ==
  /\ \A i \in Nat : Pow2[i] \in Nat /\ Pow2[i] >= 1
  /\ W \in Nat /\ W >= 1 /\ W - 1 \in 0 .. W - 1
  /\ Limit \in Nat /\ Limit >= 1 /\ Limit = Pow2[W - 1] /\ Pow2[W] = 2 * Limit
  /\ \A i \in 0 .. W - 1 : Pow2[i] \in 1 .. Limit
<1>1. W \in Nat /\ W >= 1 /\ W - 1 \in Nat /\ (W - 1) + 1 = W
  BY WAssumption
<1>2. \A i \in Nat : Pow2[i] \in Nat /\ Pow2[i] >= 1
  BY Pow2Def, Pow2Grows
<1>3. Limit \in Nat /\ Limit >= 1 /\ Limit = Pow2[W - 1] /\ Pow2[W] = 2 * Limit
  BY <1>1, <1>2, Pow2Def DEF Limit
<1>4. ASSUME NEW i \in 0 .. W - 1 PROVE Pow2[i] \in 1 .. Limit
  BY <1>1, <1>2, <1>3, Pow2Grows
<1> QED
  BY <1>1, <1>2, <1>3, <1>4

\* The sizes of values and of constructed buffers.
LEMMA Sizes ==
  /\ \A n \in ValueSizes : n \in Nat /\ n >= 1 /\ n < Limit
  /\ \A n \in InitSizes : n \in Nat /\ n <= Limit
BY SizesAssumption, Powers

\* The address of a new block is none of the live ones.
LEMMA FreshIsNew ==
  ASSUME IsFiniteSet(DOMAIN heap)
  PROVE  Fresh \in Nat /\ Fresh >= 1 /\ Fresh \notin DOMAIN heap
<1> DEFINE n == Cardinality(DOMAIN heap)
<1>1. n \in Nat
  BY FS_CardinalityType
<1> HIDE DEF n
<1>2. Cardinality(1 .. n + 1) = n + 1
  BY <1>1, FS_Interval
<1>3. ~(1 .. n + 1 \subseteq DOMAIN heap)
  <2> SUFFICES ASSUME 1 .. n + 1 \subseteq DOMAIN heap PROVE FALSE
    OBVIOUS
  <2>1. 1 .. n + 1 \in SUBSET (DOMAIN heap)
    OBVIOUS
  <2>2. Cardinality(1 .. n + 1) <= n
    BY <2>1, FS_Subset DEF n
  <2> QED
    BY <1>1, <1>2, <2>2
<1>4. \E a \in 1 .. n + 1 : a \notin DOMAIN heap
  BY <1>3
<1>5. Fresh \in 1 .. n + 1 /\ Fresh \notin DOMAIN heap
  BY <1>4 DEF Fresh, n
<1> QED
  BY <1>1, <1>5

\* A block of no byte written is a sequence of bytes as long as it was asked for.
LEMMA BlockType ==
  ASSUME NEW size \in Nat
  PROVE  Block(size) \in Seq(Bytes) /\ Len(Block(size)) = size
BY DEF Block, Bytes

\* How m_size and an append's size relate to the range of size_t: the sum never wraps.
LEMMA SumInRange ==
  ASSUME Inv, object = "Alive", NEW n \in ValueSizes
  PROVE  /\ m_size \in 0 .. Limit
         /\ m_size + n \in 1 .. Pow2[W] - 1
<1>1. m_size \in Nat /\ m_data_size \in Nat /\ m_size <= m_data_size
  BY Powers DEF Inv, TypeOK, Size, InsideBuffer
<1>2. m_data_size <= Limit
  <2>1. CASE m_data_size = 0
    BY <2>1, Powers
  <2>2. CASE m_data_size # 0
    <3>1. PICK i \in 0 .. W - 1 : m_data_size = Pow2[i]
      BY <2>2 DEF Inv, InsideBuffer
    <3> QED
      BY <3>1, Powers
  <2> QED
    BY <2>1, <2>2
<1> QED
  BY <1>1, <1>2, Powers, Sizes

\* The size of the block that operator<< asks m_realloc for.
LEMMA NewSizeIs ==
  ASSUME Inv, object = "Alive", NEW n \in ValueSizes
  PROVE  NewSize(n) = bigger_pow2(m_size + n)
<1>1. m_data_size = 0 => m_size = 0
  BY Powers DEF Inv, TypeOK, Size, InsideBuffer
<1>2. n \in Nat
  BY Sizes
<1>3. m_size = 0 => m_size + n = n
  BY <1>2
<1> QED
  BY <1>1, <1>3 DEF NewSize

\* What m_realloc gets when it does not throw: a power of two with room for the data,
\* and twice the size of the buffer at least.
LEMMA NewBlock ==
  ASSUME Inv, object = "Alive", NEW n \in ValueSizes, Grows(n), m_data_size <= NewSize(n)
  PROVE  /\ NewSize(n) \in 1 .. Limit
         /\ \E i \in 0 .. W - 1 : NewSize(n) = Pow2[i]
         /\ m_size + n <= NewSize(n)
         /\ m_data_size + m_data_size <= NewSize(n)
<1>1. m_size \in Nat /\ m_data_size \in Nat /\ m_size <= m_data_size
  BY Powers DEF Inv, TypeOK, Size, InsideBuffer
<1>n. n \in Nat /\ n >= 1 /\ n < Limit
  BY Sizes
<1>2. m_size + n \in 1 .. Pow2[W] - 1
  BY SumInRange
<1>3. m_size + n <= Limit
  <2>1. CASE m_size + n > Limit
    <3>1. m_size + n \in Limit + 1 .. Pow2[W] - 1
      BY <2>1, <1>2, Powers
    <3>2. NewSize(n) = 0
      BY <3>1, NewSizeIs, BiggerPow2
    <3>3. m_data_size = 0 /\ m_size = 0
      BY <3>2, <1>1
    <3> QED
      BY <3>3, <2>1, <1>n, Powers
  <2> QED
    BY <2>1, <1>2, Powers
<1>4. PICK g \in 0 .. W - 1 : /\ NewSize(n) = Pow2[g]
                              /\ m_size + n <= Pow2[g]
  <2>1. m_size + n \in 1 .. Limit
    BY <1>2, <1>3, Powers
  <2> QED
    BY <2>1, NewSizeIs, BiggerPow2
<1>5. m_data_size < Pow2[g]
  BY <1>4, <1>1, <1>n, Powers DEF Grows
<1>6. m_data_size + m_data_size <= Pow2[g]
  <2>1. CASE m_data_size = 0
    BY <2>1, Powers
  <2>2. CASE m_data_size # 0
    <3>1. PICK i \in 0 .. W - 1 : m_data_size = Pow2[i]
      BY <2>2 DEF Inv, InsideBuffer
    <3>2. i < g
      <4>1. CASE g <= i
        <5>1. Pow2[g] <= Pow2[i]
          BY <4>1, Powers, Pow2Grows
        <5> QED
          BY <5>1, <3>1, <1>5, Powers
      <4> QED
        BY <4>1, Powers
    <3>3. 2 * Pow2[i] <= Pow2[g]
      BY <3>2, Powers, Pow2Grows
    <3> QED
      BY <3>1, <3>3, Powers
  <2> QED
    BY <2>1, <2>2
<1> QED
  BY <1>4, <1>6, Powers

-----------------------------------------------------------------------------
(***************************************************************************)
(* Steps                                                                   *)
(***************************************************************************)
\* The byte at place i of the buffer
Byte(i) == IF i <= initial THEN Junk ELSE i - initial

\* A block with room for the new bytes and the data so far, into which they are
\* stored, is the buffer again.
LEMMA Stored ==
  ASSUME Inv, object = "Alive", NEW n \in ValueSizes, NEW h, NEW a, Store(h, a, n),
         IsFiniteSet(DOMAIN h), a \in DOMAIN h,
         \A b \in DOMAIN h : h[b] \in Seq(Bytes) /\ (b # a => h[b] = <<>>),
         \A i \in 1 .. m_size : h[a][i] = Byte(i),
         m_data' = a, m_data_size' = Len(h[a]),
         m_data_size' \in 1 .. Limit,
         \E i \in 0 .. W - 1 : m_data_size' = Pow2[i],
         m_size + n <= m_data_size',
         copied' \in Nat, copied' <= m_data_size'
  PROVE  Inv'
<1>n. n \in Nat /\ n >= 1
  BY Sizes
<1>m. m_size \in Nat /\ initial \in Nat /\ initial \in Size /\ appended \in Nat
  BY Powers DEF Inv, TypeOK, Size
<1>s. m_size = initial + appended
  BY DEF Inv, HoldsWhatWasAppended
<1> DEFINE size == m_data_size'
<1>z. size \in Nat /\ size >= 1 /\ size <= Limit /\ m_size + n <= size
  BY Powers
<1>1. /\ heap' = [h EXCEPT ![a] = Written(h[a], n)]
      /\ m_size' = m_size + n /\ appended' = appended + n
      /\ thrown' = "none" /\ object' = "Alive" /\ initial' = initial
  BY DEF Store
<1>2. DOMAIN heap' = DOMAIN h /\ \A b \in DOMAIN h : b # a => heap'[b] = h[b]
  BY <1>1
<1>3. heap'[a] = Written(h[a], n)
  BY <1>1
<1>4. h[a] \in Seq(Bytes) /\ Len(h[a]) = size
  OBVIOUS
<1>5. /\ DOMAIN h[a] = 1 .. size
      /\ \A i \in 1 .. size : h[a][i] \in Bytes
  BY <1>4, SeqEntries
<1>6. heap'[a] = [i \in 1 .. size |->
                    IF i \in m_size + 1 .. m_size + n THEN appended + i - m_size ELSE h[a][i]]
  BY <1>3, <1>5 DEF Written
<1>7. heap'[a] \in Seq(Bytes) /\ Len(heap'[a]) = size
  <2>1. \A i \in 1 .. size : i \in m_size + 1 .. m_size + n => appended + i - m_size \in Bytes
    BY <1>m, <1>n DEF Bytes
  <2>2. \A i \in 1 .. size : (IF i \in m_size + 1 .. m_size + n
                              THEN appended + i - m_size ELSE h[a][i]) \in Bytes
    BY <2>1, <1>5
  <2> QED
    BY <2>2, <1>6, <1>z
<1>8. \A i \in 1 .. m_size + n : heap'[a][i] = Byte(i)
  <2> SUFFICES ASSUME NEW i \in 1 .. m_size + n PROVE heap'[a][i] = Byte(i)
    OBVIOUS
  <2>1. i \in 1 .. size
    BY <1>z, <1>m, <1>n
  <2>2. CASE i <= m_size
    BY <2>1, <2>2, <1>6, <1>m, <1>n
  <2>3. CASE i > m_size
    <3>1. heap'[a][i] = appended + i - m_size
      BY <2>1, <2>3, <1>6, <1>m, <1>n
    <3> QED
      BY <3>1, <2>3, <1>s, <1>m DEF Byte
  <2> QED
    BY <2>2, <2>3, <1>m
<1>9. TypeOK'
  <2>1. m_size' \in Size /\ m_data_size' \in Size
    <3>1. Limit \in Nat /\ Limit >= 1 /\ Pow2[W] = 2 * Limit
      BY Powers
    <3>2. Size = 0 .. 2 * Limit - 1
      BY <3>1 DEF Size
    <3> QED
      BY <1>1, <1>z, <1>m, <1>n, <3>1, <3>2
  <2>2. \A b \in DOMAIN heap' : heap'[b] \in Seq(Nat \cup {Junk})
    BY <1>2, <1>7 DEF Bytes
  <2>3. m_data' \in DOMAIN heap'
    BY <1>2
  <2>4. appended' \in Nat /\ initial' \in Size' /\ copied' \in Nat
    BY <1>1, <1>m, <1>n DEF Size
  <2> QED
    BY <2>1, <2>2, <2>3, <2>4, <1>1 DEF TypeOK, Size
<1>10. Addresses'
  BY <1>1, <1>2, <1>7 DEF Addresses
<1>11. InsideBuffer'
  BY <1>1, <1>2, <1>7, <1>z DEF InsideBuffer
<1>12. HoldsWhatWasAppended'
  BY <1>1, <1>8, <1>s, <1>m, <1>n DEF HoldsWhatWasAppended, Byte
<1>13. NoBytesLeaked'
  BY <1>1, <1>2 DEF NoBytesLeaked
<1>14. CopiesAreLinear'
  BY DEF CopiesAreLinear
<1> QED
  BY <1>9, <1>10, <1>11, <1>12, <1>13, <1>14 DEF Inv

\* operator<< into the buffer as it is
LEMMA PutStep ==
  ASSUME Inv, NEW n \in ValueSizes, Put(n)
  PROVE  Inv'
<1>1. object = "Alive" /\ ~Grows(n) /\ Store(heap, m_data, n)
  BY DEF Put
<1>n. n \in Nat /\ n >= 1
  BY Sizes
<1>m. m_size \in Nat /\ m_data_size \in Nat /\ m_size <= m_data_size
  BY <1>1, Powers DEF Inv, TypeOK, Size, InsideBuffer
<1>2. m_size + n <= m_data_size /\ m_data_size # 0
  BY <1>1, <1>n, <1>m DEF Grows
<1>3. m_data \in DOMAIN heap /\ IsFiniteSet(DOMAIN heap)
  BY <1>1, <1>2 DEF Inv, Addresses
<1>4. Len(heap[m_data]) = m_data_size /\ \E i \in 0 .. W - 1 : m_data_size = Pow2[i]
  BY <1>1, <1>2 DEF Inv, InsideBuffer
<1>5. \A b \in DOMAIN heap : heap[b] \in Seq(Bytes) /\ (b # m_data => heap[b] = <<>>)
  BY DEF Inv, TypeOK, NoBytesLeaked, Bytes
<1>6. \A i \in 1 .. m_size : heap[m_data][i] = Byte(i)
  BY <1>1 DEF Inv, HoldsWhatWasAppended, Byte
<1>7. m_data' = m_data /\ m_data_size' = m_data_size /\ copied' = copied
  BY DEF Put
<1>8. copied \in Nat /\ copied <= m_data_size
  BY <1>1 DEF Inv, TypeOK, CopiesAreLinear
<1>9. m_data_size \in 1 .. Limit
  BY <1>4, Powers
<1> QED
  BY <1>1, <1>2, <1>3, <1>4, <1>5, <1>6, <1>7, <1>8, <1>9, Stored

\* operator<< with m_realloc
LEMMA PutGrowingStep ==
  ASSUME Inv, NEW n \in ValueSizes, PutGrowing(n)
  PROVE  Inv'
<1> DEFINE size == NewSize(n)
           block == Copied(size)
           h == With(Remaining, Fresh, block)
<1>1. /\ object = "Alive" /\ Grows(n) /\ m_data_size <= size
      /\ Store(h, Fresh, n)
      /\ m_data_size' = size /\ m_data' = Fresh
      /\ copied' = IF m_data_size # 0 THEN copied + m_size ELSE copied
  BY DEF PutGrowing
<1>2. /\ size \in 1 .. Limit
      /\ \E i \in 0 .. W - 1 : size = Pow2[i]
      /\ m_size + n <= size
      /\ m_data_size + m_data_size <= size
  BY <1>1, NewBlock
<1> HIDE DEF size
<1>n. n \in Nat /\ n >= 1 /\ size \in Nat
  BY <1>2, Sizes, Powers
<1>m. m_size \in Nat /\ m_data_size \in Nat /\ m_size <= m_data_size
  BY <1>1, Powers DEF Inv, TypeOK, Size, InsideBuffer
<1>3. IsFiniteSet(DOMAIN heap)
  BY DEF Inv, Addresses
<1>4. Fresh \notin DOMAIN heap
  BY <1>3, FreshIsNew
<1>5. /\ DOMAIN Remaining \subseteq DOMAIN heap
      /\ \A b \in DOMAIN Remaining : Remaining[b] = heap[b]
      /\ m_data_size # 0 => m_data \notin DOMAIN Remaining
  BY DEF Remaining, Without
<1>6. DOMAIN h = DOMAIN Remaining \cup {Fresh}
  BY DEF With
<1>7. h[Fresh] = block /\ \A b \in DOMAIN Remaining : h[b] = heap[b]
  BY <1>4, <1>5 DEF With
<1> HIDE DEF h
<1>8. IsFiniteSet(DOMAIN h)
  <2>1. IsFiniteSet(DOMAIN Remaining)
    BY <1>3, <1>5, FS_Subset
  <2> QED
    BY <2>1, <1>6, FS_AddElement
<1>9. \A i \in 1 .. m_size : m_data_size # 0 /\ heap[m_data][i] = Byte(i)
  BY <1>1, <1>m DEF Inv, HoldsWhatWasAppended, Byte
<1>10. block \in Seq(Bytes) /\ Len(block) = size
  <2>1. block = [i \in 1 .. size |-> IF m_data_size # 0 /\ i <= m_size THEN heap[m_data][i] ELSE Junk]
    BY DEF Copied
  <2>2. \A i \in 1 .. size : (IF m_data_size # 0 /\ i <= m_size THEN heap[m_data][i] ELSE Junk) \in Bytes
    <3>1. initial \in Nat
      BY Powers DEF Inv, TypeOK, Size
    <3> QED
      BY <1>9, <1>m, <3>1 DEF Bytes, Byte
  <2> HIDE DEF block
  <2> QED
    BY <2>1, <2>2, <1>n
<1>11. \A i \in 1 .. m_size : block[i] = Byte(i)
  <2>1. \A i \in 1 .. m_size : i \in 1 .. size /\ i <= m_size
    BY <1>2, <1>n, <1>m
  <2> QED
    BY <2>1, <1>9 DEF Copied
<1> HIDE DEF block
<1>12. \A b \in DOMAIN h : h[b] \in Seq(Bytes) /\ (b # Fresh => h[b] = <<>>)
  <2> SUFFICES ASSUME NEW b \in DOMAIN h, b # Fresh PROVE h[b] \in Seq(Bytes) /\ h[b] = <<>>
    BY <1>7, <1>10
  <2>1. b \in DOMAIN Remaining /\ h[b] = heap[b] /\ b \in DOMAIN heap
    BY <1>5, <1>6, <1>7
  <2>2. heap[b] \in Seq(Bytes)
    BY <2>1 DEF Inv, TypeOK, Bytes
  <2>3. heap[b] = <<>>
    <3>1. CASE m_data_size # 0
      BY <3>1, <2>1, <1>5 DEF Inv, NoBytesLeaked
    <3>2. CASE m_data_size = 0
      <4>1. heap[b] # <<>> => b = m_data /\ Len(heap[b]) = 0
        BY <3>2, <2>1, <1>1 DEF Inv, NoBytesLeaked, Addresses
      <4> QED
        BY <4>1, <2>2
    <3> QED
      BY <3>1, <3>2
  <2> QED
    BY <2>1, <2>2, <2>3
<1>13. copied' \in Nat /\ copied' <= size
  BY <1>1, <1>2, <1>m, <1>n DEF Inv, TypeOK, CopiesAreLinear
<1> QED
  BY <1>1, <1>2, <1>6, <1>7, <1>8, <1>10, <1>11, <1>12, <1>13, Stored

\* ProgramMemory(n): a block of n bytes at least, nothing written
LEMMA ConstructStep ==
  ASSUME Inv, NEW n \in InitSizes, Construct(n)
  PROVE  Inv'
<1> DEFINE size == bigger_pow2(n)
<1>n. n \in Nat /\ n <= Limit
  BY Sizes
<1>0. /\ object = "None" /\ object' = "Alive" /\ thrown' = "none"
      /\ m_size' = n /\ initial' = n /\ m_data_size' = size /\ m_data' = Fresh
      /\ heap' = With(heap, Fresh, Block(size))
      /\ appended' = appended /\ copied' = copied
  BY DEF Construct
<1>1. /\ m_size = 0 /\ m_data_size = 0 /\ appended = 0 /\ copied = 0
      /\ DOMAIN heap = {} /\ IsFiniteSet(DOMAIN heap)
  BY <1>0 DEF Inv, Addresses
<1>2. /\ size \in 0 .. Limit /\ n <= size
      /\ size # 0 => \E i \in 0 .. W - 1 : size = Pow2[i]
  <2>1. CASE n = 0
    BY <2>1, BiggerPow2, Powers
  <2>2. CASE n # 0
    <3>1. n \in 1 .. Limit
      BY <2>2, <1>n
    <3>2. PICK g \in 0 .. W - 1 : size = Pow2[g] /\ n <= Pow2[g]
      BY <3>1, BiggerPow2
    <3> QED
      BY <3>2, Powers
  <2> QED
    BY <2>1, <2>2
<1> HIDE DEF size
<1>z. Limit \in Nat /\ Limit >= 1 /\ Size = 0 .. 2 * Limit - 1 /\ size \in Nat
  BY <1>2, Powers DEF Size
<1>3. DOMAIN heap' = {Fresh} /\ heap'[Fresh] = Block(size)
  BY <1>0, <1>1 DEF With
<1>4. Block(size) \in Seq(Bytes) /\ Len(Block(size)) = size
  BY <1>z, BlockType
<1>5. TypeOK'
  <2>1. n \in Size /\ size \in Size
    BY <1>2, <1>n, <1>z
  <2> QED
    BY <2>1, <1>0, <1>1, <1>3, <1>4 DEF TypeOK, Size, Bytes
<1>6. Addresses'
  <2>1. IsFiniteSet({Fresh})
    BY FS_Singleton
  <2> QED
    BY <2>1, <1>0, <1>3, <1>4 DEF Addresses
<1>7. InsideBuffer'
  BY <1>0, <1>2, <1>3, <1>4 DEF InsideBuffer
<1>8. HoldsWhatWasAppended'
  <2>1. \A i \in 1 .. n : Block(size)[i] = Junk
    BY <1>2, <1>n, <1>z DEF Block
  <2> QED
    BY <2>1, <1>0, <1>1, <1>3, <1>n DEF HoldsWhatWasAppended
<1>9. NoBytesLeaked'
  BY <1>0, <1>3 DEF NoBytesLeaked
<1>10. CopiesAreLinear'
  BY <1>0, <1>1, <1>z DEF CopiesAreLinear
<1> QED
  BY <1>5, <1>6, <1>7, <1>8, <1>9, <1>10 DEF Inv

\* ProgramMemory()
LEMMA ConstructDefaultStep ==
  ASSUME Inv, ConstructDefault
  PROVE  Inv'
<1>1. /\ object = "None" /\ object' = "Alive" /\ thrown' = "none"
      /\ m_size' = 0 /\ m_data_size' = 0 /\ m_data' = 0 /\ heap' = heap
      /\ initial' = 0 /\ appended' = 0 /\ copied' = 0 /\ DOMAIN heap = {}
      /\ IsFiniteSet(DOMAIN heap)
  BY DEF Inv, Addresses, ConstructDefault
<1>2. 0 \in Size /\ 0 <= 0
  BY Powers DEF Size
<1>3. TypeOK'
  BY <1>1, <1>2 DEF TypeOK, Size
<1>4. Addresses' /\ NoBytesLeaked'
  BY <1>1 DEF Addresses, NoBytesLeaked
<1>5. InsideBuffer' /\ HoldsWhatWasAppended' /\ CopiesAreLinear'
  BY <1>1 DEF InsideBuffer, HoldsWhatWasAppended, CopiesAreLinear
<1> QED
  BY <1>3, <1>4, <1>5 DEF Inv

\* ~ProgramMemory()
LEMMA DestroyStep ==
  ASSUME Inv, Destroy
  PROVE  Inv'
<1>1. /\ object = "Alive" /\ object' = "Gone" /\ thrown' = "none"
      /\ m_data' = m_data /\ initial' = initial /\ appended' = appended /\ copied' = copied
  BY DEF Destroy
<1>2. /\ DOMAIN heap' \subseteq DOMAIN heap
      /\ \A a \in DOMAIN heap' : heap'[a] = heap[a]
      /\ m_data_size # 0 => m_data \notin DOMAIN heap'
  BY DEF Destroy, Without
<1>3. m_size' \in Size /\ m_data_size' \in Size
  BY Powers DEF Destroy, Inv, TypeOK, Size
<1>4. TypeOK'
  BY <1>1, <1>2, <1>3 DEF Inv, TypeOK, Size
<1>5. Addresses'
  <2>1. IsFiniteSet(DOMAIN heap')
    BY <1>2, FS_Subset DEF Inv, Addresses
  <2> QED
    BY <2>1, <1>1 DEF Addresses
<1>6. NoBytesLeaked'
  <2> SUFFICES ASSUME NEW a \in DOMAIN heap' PROVE heap[a] = <<>>
    BY <1>1, <1>2 DEF NoBytesLeaked
  <2>1. a \in DOMAIN heap /\ heap[a] \in Seq(Bytes)
    BY <1>2 DEF Inv, TypeOK, Bytes
  <2>2. heap[a] # <<>> => a = m_data /\ m_data_size = 0 /\ Len(heap[a]) = m_data_size
    BY <2>1, <1>1, <1>2 DEF Inv, NoBytesLeaked, Addresses
  <2> QED
    BY <2>1, <2>2
<1>7. InsideBuffer' /\ HoldsWhatWasAppended' /\ CopiesAreLinear'
  BY <1>1 DEF InsideBuffer, HoldsWhatWasAppended, CopiesAreLinear
<1> QED
  BY <1>4, <1>5, <1>6, <1>7 DEF Inv

\* An exception changes nothing else.
LEMMA ThrowStep ==
  ASSUME Inv, NEW what \in {"0", "bad_alloc"}, Throw(what)
  PROVE  Inv'
BY DEF Inv, TypeOK, Size, Addresses, InsideBuffer, HoldsWhatWasAppended, NoBytesLeaked,
       CopiesAreLinear, Throw

\* The inductive invariant of the buffer: every constructor, append and the destructor
\* keep it.
LEMMA Invariant == Spec => []Inv
<1>1. Init => Inv
  <2> SUFFICES ASSUME Init PROVE Inv
    OBVIOUS
  <2>1. 0 \in Size
    BY Powers DEF Size
  <2>2. DOMAIN heap = {} /\ IsFiniteSet({})
    BY FS_EmptySet DEF Init
  <2> QED
    BY <2>1, <2>2 DEF Init, Inv, TypeOK, Addresses, InsideBuffer, HoldsWhatWasAppended,
                      NoBytesLeaked, CopiesAreLinear
<1>2. Inv /\ [Next]_vars => Inv'
  <2> SUFFICES ASSUME Inv, [Next]_vars PROVE Inv'
    OBVIOUS
  <2>1. CASE ConstructDefault
    BY <2>1, ConstructDefaultStep
  <2>2. CASE \E n \in InitSizes : Construct(n)
    BY <2>2, ConstructStep
  <2>3. CASE \E n \in ValueSizes : Put(n)
    BY <2>3, PutStep
  <2>4. CASE \E n \in ValueSizes : PutGrowing(n)
    BY <2>4, PutGrowingStep
  <2>5. CASE \E n \in ValueSizes : PutThrows(n)
    BY <2>5, ThrowStep DEF PutThrows
  <2>6. CASE OutOfMemory
    BY <2>6, ThrowStep DEF OutOfMemory
  <2>7. CASE Destroy
    BY <2>7, DestroyStep
  <2>8. CASE UNCHANGED vars
    BY <2>8 DEF vars, Inv, TypeOK, Size, Addresses, InsideBuffer, HoldsWhatWasAppended,
                NoBytesLeaked, CopiesAreLinear
  <2>9. CASE Terminated
    BY <2>8, <2>9 DEF Terminated
  <2> QED
    BY <2>1, <2>2, <2>3, <2>4, <2>5, <2>6, <2>7, <2>8, <2>9 DEF Next
<1> QED
  BY <1>1, <1>2, PTL DEF Spec

-----------------------------------------------------------------------------
(***************************************************************************)
(* Theorems                                                                *)
(***************************************************************************)
\* Type correctness of the buffer and the heap.
THEOREM BufferTypes == Spec => []TypeOK
BY Invariant, PTL DEF Inv

\* The buffer is the block m_data_size says it is, a power of two, with room for the
\* data: operator<< and the reader of get_data() stay inside it.
THEOREM StaysInside == Spec => []InsideBuffer
BY Invariant, PTL DEF Inv

\* What operator<< appended is in the buffer, in order and once, however often the
\* buffer moved and whichever append threw.
THEOREM KeepsTheData == Spec => []HoldsWhatWasAppended
BY Invariant, PTL DEF Inv

\* Whatever bytes m_realloc allocates are freed with the object.
THEOREM FreesItsMemory == Spec => []NoBytesLeaked
BY Invariant, PTL DEF Inv

\* All the copies of m_realloc together are no more bytes than the buffer has.
THEOREM CopiesBounded == Spec => []CopiesAreLinear
BY Invariant, PTL DEF Inv

\* operator<< asks m_realloc for the least power of two for the data, and for 0, which
\* m_realloc refuses, when there is none.
THEOREM GrowthExact == Spec => []GrowsToLeastPowerOfTwo
<1>1. Inv => GrowsToLeastPowerOfTwo
  <2> SUFFICES ASSUME Inv, object = "Alive", NEW n \in ValueSizes
               PROVE  LET powers == {p \in {Pow2[i] : i \in 0 .. W - 1} : p >= m_size + n}
                      IN  NewSize(n) = IF powers = {} THEN 0 ELSE Min(powers)
    BY DEF GrowsToLeastPowerOfTwo
  <2> DEFINE v == m_size + n
             powers == {p \in {Pow2[i] : i \in 0 .. W - 1} : p >= v}
  <2>1. v \in 1 .. Pow2[W] - 1 /\ NewSize(n) = bigger_pow2(v)
    BY SumInRange, NewSizeIs
  <2> HIDE DEF v
  <2>2. CASE v <= Limit
    <3>1. v \in 1 .. Limit
      BY <2>1, <2>2, Powers
    <3>2. PICK g \in 0 .. W - 1 : /\ bigger_pow2(v) = Pow2[g]
                                  /\ v <= Pow2[g]
                                  /\ \A i \in 0 .. W - 1 : v <= Pow2[i] => Pow2[g] <= Pow2[i]
      BY <3>1, BiggerPow2
    <3>3. Pow2[g] \in powers /\ \A p \in powers : Pow2[g] <= p
      BY <3>1, <3>2, Powers
    <3>4. powers \subseteq Nat
      BY Powers
    <3> HIDE DEF powers
    <3>5. Min(powers) = Pow2[g]
      <4>1. Min(powers) \in powers /\ \A p \in powers : Min(powers) <= p
        BY <3>3 DEF Min
      <4>2. Min(powers) <= Pow2[g] /\ Pow2[g] <= Min(powers)
        BY <4>1, <3>3
      <4>3. Min(powers) \in Nat /\ Pow2[g] \in Nat
        BY <4>1, <3>3, <3>4
      <4> QED
        BY <4>2, <4>3
    <3>6. powers # {}
      BY <3>3
    <3> QED
      BY <2>1, <3>2, <3>5, <3>6 DEF v, powers
  <2>3. CASE v > Limit
    <3>1. v \in Limit + 1 .. Pow2[W] - 1
      BY <2>1, <2>3, Powers
    <3>2. bigger_pow2(v) = 0
      BY <3>1, BiggerPow2
    <3>3. powers = {}
      BY <2>1, <2>3, Powers
    <3> QED
      BY <2>1, <3>2, <3>3 DEF v
  <2> QED
    BY <2>1, <2>2, <2>3, Powers
<1> QED
  BY <1>1, Invariant, PTL

\* m_realloc throws only when the data would be more than half of what a size_t can
\* count.
THEOREM ThrowsAtLimit == Spec => ThrowsOnlyAtLimit
<1>1. Inv => \A n \in ValueSizes : PutThrows(n) => m_size + n > Limit
  <2> SUFFICES ASSUME Inv, NEW n \in ValueSizes, object = "Alive", Grows(n),
                      m_data_size > NewSize(n), m_size + n <= Limit
               PROVE  FALSE
    <3>1. Inv => m_size \in Nat /\ \A k \in ValueSizes : k \in Nat
      BY Powers, Sizes DEF Inv, TypeOK, Size
    <3> QED
      BY <3>1, Powers DEF PutThrows
  <2>1. m_size + n \in 1 .. Limit
    BY SumInRange, Powers
  <2>2. PICK g \in 0 .. W - 1 : NewSize(n) = Pow2[g] /\ m_size + n <= Pow2[g]
    BY <2>1, NewSizeIs, BiggerPow2
  <2>3. m_data_size \in Nat /\ m_data_size # 0
    BY <2>2, Powers DEF Inv, TypeOK, Size
  <2>4. PICK i \in 0 .. W - 1 : m_data_size = Pow2[i]
    BY <2>3 DEF Inv, InsideBuffer
  <2>5. m_data_size < m_size + n
    BY <2>1, <2>3 DEF Grows
  <2> QED
    BY <2>1, <2>2, <2>3, <2>5, Powers
<1>2. Inv /\ [Next]_vars =>
        [\A n \in ValueSizes : PutThrows(n) => m_size + n > Limit]_vars
  BY <1>1
<1> QED
  BY <1>2, Invariant, PTL DEF Spec, ThrowsOnlyAtLimit
==============================================================================
