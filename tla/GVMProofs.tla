------------------------------ MODULE GVMProofs ------------------------------
(***************************************************************************)
(* Proofs about GVM, for programs of any length and all sizes of words and *)
(* memory: the types, and that execute_program() implements Machine.       *)
(*                                                                         *)
(* The layout of a program is a function of it, so the place in the        *)
(* program can be had from curr_instr: instructions begin at offsets that  *)
(* grow.  At each of them the interpreter finds the opcode, and so the     *)
(* case, and the arguments that were assembled there.                      *)
(***************************************************************************)
EXTENDS GVM, BasicFacts

-----------------------------------------------------------------------------
(***************************************************************************)
(* Recursive definitions                                                   *)
(***************************************************************************)
\* The functions given by their value at 0 and by a step from each value to the next
Iterates(S, base, step) ==
  {g \in [Nat -> S] : g[0] = base /\ \A n \in Nat : g[n + 1] = step[n][g[n]]}

\* There is one, whatever the step: what recursive definitions need.
LEMMA Iteration ==
  ASSUME NEW S, NEW base \in S, NEW step \in [Nat -> [S -> S]]
  PROVE  \E g : g \in Iterates(S, base, step)
<1> DEFINE Row(n) == {g \in [0 .. n -> S] : g[0] = base /\ \A i \in 0 .. n - 1 : g[i + 1] = step[i][g[i]]}
           T == {n \in Nat : Row(n) # {}}
<1>1. 0 \in T
  <2>1. [i \in 0 .. 0 |-> base] \in Row(0)
    OBVIOUS
  <2> QED BY <2>1
<1>2. ASSUME NEW n \in Nat, n \in T PROVE n + 1 \in T
  <2>1. PICK g : g \in Row(n)
    BY <1>2
  <2> DEFINE h == [i \in 0 .. n + 1 |-> IF i = n + 1 THEN step[n][g[n]] ELSE g[i]]
  <2>2. g \in [0 .. n -> S] /\ g[0] = base /\ \A i \in 0 .. n - 1 : g[i + 1] = step[i][g[i]]
    BY <2>1
  <2>3. step[n][g[n]] \in S
    BY <2>2
  <2>4. h \in [0 .. n + 1 -> S] /\ h[0] = base
    BY <2>2, <2>3
  <2>5. ASSUME NEW i \in 0 .. n PROVE h[i + 1] = step[i][h[i]]
    <3>1. h[i] = g[i]
      OBVIOUS
    <3>2. CASE i = n
      BY <3>1, <3>2
    <3>3. CASE i # n
      <4>1. i \in 0 .. n - 1 /\ i + 1 # n + 1 /\ i + 1 \in 0 .. n + 1
        BY <3>3
      <4>2. h[i + 1] = g[i + 1]
        BY <4>1
      <4> QED BY <2>2, <3>1, <4>1, <4>2
    <3> QED BY <3>2, <3>3
  <2> HIDE DEF h
  <2>6. (n + 1) - 1 = n
    OBVIOUS
  <2>7. h \in Row(n + 1)
    BY <2>4, <2>5, <2>6
  <2> QED BY <2>7
<1> HIDE DEF T
<1>3. \A n \in Nat : Row(n) # {}
  <2>1. Nat \subseteq T
    BY <1>1, <1>2, SetInduction
  <2> QED BY <2>1 DEF T
<1>4. ASSUME NEW m \in Nat, NEW n \in Nat, NEW g \in Row(m), NEW h \in Row(n)
      PROVE  \A i \in Nat : i <= m /\ i <= n => g[i] = h[i]
  <2> DEFINE U == {i \in Nat : i <= m /\ i <= n => g[i] = h[i]}
  <2>1. 0 \in U
    OBVIOUS
  <2>2. ASSUME NEW i \in Nat, i \in U PROVE i + 1 \in U
    <3> SUFFICES ASSUME i + 1 <= m, i + 1 <= n PROVE g[i + 1] = h[i + 1]
      OBVIOUS
    <3>1. i \in 0 .. m - 1 /\ i \in 0 .. n - 1 /\ g[i] = h[i]
      BY <2>2
    <3> QED BY <3>1
  <2> HIDE DEF U
  <2>3. Nat \subseteq U
    BY <2>1, <2>2, SetInduction
  <2> QED BY <2>3 DEF U
<1>r. \A n \in Nat : \A g \in Row(n) : 
        g \in [0 .. n -> S] /\ g[0] = base /\ \A i \in 0 .. n - 1 : g[i + 1] = step[i][g[i]]
  OBVIOUS
<1> HIDE DEF Row
<1> DEFINE row(n) == CHOOSE g : g \in Row(n)
           P == [n \in Nat |-> row(n)[n]]
<1>5. \A n \in Nat : row(n) \in Row(n)
  BY <1>3
<1> HIDE DEF row
<1>6. \A n \in Nat : P[n] \in S
  BY <1>5, <1>r
<1>7. P[0] = base
  BY <1>5, <1>r
<1>8. ASSUME NEW n \in Nat PROVE P[n + 1] = step[n][P[n]]
  <2>1. row(n) \in Row(n) /\ row(n + 1) \in Row(n + 1) /\ n + 1 \in Nat
    BY <1>5
  <2>2. row(n + 1)[n + 1] = step[n][row(n + 1)[n]]
    <3>1. n \in 0 .. (n + 1) - 1
      OBVIOUS
    <3> QED BY <1>r, <2>1, <3>1
  <2>3. row(n + 1)[n] = row(n)[n]
    BY <2>1, <1>4
  <2> QED BY <2>2, <2>3
<1> HIDE DEF P
<1>9. P \in [Nat -> S]
  BY <1>6 DEF P
<1>10. P \in Iterates(S, base, step)
  BY <1>7, <1>8, <1>9 DEF Iterates
<1> QED BY <1>10

-----------------------------------------------------------------------------
(***************************************************************************)
(* Words                                                                   *)
(***************************************************************************)
\* Pow256 is a function: the powers of 256.
LEMMA Pow256Def ==
  /\ Pow256[0] = 1
  /\ \A k \in Nat : Pow256[k] \in Nat /\ Pow256[k] > 0 /\ Pow256[k + 1] = 256 * Pow256[k]
<1> DEFINE F(g) == [k \in Nat |-> IF k = 0 THEN 1 ELSE 256 * g[k - 1]]
           step == [k \in Nat |-> [n \in Nat |-> 256 * n]]
<1>1. PICK g : g \in Iterates(Nat, 1, step)
  <2>1. step \in [Nat -> [Nat -> Nat]] /\ 1 \in Nat
    OBVIOUS
  <2> HIDE DEF step
  <2> QED BY <2>1, Iteration, Zenon
<1>2. g[0] = 1 /\ g \in [Nat -> Nat] /\ \A n \in Nat : g[n + 1] = 256 * g[n]
  BY <1>1 DEF Iterates
<1>3. g = F(g)
  <2>1. \A k \in Nat : k # 0 => k - 1 \in Nat /\ g[k] = 256 * g[k - 1]
    <3>1. \A k \in Nat : k # 0 => k - 1 \in Nat /\ (k - 1) + 1 = k
      OBVIOUS
    <3> QED BY <1>2, <3>1
  <2> QED BY <1>2, <2>1
<1>4. Pow256 = CHOOSE f : f = F(f)
  BY DEF Pow256
<1>5. Pow256 = F(Pow256)
  BY <1>3, <1>4
<1>6. \A k \in Nat : Pow256[k] = IF k = 0 THEN 1 ELSE 256 * Pow256[k - 1]
  BY <1>5
<1>7. \A k \in Nat : Pow256[k + 1] = 256 * Pow256[k]
  BY <1>6
<1> DEFINE T == {k \in Nat : Pow256[k] \in Nat /\ Pow256[k] > 0}
<1>8. 0 \in T
  BY <1>6
<1>9. ASSUME NEW k \in Nat, k \in T PROVE k + 1 \in T
  BY <1>7, <1>9
<1> HIDE DEF T
<1>10. Nat \subseteq T
  BY <1>8, <1>9, SetInduction
<1> QED
  BY <1>6, <1>7, <1>10 DEF T

\* The value of the first k bytes of a word
Low(bytes, low) ==
  /\ low \in [0 .. Len(bytes) -> Nat]
  /\ low[0] = 0
  /\ \A k \in 1 .. Len(bytes) : low[k] = low[k - 1] + bytes[k] * Pow256[k - 1]

\* Unsigned adds the bytes up, each by the power of its place.
LEMMA UnsignedLow ==
  ASSUME NEW bytes \in Seq(Byte)
  PROVE  \E low : Low(bytes, low) /\ Unsigned(bytes) = low[Len(bytes)]
<1> DEFINE n == Len(bytes)
           F(low) == [k \in 0 .. n |-> IF k = 0 THEN 0 ELSE low[k - 1] + bytes[k] * Pow256[k - 1]]
           low == CHOOSE low : low = F(low)
           term == [k \in Nat |-> IF k + 1 \in 1 .. n THEN bytes[k + 1] * Pow256[k] ELSE 0]
           step == [k \in Nat |-> [v \in Nat |-> v + term[k]]]
<1>1. n \in Nat /\ \A k \in 1 .. n : bytes[k] \in Nat
  <2>1. n \in Nat
    BY LenProperties
  <2>2. \A k \in 1 .. n : bytes[k] \in Byte
    BY SeqEntries, Zenon
  <2>3. Byte \subseteq Nat
    BY DEF Byte
  <2> HIDE DEF n
  <2> QED BY <2>1, <2>2, <2>3
<1>2. Unsigned(bytes) = low[n]
  BY DEF Unsigned
<1> HIDE DEF n
<1>3. \A k \in Nat : term[k] \in Nat
  <2> TAKE k \in Nat
  <2>1. CASE k + 1 \in 1 .. n
    <3>1. bytes[k + 1] \in Nat /\ Pow256[k] \in Nat
      BY <1>1, <2>1, Pow256Def
    <3>2. \A a, b \in Nat : a * b \in Nat
      OBVIOUS
    <3> QED BY <2>1, <3>1, <3>2
  <2> QED BY <2>1
<1>t. \A k \in 1 .. n : k - 1 \in Nat /\ (k - 1) + 1 = k /\ term[k - 1] = bytes[k] * Pow256[k - 1]
  BY <1>1
<1> HIDE DEF term
<1>4. PICK g : g \in Iterates(Nat, 0, step)
  <2>1. step \in [Nat -> [Nat -> Nat]] /\ 0 \in Nat
    BY <1>3
  <2> HIDE DEF step
  <2> QED BY <2>1, Iteration, Zenon
<1>5. g[0] = 0 /\ g \in [Nat -> Nat] /\ \A k \in Nat : g[k + 1] = g[k] + term[k]
  BY <1>4 DEF Iterates
<1> DEFINE h == [k \in 0 .. n |-> g[k]]
<1>6. h = F(h)
  <2>1. ASSUME NEW k \in 1 .. n PROVE g[k] = g[k - 1] + bytes[k] * Pow256[k - 1]
    BY <1>1, <1>5, <1>t
  <2>2. \A k \in 0 .. n : k # 0 => k \in 1 .. n /\ h[k - 1] = g[k - 1]
    BY <1>1
  <2> QED BY <1>5, <2>1, <2>2
<1> HIDE DEF h
<1>7. low = F(low)
  BY <1>6
<1> HIDE DEF low
<1>8. low[0] = 0 /\ \A k \in 1 .. n : low[k] = low[k - 1] + bytes[k] * Pow256[k - 1]
  <2>1. \A k \in 0 .. n : low[k] = IF k = 0 THEN 0 ELSE low[k - 1] + bytes[k] * Pow256[k - 1]
    BY <1>7
  <2>2. 0 \in 0 .. n /\ \A k \in 1 .. n : k \in 0 .. n /\ k # 0
    BY <1>1
  <2> QED BY <2>1, <2>2
<1>9. \A k \in 0 .. n : low[k] \in Nat
  <2> DEFINE T == {k \in Nat : k <= n => low[k] \in Nat}
  <2>1. 0 \in T
    BY <1>8
  <2>2. ASSUME NEW k \in Nat, k \in T PROVE k + 1 \in T
    <3> SUFFICES ASSUME k + 1 <= n PROVE low[k + 1] \in Nat
      OBVIOUS
    <3>1. k + 1 \in 1 .. n /\ low[k] \in Nat /\ (k + 1) - 1 = k
      BY <1>1, <2>2
    <3>2. low[k + 1] = low[k] + term[k]
      BY <1>8, <1>t, <3>1
    <3>3. term[k] \in Nat /\ \A a, b \in Nat : a + b \in Nat
      BY <1>3
    <3> QED BY <3>1, <3>2, <3>3
  <2> HIDE DEF T
  <2>3. Nat \subseteq T
    BY <2>1, <2>2, SetInduction
  <2> QED BY <1>1, <2>3 DEF T
<1>10. low = [k \in 0 .. n |-> low[k]]
  BY <1>7
<1>11. low \in [0 .. n -> Nat]
  BY <1>9, <1>10
<1>12. Low(bytes, low)
  BY <1>8, <1>11 DEF Low, n
<1> QED
  BY <1>2, <1>12 DEF n

\* A set of numbers that has one has a least one.
LEMMA LeastExists ==
  ASSUME NEW S, S \subseteq Nat, S # {}
  PROVE  \E n \in S : \A k \in S : n <= k
<1> SUFFICES ASSUME \A n \in S : \E k \in S : k < n PROVE FALSE
  OBVIOUS
<1> DEFINE T == {n \in Nat : \A k \in S : n <= k}
<1>1. 0 \in T
  OBVIOUS
<1>2. ASSUME NEW n \in Nat, n \in T PROVE n + 1 \in T
  <2>1. n \notin S
    BY <1>2
  <2> QED BY <1>2, <2>1
<1> HIDE DEF T
<1>3. Nat \subseteq T
  BY <1>1, <1>2, SetInduction
<1>4. PICK m : m \in S
  OBVIOUS
<1>5. m + 1 \in T
  BY <1>3, <1>4
<1> QED BY <1>4, <1>5 DEF T

\* A word is as long as it should be, whatever number it holds.
LEMMA WordType ==
  ASSUME NEW n \in Int, NEW size \in Nat
  PROVE  Word(n, size) \in Seq(Byte) /\ Len(Word(n, size)) = size
<1>1. \A i \in 1 .. size : (n \div Pow256[i - 1]) % 256 \in Byte
  <2> TAKE i \in 1 .. size
  <2>1. Pow256[i - 1] \in Nat /\ Pow256[i - 1] > 0
    BY Pow256Def
  <2>2. n \div Pow256[i - 1] \in Int
    BY <2>1
  <2> QED BY <2>2 DEF Byte
<1>2. Word(n, size) \in [1 .. size -> Byte]
  BY <1>1 DEF Word
<1> HIDE DEF Word
<1> QED BY <1>2

\* The value of a word, in the range of its size
LEMMA UnsignedRange ==
  ASSUME NEW bytes \in Seq(Byte)
  PROVE  Unsigned(bytes) \in Nat /\ Unsigned(bytes) < Pow256[Len(bytes)]
<1> DEFINE n == Len(bytes)
<1>1. PICK low : Low(bytes, low) /\ Unsigned(bytes) = low[n]
  BY UnsignedLow
<1>2. n \in Nat /\ \A k \in 1 .. n : bytes[k] \in 0 .. 255
  <2>1. n \in Nat
    BY LenProperties
  <2>2. \A k \in 1 .. n : bytes[k] \in Byte
    BY SeqEntries, Zenon
  <2> QED BY <2>1, <2>2 DEF Byte
<1>3. /\ low \in [0 .. n -> Nat] /\ low[0] = 0
      /\ \A k \in 1 .. n : low[k] = low[k - 1] + bytes[k] * Pow256[k - 1]
  BY <1>1 DEF Low
<1> HIDE DEF n
<1> DEFINE T == {k \in Nat : k <= n => low[k] < Pow256[k]}
<1>4. 0 \in T
  BY <1>3, Pow256Def
<1>5. ASSUME NEW k \in Nat, k \in T PROVE k + 1 \in T
  <2> SUFFICES ASSUME k + 1 <= n PROVE low[k + 1] < Pow256[k + 1]
    OBVIOUS
  <2>1. k + 1 \in 1 .. n /\ (k + 1) - 1 = k /\ low[k] < Pow256[k]
    BY <1>2, <1>5
  <2>2. low[k + 1] = low[k] + bytes[k + 1] * Pow256[k] /\ bytes[k + 1] \in 0 .. 255
    BY <1>2, <1>3, <2>1
  <2>3. Pow256[k] \in Nat /\ Pow256[k + 1] = 256 * Pow256[k] /\ low[k] \in Nat
    <3>1. k \in 0 .. n
      BY <1>2
    <3> QED BY <1>3, <3>1, Pow256Def
  <2>4. \A p, l \in Nat : \A b \in 0 .. 255 : l < p => l + b * p < 256 * p
    <3> SUFFICES ASSUME NEW p \in Nat, NEW l \in Nat, NEW b \in 0 .. 255, l < p
                 PROVE  l + b * p < 256 * p
      OBVIOUS
    <3>1. b * p <= 255 * p
      OBVIOUS
    <3> QED BY <3>1
  <2> QED BY <2>1, <2>2, <2>3, <2>4
<1> HIDE DEF T
<1>6. Nat \subseteq T
  BY <1>4, <1>5, SetInduction
<1>7. low[n] < Pow256[n] /\ low[n] \in Nat
  BY <1>2, <1>3, <1>6 DEF T
<1> QED BY <1>1, <1>7 DEF n

\* The digit at a place, and what is left of a number below the next place
LEMMA Digit ==
  ASSUME NEW n \in Nat, NEW p \in Nat, p > 0
  PROVE  n % (256 * p) = (n % p) + ((n \div p) % 256) * p
<1> DEFINE q == n \div p
           r == n % p
           q2 == q \div 256
           b == q % 256
<1>1. q \in Nat /\ r \in 0 .. p - 1 /\ n = p * q + r
  BY Z3
<1> HIDE DEF q, r
<1>2. q2 \in Nat /\ b \in 0 .. 255 /\ q = 256 * q2 + b
  BY <1>1
<1> HIDE DEF q2, b
<1>3. n = (256 * p) * q2 + (b * p + r)
  <2>1. p * (256 * q2 + b) = (256 * p) * q2 + b * p
    BY <1>2
  <2> QED BY <1>1, <1>2, <2>1
<1>4. b * p + r \in 0 .. 256 * p - 1
  <2>1. b * p <= 255 * p /\ b * p \in Nat
    BY <1>2
  <2> QED BY <1>1, <2>1
<1>5. \A m, a, c \in Nat : \A d \in 0 .. m - 1 : a = m * c + d => a % m = d
  BY Z3
<1>6. 256 * p \in Nat
  OBVIOUS
<1>7. n % (256 * p) = b * p + r
  BY <1>2, <1>3, <1>4, <1>5, <1>6
<1> QED BY <1>1, <1>2, <1>7 DEF q, r, q2, b

\* A number that fits a word is read as it was written.
LEMMA UnsignedWord ==
  ASSUME NEW size \in Nat, NEW n \in Nat, n < Pow256[size]
  PROVE  Unsigned(Word(n, size)) = n
<1> DEFINE w == Word(n, size)
<1>1. w \in Seq(Byte) /\ Len(w) = size /\ \A k \in 1 .. size : w[k] = (n \div Pow256[k - 1]) % 256
  <2>1. w \in Seq(Byte) /\ Len(w) = size
    BY WordType
  <2> QED BY <2>1 DEF Word
<1> HIDE DEF w
<1>2. PICK low : Low(w, low) /\ Unsigned(w) = low[Len(w)]
  BY <1>1, UnsignedLow
<1>3. /\ low \in [0 .. size -> Nat] /\ low[0] = 0
      /\ \A k \in 1 .. size : low[k] = low[k - 1] + w[k] * Pow256[k - 1]
  BY <1>1, <1>2 DEF Low
<1> DEFINE T == {k \in Nat : k <= size => low[k] = n % Pow256[k]}
<1>4. 0 \in T
  <2>1. n % 1 = 0
    OBVIOUS
  <2> QED BY <1>3, <2>1, Pow256Def
<1>5. ASSUME NEW k \in Nat, k \in T PROVE k + 1 \in T
  <2> SUFFICES ASSUME k + 1 <= size PROVE low[k + 1] = n % Pow256[k + 1]
    OBVIOUS
  <2>1. k + 1 \in 1 .. size /\ (k + 1) - 1 = k /\ low[k] = n % Pow256[k]
    BY <1>5
  <2>2. low[k + 1] = (n % Pow256[k]) + ((n \div Pow256[k]) % 256) * Pow256[k]
    BY <1>1, <1>3, <2>1
  <2>3. Pow256[k] \in Nat /\ Pow256[k] > 0 /\ Pow256[k + 1] = 256 * Pow256[k]
    BY Pow256Def
  <2> QED BY <2>2, <2>3, Digit
<1> HIDE DEF T
<1>6. Nat \subseteq T
  BY <1>4, <1>5, SetInduction
<1>7. low[size] = n % Pow256[size]
  BY <1>6 DEF T
<1>8. Pow256[size] \in Nat /\ Pow256[size] > 0
  BY Pow256Def
<1>9. n % Pow256[size] = n
  BY <1>8, Z3
<1> QED BY <1>1, <1>2, <1>7, <1>9 DEF w

\* A signed word is a number; a signed byte one of 256.
LEMMA SignedRange ==
  ASSUME NEW bytes \in Seq(Byte)
  PROVE  Signed(bytes) \in Int /\ (Len(bytes) = 1 => Signed(bytes) \in -128 .. 127)
<1>1. Unsigned(bytes) \in Nat /\ Unsigned(bytes) < Pow256[Len(bytes)] /\ Len(bytes) \in Nat
  BY UnsignedRange, LenProperties
<1> DEFINE n == Unsigned(bytes)
           p == Pow256[Len(bytes)]
<1>2. p \in Nat /\ n \in Nat /\ n < p
  BY <1>1, Pow256Def
<1>3. Signed(bytes) = IF 2 * n >= p THEN n - p ELSE n
  BY DEF Signed
<1>4. Len(bytes) = 1 => p = 256
  <2>1. 0 \in Nat /\ 0 + 1 = 1
    OBVIOUS
  <2>2. Pow256[1] = 256 * 1
    BY <2>1, Pow256Def
  <2> QED BY <2>2
<1> HIDE DEF n, p
<1> QED BY <1>2, <1>3, <1>4

-----------------------------------------------------------------------------
(***************************************************************************)
(* Arithmetic                                                              *)
(***************************************************************************)
\* What is left open of float arithmetic still makes floats of floats.
FloatsAreFloats ==
  \A op \in {"ADD", "SUB", "MUL", "DIV"} : \A a, b \in Seq(Byte) :
    Len(a) = FloatSize /\ Len(b) = FloatSize =>
      FloatArith(op, a, b) \in Seq(Byte) /\ Len(FloatArith(op, a, b)) = FloatSize

\* The sizes of the operands
LEMMA Sizes ==
  /\ AddrSize \in Nat \ {0} /\ IntSize \in Nat \ {0} /\ FloatSize \in Nat \ {0}
  /\ SizeOf["float"] = FloatSize /\ SizeOf["int"] = IntSize /\ SizeOf["char"] = 1
  /\ \A m \in ImplementedMath : SizeOf[m[2]] \in Nat \ {0}
<1>1. /\ AddrSize \in Nat \ {0} /\ IntSize \in Nat \ {0} /\ FloatSize \in Nat \ {0}
      /\ SizeOf["float"] = FloatSize /\ SizeOf["int"] = IntSize /\ SizeOf["char"] = 1
  BY WordSizesAssumption DEF SizeOf
<1>2. \A m \in ImplementedMath : m[2] \in {"float", "int", "char"}
  BY DEF ImplementedMath
<1> QED BY <1>1, <1>2

\* Where it is defined, an operation makes an operand of its type.
LEMMA ResultType ==
  ASSUME FloatsAreFloats,
         NEW m \in ImplementedMath, NEW a \in Seq(Byte), NEW b \in Seq(Byte),
         Len(a) = SizeOf[m[2]], Len(b) = SizeOf[m[2]],
         ~IsUndefined(m[1], m[2], a, b)
  PROVE  /\ Result(m[1], m[2], a, b) \in Seq(Byte)
         /\ Len(Result(m[1], m[2], a, b)) = SizeOf[m[2]]
<1>1. /\ m[1] \in {"ADD", "SUB", "MUL", "DIV", "MOD"} /\ m[2] \in {"float", "int", "char"}
      /\ m[2] = "float" => m[1] # "MOD"
  BY DEF ImplementedMath
<1>2. CASE m[2] = "float"
  BY <1>1, <1>2, Sizes DEF Result, FloatsAreFloats
<1>3. CASE m[2] # "float"
  <2>1. Signed(a) \in Int /\ Signed(b) \in Int
    BY SignedRange
  <2>2. m[1] \in {"DIV", "MOD"} => Signed(b) # 0
    BY <1>3 DEF IsUndefined
  <2> DEFINE x == Signed(a)
             y == Signed(b)
  <2>3. y # 0 => Quotient(x, y) \in Int
    <3> HIDE DEF x, y
    <3>1. x \in Int /\ y \in Int
      BY <2>1 DEF x, y
    <3>2. y # 0 => Abs(x) \in Nat /\ Abs(y) \in Nat /\ Abs(y) > 0
      BY <3>1 DEF Abs
    <3>3. y # 0 => Abs(x) \div Abs(y) \in Int
      BY <3>2
    <3> QED BY <3>3 DEF Quotient
  <2>4. Exact(m[1], x, y) \in Int
    <3> HIDE DEF x, y
    <3>1. x \in Int /\ y \in Int /\ (m[1] \in {"DIV", "MOD"} => y # 0)
      BY <2>1, <2>2 DEF x, y
    <3>2. CASE m[1] = "ADD"
      BY <3>1, <3>2 DEF Exact
    <3>3. CASE m[1] = "SUB"
      BY <3>1, <3>3 DEF Exact
    <3>4. CASE m[1] = "MUL"
      BY <3>1, <3>4 DEF Exact
    <3>5. CASE m[1] = "DIV"
      BY <3>1, <3>5, <2>3 DEF Exact
    <3>6. CASE m[1] = "MOD"
      <4>1. Quotient(x, y) \in Int
        BY <3>1, <3>6, <2>3
      <4> HIDE DEF Quotient
      <4>2. x - y * Quotient(x, y) \in Int
        BY <3>1, <4>1
      <4> QED BY <3>6, <4>2 DEF Exact
    <3> QED BY <1>1, <3>2, <3>3, <3>4, <3>5, <3>6
  <2>5. SizeOf[m[2]] \in Nat
    BY Sizes
  <2>6. Result(m[1], m[2], a, b) = Word(Exact(m[1], x, y), SizeOf[m[2]])
    BY <1>3 DEF Result
  <2> HIDE DEF x, y
  <2> QED BY <2>4, <2>5, <2>6, WordType
<1> QED BY <1>2, <1>3

-----------------------------------------------------------------------------
(***************************************************************************)
(* Memory and program                                                      *)
(***************************************************************************)
\* A part of a sequence of bytes
LEMMA Part ==
  ASSUME NEW s \in Seq(Byte), NEW a \in Nat, NEW n \in Nat, a + n <= Len(s)
  PROVE  /\ SubSeq(s, a + 1, a + n) \in Seq(Byte)
         /\ Len(SubSeq(s, a + 1, a + n)) = n
         /\ \A i \in 1 .. n : SubSeq(s, a + 1, a + n)[i] = s[a + i]
<1> DEFINE l == Len(s)
           p == SubSeq(s, a + 1, a + n)
<1>1. l \in Nat /\ a + n <= l
  BY LenProperties
<1>2. \A i \in a + 1 .. a + n : s[i] \in Byte
  <2>1. \A i \in 1 .. l : s[i] \in Byte
    BY SeqEntries, Zenon
  <2> HIDE DEF l
  <2> QED BY <1>1, <2>1
<1> HIDE DEF l
<1>3. /\ p \in Seq(Byte)
      /\ Len(p) = IF a + 1 <= a + n THEN a + n - (a + 1) + 1 ELSE 0
      /\ \A i \in 1 .. a + n - (a + 1) + 1 : p[i] = s[a + 1 + i - 1]
  <2>1. a + 1 \in Int /\ a + n \in Int
    OBVIOUS
  <2> DEFINE x == a + 1
             y == a + n
  <2> HIDE DEF x, y
  <2>2. /\ SubSeq(s, x, y) \in Seq(Byte)
        /\ Len(SubSeq(s, x, y)) = IF x <= y THEN y - x + 1 ELSE 0
        /\ \A i \in 1 .. y - x + 1 : SubSeq(s, x, y)[i] = s[x + i - 1]
    BY <1>2, <2>1, SubSeqProperties DEF x, y
  <2> QED BY <2>2 DEF x, y
<1>4. a + n - (a + 1) + 1 = n /\ (a + 1 <= a + n <=> n # 0)
  OBVIOUS
<1> HIDE DEF p
<1>5. Len(p) = n /\ \A i \in 1 .. n : a + 1 + i - 1 = a + i
  BY <1>3, <1>4
<1>6. p \in Seq(Byte) /\ Len(p) = n /\ \A i \in 1 .. n : p[i] = s[a + i]
  BY <1>3, <1>4, <1>5
<1> QED BY <1>6 DEF p

\* The type invariant, with that of the bytes of the program
Typed == TypeOK /\ instructions \in Seq(Byte)

\* What an instruction reads from the program and from the memory
LEMMA ReadsBytes ==
  ASSUME Typed
  PROVE  /\ length \in Nat
         /\ memory \in Seq(Byte) /\ Len(memory) = MemSize
         /\ \A size \in Nat : Has(size) =>
              Argument(size) \in Seq(Byte) /\ Len(Argument(size)) = size
         /\ \A a, size \in Nat : InMemory(a, size) =>
              Load(a, size) \in Seq(Byte) /\ Len(Load(a, size)) = size
<1>1. /\ instructions \in Seq(Byte) /\ curr_instr \in Nat
      /\ memory \in [1 .. MemSize -> Byte] /\ MemSize \in Nat
  BY MemSizeAssumption DEF Typed, TypeOK
<1>2. length \in Nat
  BY <1>1, LenProperties DEF length
<1>3. memory \in Seq(Byte) /\ Len(memory) = MemSize
  BY <1>1
<1>4. ASSUME NEW size \in Nat, Has(size)
      PROVE  Argument(size) \in Seq(Byte) /\ Len(Argument(size)) = size
  <2> DEFINE a == curr_instr + 1
  <2>1. a \in Nat /\ a + size <= Len(instructions) /\ curr_instr + 2 = a + 1
    BY <1>1, <1>4 DEF Has, length
  <2>2. Argument(size) = SubSeq(instructions, a + 1, a + size)
    BY <2>1 DEF Argument
  <2> HIDE DEF a
  <2> QED BY <1>1, <2>1, <2>2, Part
<1>5. ASSUME NEW a \in Nat, NEW size \in Nat, InMemory(a, size)
      PROVE  Load(a, size) \in Seq(Byte) /\ Len(Load(a, size)) = size
  BY <1>3, <1>5, Part DEF Load, InMemory
<1> QED BY <1>2, <1>3, <1>4, <1>5

\* The memory after bytes were stored
LEMMA StoredType ==
  ASSUME Typed, NEW a \in Nat, NEW bytes \in Seq(Byte), InMemory(a, Len(bytes))
  PROVE  Stored(a, bytes) \in [1 .. MemSize -> Byte]
<1> DEFINE n == Len(bytes)
<1>1. n \in Nat /\ \A k \in 1 .. n : bytes[k] \in Byte
  <2>1. n \in Nat
    BY LenProperties
  <2>2. \A k \in 1 .. n : bytes[k] \in Byte
    BY SeqEntries, Zenon
  <2> QED BY <2>1, <2>2
<1>2. Stored(a, bytes) = [i \in 1 .. MemSize |-> IF i \in a + 1 .. a + n THEN bytes[i - a] ELSE memory[i]]
  BY DEF Stored
<1> HIDE DEF n
<1>3. \A i \in a + 1 .. a + n : i - a \in 1 .. n
  BY <1>1
<1>4. \A i \in 1 .. MemSize : memory[i] \in Byte
  BY DEF Typed, TypeOK
<1> QED BY <1>1, <1>2, <1>3, <1>4

-----------------------------------------------------------------------------
(***************************************************************************)
(* Types                                                                   *)
(***************************************************************************)
\* What undefined behaviour ends in
LEMMA UndefinedTyped ==
  ASSUME Typed, NEW what \in {"OutsideMemory", "OutsideProgram", "Arithmetic"}, Undefined(what)
  PROVE  Typed'
BY DEF Undefined, Typed, TypeOK

\* An opcode and its arguments end at a number.
LEMMA AdvanceTyped ==
  ASSUME Typed, NEW size \in Nat, Advance(size)
  PROVE  curr_instr' \in Nat
BY DEF Advance, Typed, TypeOK

\* *cursor op= operand
LEMMA AssignTyped ==
  ASSUME FloatsAreFloats, Typed, NEW m \in ImplementedMath, NEW size \in Nat,
         NEW operand \in Seq(Byte), Len(operand) = SizeOf[m[2]],
         Assign(m, operand, size)
  PROVE  Typed'
<1> DEFINE n == SizeOf[m[2]]
           a == Load(cursor, n)
<1>1. n \in Nat /\ cursor \in Nat
  BY Sizes DEF Typed, TypeOK
<1>2. \/ Undefined("OutsideMemory")
      \/ Undefined("Arithmetic")
      \/ /\ InMemory(cursor, n) /\ ~IsUndefined(m[1], m[2], a, operand)
         /\ memory' = Stored(cursor, Result(m[1], m[2], a, operand))
         /\ Advance(size)
         /\ UNCHANGED <<program, instructions, cursor, printed, pc>>
  BY Zenon DEF Assign
<1>3. CASE Undefined("OutsideMemory") \/ Undefined("Arithmetic")
  BY <1>3, UndefinedTyped
<1>4. CASE /\ InMemory(cursor, n) /\ ~IsUndefined(m[1], m[2], a, operand)
           /\ memory' = Stored(cursor, Result(m[1], m[2], a, operand))
           /\ Advance(size)
           /\ UNCHANGED <<program, instructions, cursor, printed, pc>>
  <2>1. a \in Seq(Byte) /\ Len(a) = n
    BY <1>1, <1>4, ReadsBytes
  <2> HIDE DEF a
  <2>2. Result(m[1], m[2], a, operand) \in Seq(Byte) /\ Len(Result(m[1], m[2], a, operand)) = n
    BY <1>4, <2>1, ResultType
  <2> DEFINE r == Result(m[1], m[2], a, operand)
  <2> HIDE DEF r, n
  <2>3. r \in Seq(Byte) /\ InMemory(cursor, Len(r)) /\ memory' = Stored(cursor, r)
    BY <1>4, <2>2 DEF r, n
  <2>4. memory' \in [1 .. MemSize -> Byte]
    BY <1>1, <2>3, StoredType
  <2>5. curr_instr' \in Nat
    BY <1>4, AdvanceTyped
  <2> QED BY <1>4, <2>4, <2>5 DEF Typed, TypeOK
<1> QED BY <1>2, <1>3, <1>4

\* SET
LEMMA SetTyped ==
  ASSUME Typed, Set
  PROVE  Typed'
<1> DEFINE len == Address(AddrSize)
           argument == Argument(AddrSize + len)
           data == SubSeq(argument, AddrSize + 1, AddrSize + len)
<1>1. AddrSize \in Nat /\ cursor \in Nat
  BY Sizes DEF Typed, TypeOK
<1>2. Has(AddrSize)
  BY Zenon DEF Set
<1>3. Argument(AddrSize) \in Seq(Byte) /\ Len(Argument(AddrSize)) = AddrSize
  BY <1>1, <1>2, ReadsBytes
<1>4. len \in Nat
  BY <1>3, UnsignedRange DEF Address
<1>5. \/ Undefined("OutsideMemory")
      \/ Undefined("OutsideProgram")
      \/ /\ InMemory(cursor, len) /\ Has(AddrSize + len)
         /\ memory' = Stored(cursor, data)
         /\ SetAdvance(len)
         /\ UNCHANGED <<program, instructions, cursor, printed, pc>>
  BY Zenon DEF Set
<1>6. CASE Undefined("OutsideMemory") \/ Undefined("OutsideProgram")
  BY <1>6, UndefinedTyped
<1>7. CASE /\ InMemory(cursor, len) /\ Has(AddrSize + len)
           /\ memory' = Stored(cursor, data)
           /\ SetAdvance(len)
           /\ UNCHANGED <<program, instructions, cursor, printed, pc>>
  <2> HIDE DEF len
  <2>1. AddrSize + len \in Nat
    BY <1>1, <1>4
  <2>2. argument \in Seq(Byte) /\ Len(argument) = AddrSize + len
    BY <1>7, <2>1, ReadsBytes
  <2> HIDE DEF argument
  <2>3. data \in Seq(Byte) /\ Len(data) = len
    BY <1>1, <1>4, <2>2, Part
  <2> HIDE DEF data
  <2>4. memory' \in [1 .. MemSize -> Byte]
    BY <1>1, <1>7, <2>3, StoredType
  <2>5. curr_instr' \in Nat
    BY <1>7, <2>1, AdvanceTyped DEF SetAdvance
  <2> QED BY <1>7, <2>4, <2>5 DEF Typed, TypeOK
<1> QED BY <1>5, <1>6, <1>7

\* Cur... and Cur...P
LEMMA MathTyped ==
  ASSUME FloatsAreFloats, Typed, MathCur \/ MathCurP
  PROVE  Typed'
<1>1. ASSUME MathCur PROVE Typed'
  <2>1. PICK m \in ImplementedMath :
           Has(SizeOf[m[2]]) /\ Assign(m, Argument(SizeOf[m[2]]), SizeOf[m[2]])
    BY <1>1 DEF MathCur
  <2>2. SizeOf[m[2]] \in Nat
    BY Sizes
  <2>3. Argument(SizeOf[m[2]]) \in Seq(Byte) /\ Len(Argument(SizeOf[m[2]])) = SizeOf[m[2]]
    BY <2>1, <2>2, ReadsBytes
  <2> QED BY <2>1, <2>2, <2>3, AssignTyped
<1>2. ASSUME MathCurP PROVE Typed'
  <2>1. PICK m \in ImplementedMath :
           /\ Has(AddrSize)
           /\ \/ InMemory(Address(AddrSize), SizeOf[m[2]])
                 /\ Assign(m, Load(Address(AddrSize), SizeOf[m[2]]), AddrSize)
              \/ Undefined("OutsideMemory")
    BY <1>2, Zenon DEF MathCurP
  <2>2. SizeOf[m[2]] \in Nat /\ AddrSize \in Nat
    BY Sizes
  <2>3. CASE Undefined("OutsideMemory")
    BY <2>3, UndefinedTyped
  <2>4. CASE /\ InMemory(Address(AddrSize), SizeOf[m[2]])
             /\ Assign(m, Load(Address(AddrSize), SizeOf[m[2]]), AddrSize)
    <3>1. Address(AddrSize) \in Nat
      BY <2>1, <2>2, ReadsBytes, UnsignedRange DEF Address
    <3> DEFINE operand == Load(Address(AddrSize), SizeOf[m[2]])
    <3>2. operand \in Seq(Byte) /\ Len(operand) = SizeOf[m[2]]
      BY <2>2, <2>4, <3>1, ReadsBytes
    <3>3. Assign(m, operand, AddrSize)
      BY <2>4
    <3> HIDE DEF operand
    <3> QED BY <2>2, <3>2, <3>3, AssignTyped
  <2> QED BY <2>1, <2>3, <2>4
<1> QED BY <1>1, <1>2

\* PRINTascii, where a text ends at one of its ends, and PRINTschar
LEMMA TextTyped ==
  ASSUME Typed, PrintAscii \/ PrintSchar
  PROVE  Typed'
<1>0. /\ MemSize \in Nat /\ cursor \in Nat /\ memory \in [1 .. MemSize -> Byte]
      /\ IntSize \in Nat /\ AddrSize \in Nat
  BY MemSizeAssumption, Sizes DEF Typed, TypeOK
<1>b. Byte \subseteq -128 .. 255
  BY DEF Byte
<1>1. ASSUME PrintSchar PROVE Typed'
  <2>1. CASE Undefined("OutsideMemory")
    BY <2>1, UndefinedTyped
  <2>2. CASE /\ InMemory(cursor, 1)
             /\ printed' = <<Signed(Load(cursor, 1))>>
             /\ Advance(0)
             /\ UNCHANGED <<program, instructions, cursor, memory, pc>>
    <3>1. Signed(Load(cursor, 1)) \in -128 .. 127
      BY <1>0, <2>2, ReadsBytes, SignedRange
    <3>2. curr_instr' \in Nat
      BY <2>2, AdvanceTyped
    <3>3. \A x \in -128 .. 127 : <<x>> \in Seq(-128 .. 255)
      OBVIOUS
    <3> QED BY <2>2, <3>1, <3>2, <3>3 DEF Typed, TypeOK
  <2> QED BY <1>1, <2>1, <2>2, Zenon DEF PrintSchar
<1>2. ASSUME PrintAscii PROVE Typed'
  <2> DEFINE len == Signed(Argument(IntSize))
             nuls == {n \in 0 .. MemSize - cursor - 1 : memory[cursor + n + 1] = 0}
             ends == (IF len >= 0 /\ InMemory(cursor, len) THEN {len} ELSE {}) \cup nuls
             end == CHOOSE n \in ends : \A k \in ends : n <= k
  <2>1. \/ Undefined("OutsideMemory")
        \/ /\ ends # {} /\ printed' = Load(cursor, end)
           /\ Advance(IntSize)
           /\ UNCHANGED <<program, instructions, cursor, memory, pc>>
    BY <1>2, Zenon DEF PrintAscii
  <2>2. CASE Undefined("OutsideMemory")
    BY <2>2, UndefinedTyped
  <2>3. CASE /\ ends # {} /\ printed' = Load(cursor, end)
             /\ Advance(IntSize)
             /\ UNCHANGED <<program, instructions, cursor, memory, pc>>
    <3>1. len \in Int
      <4>1. Has(IntSize)
        BY <1>2, Zenon DEF PrintAscii
      <4> QED BY <1>0, <4>1, ReadsBytes, SignedRange
    <3> HIDE DEF len
    <3>2. \A n \in ends : n \in Nat /\ InMemory(cursor, n)
      BY <1>0, <3>1 DEF InMemory
    <3> HIDE DEF ends
    <3>3. \E n \in ends : \A k \in ends : n <= k
      BY <2>3, <3>2, LeastExists
    <3>4. end \in ends
      BY <3>3
    <3> HIDE DEF end
    <3>5. Load(cursor, end) \in Seq(Byte)
      BY <1>0, <3>2, <3>4, ReadsBytes
    <3>6. printed' \in Seq(-128 .. 255)
      <4> DEFINE text == Load(cursor, end)
      <4> HIDE DEF text
      <4>1. text \in Seq(Byte) /\ printed' = text
        BY <2>3, <3>5 DEF text
      <4>2. \A j \in 1 .. Len(text) : text[j] \in -128 .. 255
        BY <1>b, <4>1, SeqEntries
      <4>3. text \in Seq(-128 .. 255)
        BY <4>1, <4>2, SeqRange
      <4> QED BY <4>1, <4>3
    <3>7. curr_instr' \in Nat
      BY <1>0, <2>3, AdvanceTyped
    <3> QED BY <2>3, <3>6, <3>7 DEF Typed, TypeOK
  <2> QED BY <2>1, <2>2, <2>3
<1> QED BY <1>1, <1>2

\* Every step keeps the types.
LEMMA NextTyped ==
  ASSUME FloatsAreFloats, Typed, [Next]_vars
  PROVE  Typed'
<1>0. AddrSize \in Nat
  BY Sizes
<1>1. CASE UNCHANGED vars
  BY <1>1 DEF vars, Typed, TypeOK
<1>2. CASE Leave
  BY <1>2 DEF Leave, Typed, TypeOK
<1>3. CASE NoOp
  BY <1>3, AdvanceTyped DEF NoOp, Typed, TypeOK
<1>4. CASE End
  BY <1>4, AdvanceTyped DEF End, Typed, TypeOK
<1>5. Has(AddrSize) => Address(AddrSize) \in Nat
  BY <1>0, ReadsBytes, UnsignedRange DEF Address
<1>6. CASE Jump
  BY <1>5, <1>6 DEF Jump, Typed, TypeOK
<1>7. CASE Move
  BY <1>0, <1>5, <1>7, AdvanceTyped DEF Move, MoveAdvance, Typed, TypeOK
<1>8. CASE CutShort
  BY <1>8, UndefinedTyped DEF CutShort
<1>9. CASE Unknown \/ Terminated
  BY <1>1, <1>9 DEF Unknown, Terminated
<1> QED
  BY <1>1, <1>2, <1>3, <1>4, <1>6, <1>7, <1>8, <1>9, SetTyped, MathTyped, TextTyped
     DEF Next, execute_program

\* Execution begins with values of their types.
LEMMA InitTyped ==
  ASSUME Init
  PROVE  Typed
<1>1. instructions \in Seq(Byte)
  BY SourcesAssumption DEF Init
<1>2. memory \in [1 .. MemSize -> Byte]
  BY InitBytesAssumption DEF Init
<1>3. <<>> \in Seq(-128 .. 255)
  OBVIOUS
<1> QED BY <1>1, <1>2, <1>3 DEF Init, Typed, TypeOK

\* TypeOK: the memory stays one of MemSize bytes, what execute_program() prints are
\* characters or a signed char, and an execution ends in one of the ways there are,
\* for all programs and all sizes of words and memory.
THEOREM TypeCorrect == FloatsAreFloats => (Spec => []TypeOK)
<1> SUFFICES ASSUME FloatsAreFloats PROVE Spec => []TypeOK
  OBVIOUS
<1>1. Init => Typed
  BY InitTyped
<1>2. Typed /\ [Next]_vars => Typed'
  BY NextTyped
<1>3. Typed => TypeOK
  BY DEF Typed
<1> QED BY <1>1, <1>2, <1>3, PTL DEF Spec

-----------------------------------------------------------------------------
(***************************************************************************)
(* Opcodes: no two instructions have the same                              *)
(***************************************************************************)
\* The places of what the codes of arithmetic are made of
LEMMA Places1 ==
  /\ Position(Operations, "ADD") = 0 /\ Position(Operations, "SUB") = 1
  /\ Position(Operations, "MUL") = 2 /\ Position(Operations, "DIV") = 3
  /\ Position(Operations, "MOD") = 4
  /\ Position(Types, "float") = 0 /\ Position(Types, "int") = 1 /\ Position(Types, "char") = 2
  /\ Position(Forms, "Cur") = 0 /\ Position(Forms, "CurP") = 1
  /\ Len(Types) = 3 /\ Len(Forms) = 6 /\ Len(Operations) = 5 /\ Len(Leading) = 13
<1>1. /\ Position(Operations, "ADD") = 0 /\ Position(Operations, "SUB") = 1
      /\ Position(Operations, "MUL") = 2 /\ Position(Operations, "DIV") = 3
      /\ Position(Operations, "MOD") = 4
  BY DEF Position, Operations
<1>2. /\ Position(Types, "float") = 0 /\ Position(Types, "int") = 1 /\ Position(Types, "char") = 2
  BY DEF Position, Types
<1>3. Position(Forms, "Cur") = 0 /\ Position(Forms, "CurP") = 1
  BY DEF Position, Forms
<1>4. Len(Types) = 3 /\ Len(Forms) = 6 /\ Len(Operations) = 5 /\ Len(Leading) = 13
  BY DEF Types, Forms, Operations, Leading
<1> QED BY <1>1, <1>2, <1>3, <1>4

\* The codes of the other instructions
LEMMA Codes ==
  /\ Code("NO_OP") = 0 /\ Code("END") = 1 /\ Code("JUMP") = 5
  /\ Code("MOVE") = 9 /\ Code("MOVEP") = 10 /\ Code("SET") = 11
  /\ Code("PRINTascii") = 105 /\ Code("PRINTschar") = 106
<1>1. /\ Position(Leading, "NO_OP") = 0 /\ Position(Leading, "END") = 1
      /\ Position(Leading, "JUMP") = 5 /\ Position(Leading, "MOVE") = 9
      /\ Position(Leading, "MOVEP") = 10 /\ Position(Leading, "SET") = 11
  BY DEF Position, Leading
<1>2. Position(Trailing, "PRINTascii") = 2 /\ Position(Trailing, "PRINTschar") = 3
  BY DEF Position, Trailing
<1>3. /\ \A name \in {"NO_OP", "END", "JUMP", "MOVE", "MOVEP", "SET"} : Contains(Leading, name)
      /\ ~Contains(Leading, "PRINTascii") /\ ~Contains(Leading, "PRINTschar")
  BY DEF Contains, Leading
<1>4. \A name \in {"NO_OP", "END", "JUMP", "MOVE", "MOVEP", "SET"} : Code(name) = Position(Leading, name)
  BY <1>3, Zenon DEF Code
<1>5. \A name \in {"PRINTascii", "PRINTschar"} : Code(name) = 13 + 5 * 3 * 6 + Position(Trailing, name)
  BY <1>3, Places1 DEF Code
<1> QED BY <1>1, <1>2, <1>4, <1>5

\* The codes of arithmetic
LEMMA MathCodes ==
  /\ \A m \in ImplementedMath :
       /\ MathCode(m[1], m[2], "Cur") \in 13 .. 102
       /\ MathCode(m[1], m[2], "CurP") \in 13 .. 102
  /\ \A m, k \in ImplementedMath : \A f, g \in {"Cur", "CurP"} :
       MathCode(m[1], m[2], f) = MathCode(k[1], k[2], g) => m = k /\ f = g
<1> DEFINE o(m) == Position(Operations, m[1])
           t(m) == Position(Types, m[2])
           p(f) == Position(Forms, f)
<1>1. \A m \in ImplementedMath : o(m) \in 0 .. 4 /\ t(m) \in 0 .. 2
  BY Places1 DEF ImplementedMath
<1>2. \A f \in {"Cur", "CurP"} : p(f) \in 0 .. 1
  BY Places1
<1>3. \A m, k \in ImplementedMath : o(m) = o(k) /\ t(m) = t(k) => m = k
  <2>1. \A m, k \in ImplementedMath : o(m) = o(k) => m[1] = k[1]
    BY Places1 DEF ImplementedMath
  <2>2. \A m, k \in ImplementedMath : t(m) = t(k) => m[2] = k[2]
    BY Places1 DEF ImplementedMath
  <2>3. \A m, k \in ImplementedMath : m[1] = k[1] /\ m[2] = k[2] => m = k
    BY DEF ImplementedMath
  <2> QED BY <2>1, <2>2, <2>3
<1>4. \A f, g \in {"Cur", "CurP"} : p(f) = p(g) => f = g
  BY Places1
<1>5. \A m, f : MathCode(m[1], m[2], f) = 13 + 3 * 6 * o(m) + 6 * t(m) + p(f)
  BY Places1 DEF MathCode
<1> HIDE DEF o, t, p
<1>6. \A x, y \in 0 .. 4 : \A a, b \in 0 .. 2 : \A c, d \in 0 .. 1 :
        13 + 3 * 6 * x + 6 * a + c = 13 + 3 * 6 * y + 6 * b + d => x = y /\ a = b /\ c = d
  OBVIOUS
<1>7. \A x \in 0 .. 4 : \A a \in 0 .. 2 : \A c \in 0 .. 1 : 13 + 3 * 6 * x + 6 * a + c \in 13 .. 102
  OBVIOUS
<1>8. \A m \in ImplementedMath : \A f \in {"Cur", "CurP"} : MathCode(m[1], m[2], f) \in 13 .. 102
  BY <1>1, <1>2, <1>5, <1>7
<1>9. \A m, k \in ImplementedMath : \A f, g \in {"Cur", "CurP"} :
        MathCode(m[1], m[2], f) = MathCode(k[1], k[2], g) => m = k /\ f = g
  BY <1>1, <1>2, <1>3, <1>4, <1>5, <1>6
<1> QED BY <1>8, <1>9

\* How many bytes of fixed arguments each has
LEMMA ArgumentSizes ==
  /\ ArgumentSize[Code("NO_OP")] = 0 /\ ArgumentSize[Code("END")] = 0
  /\ ArgumentSize[Code("MOVEP")] = 0 /\ ArgumentSize[Code("PRINTschar")] = 0
  /\ ArgumentSize[Code("JUMP")] = AddrSize /\ ArgumentSize[Code("MOVE")] = AddrSize
  /\ ArgumentSize[Code("SET")] = AddrSize /\ ArgumentSize[Code("PRINTascii")] = IntSize
  /\ \A m \in ImplementedMath :
       /\ ArgumentSize[MathCode(m[1], m[2], "Cur")] = SizeOf[m[2]]
       /\ ArgumentSize[MathCode(m[1], m[2], "CurP")] = AddrSize
  /\ \A code \in Byte : ArgumentSize[code] \in Nat
<1> DEFINE cur == {MathCode(m[1], m[2], "Cur") : m \in ImplementedMath}
           curp == {MathCode(m[1], m[2], "CurP") : m \in ImplementedMath}
           addressed == {Code("JUMP"), Code("MOVE"), Code("SET")} \cup curp
           the(code) == CHOOSE m \in ImplementedMath : code = MathCode(m[1], m[2], "Cur")
<1>1. \A code \in Byte : ArgumentSize[code] =
        IF code \in addressed THEN AddrSize
        ELSE IF code = Code("PRINTascii") THEN IntSize
        ELSE IF \E m \in ImplementedMath : code = MathCode(m[1], m[2], "Cur") THEN SizeOf[the(code)[2]]
        ELSE 0
  BY Zenon DEF ArgumentSize
<1>2. \A m \in ImplementedMath : the(MathCode(m[1], m[2], "Cur")) = m
  BY MathCodes
<1>3. \A code : (\E m \in ImplementedMath : code = MathCode(m[1], m[2], "Cur")) => the(code) \in ImplementedMath
  OBVIOUS
<1>4. cur \cap curp = {} /\ cur \subseteq 13 .. 102 /\ curp \subseteq 13 .. 102
  BY MathCodes
<1>c. \A code : code \in cur <=> \E m \in ImplementedMath : code = MathCode(m[1], m[2], "Cur")
  OBVIOUS
<1> HIDE DEF cur, curp, the
<1>5. /\ ArgumentSize[Code("NO_OP")] = 0 /\ ArgumentSize[Code("END")] = 0
      /\ ArgumentSize[Code("MOVEP")] = 0 /\ ArgumentSize[Code("PRINTschar")] = 0
      /\ ArgumentSize[Code("JUMP")] = AddrSize /\ ArgumentSize[Code("MOVE")] = AddrSize
      /\ ArgumentSize[Code("SET")] = AddrSize /\ ArgumentSize[Code("PRINTascii")] = IntSize
  <2>1. \A c \in {0, 1, 5, 9, 10, 11, 105, 106} : c \in Byte /\ c \notin cur /\ c \notin curp
    <3>1. \A c \in {0, 1, 5, 9, 10, 11, 105, 106} : c \in Byte /\ c \notin 13 .. 102
      BY DEF Byte
    <3> QED BY <1>4, <3>1
  <2>2. ASSUME NEW c \in {0, 1, 10, 106} PROVE ArgumentSize[c] = 0
    <3>1. c \notin addressed /\ c # Code("PRINTascii")
      BY <2>1, Codes
    <3> QED BY <1>1, <1>c, <2>1, <3>1
  <2>3. ASSUME NEW c \in {5, 9, 11} PROVE ArgumentSize[c] = AddrSize
    <3>1. c \in addressed
      BY Codes
    <3> QED BY <1>1, <2>1, <3>1
  <2>4. ArgumentSize[105] = IntSize
    <3>1. 105 \notin addressed
      BY <2>1, Codes
    <3> QED BY <1>1, <2>1, <3>1, Codes
  <2> QED BY <2>2, <2>3, <2>4, Codes
<1>6. ASSUME NEW m \in ImplementedMath
      PROVE  /\ ArgumentSize[MathCode(m[1], m[2], "Cur")] = SizeOf[m[2]]
             /\ ArgumentSize[MathCode(m[1], m[2], "CurP")] = AddrSize
  <2> DEFINE x == MathCode(m[1], m[2], "Cur")
             y == MathCode(m[1], m[2], "CurP")
  <2>1. x \in 13 .. 102 /\ x \in cur /\ x \notin curp /\ the(x) = m
    BY <1>2, <1>4, MathCodes DEF cur
  <2>2. y \in 13 .. 102 /\ y \in curp
    BY MathCodes DEF curp
  <2> HIDE DEF x, y
  <2>3. x \in Byte /\ y \in Byte
    BY <2>1, <2>2 DEF Byte
  <2>4. x # 5 /\ x # 9 /\ x # 11 /\ x # 105
    BY <2>1
  <2>5. ArgumentSize[x] = SizeOf[m[2]]
    BY <1>1, <1>c, <2>1, <2>3, <2>4, Codes
  <2>6. ArgumentSize[y] = AddrSize
    BY <1>1, <2>2, <2>3
  <2> QED BY <2>5, <2>6 DEF x, y
<1>7. \A code \in Byte : ArgumentSize[code] \in Nat
  BY <1>1, <1>3, Sizes
<1> QED BY <1>5, <1>6, <1>7

-----------------------------------------------------------------------------
(***************************************************************************)
(* Where the instructions of an assembled program are                      *)
(***************************************************************************)
\* The kinds of instruction, and how many bytes of arguments each has
LEMMA Kinds ==
  ASSUME NEW i \in Instruction, NEW target \in Int
  PROVE  /\ i.arg \in Int /\ i.data \in Seq(Byte)
         /\ Arguments(i, target) \in Seq(Byte)
         /\ Len(Arguments(i, target)) = Len(Arguments(i, 0))
         /\ Opcode(i) \in Byte
         /\ \/ /\ i.name \in {"NO_OP", "END", "PRINTschar"}
               /\ Opcode(i) = Code(i.name) /\ Arguments(i, target) = <<>>
            \/ /\ i.name = "JUMP" /\ Opcode(i) = Code("JUMP")
               /\ Arguments(i, target) = Word(target, AddrSize)
            \/ /\ i.name \in {"MOVE", "MOVEP"} /\ Opcode(i) = Code(i.name)
               /\ i.arg \in 0 .. Pow256[AddrSize] - 1
               /\ Arguments(i, target) = Word(i.arg, AddrSize)
            \/ /\ i.name = "SET" /\ Opcode(i) = Code("SET")
               /\ Arguments(i, target) = Word(Len(i.data), AddrSize) \o i.data
            \/ /\ i.name = "PRINTascii" /\ Opcode(i) = Code("PRINTascii")
               /\ i.arg \in 0 .. Pow256[IntSize] - 1
               /\ Arguments(i, target) = Word(i.arg, IntSize)
            \/ /\ i.name = "Cur" /\ <<i.op, i.type>> \in ImplementedMath
               /\ Opcode(i) = MathCode(i.op, i.type, "Cur")
               /\ Arguments(i, target) = Word(i.arg, SizeOf[i.type])
            \/ /\ i.name = "CurP" /\ <<i.op, i.type>> \in ImplementedMath
               /\ Opcode(i) = MathCode(i.op, i.type, "CurP")
               /\ i.arg \in 0 .. Pow256[AddrSize] - 1
               /\ Arguments(i, target) = Word(i.arg, AddrSize)
            \/ /\ i.name = "CUT" /\ Opcode(i) = i.arg /\ IsCutShort(i.arg, i.data)
               /\ Arguments(i, target) = i.data
<1>1. /\ i.name \in STRING /\ i.op \in STRING /\ i.arg \in Int /\ i.data \in Seq(Byte)
      /\ i.name \in {"Cur", "CurP"} => <<i.op, i.type>> \in ImplementedMath
      /\ i.name \notin {"Cur", "CurP"} => i.op = ""
      /\ \/ i.name \in {"NO_OP", "END", "PRINTschar", "JUMP", "SET", "Cur"}
         \/ i.name \in {"MOVE", "MOVEP", "CurP"} /\ i.arg \in 0 .. Pow256[AddrSize] - 1
         \/ i.name = "PRINTascii" /\ i.arg \in 0 .. Pow256[IntSize] - 1
         \/ i.name = "CUT" /\ i.arg \in Byte /\ IsCutShort(i.arg, i.data)
  BY DEF Instruction
<1>a. AddrSize \in Nat /\ IntSize \in Nat
  BY Sizes
<1>w. \A n \in Int : \A size \in Nat : Word(n, size) \in Seq(Byte) /\ Len(Word(n, size)) = size
  BY WordType
<1>b. \A c \in 0 .. 106 : c \in Byte
  BY DEF Byte
<1>2. CASE i.name \in {"NO_OP", "END", "PRINTschar"}
  <2>1. \A t : Arguments(i, t) = <<>>
    BY <1>2 DEF Arguments
  <2>2. Opcode(i) = Code(i.name)
    BY <1>1, <1>2 DEF Opcode
  <2>3. <<>> \in Seq(Byte)
    OBVIOUS
  <2>4. Opcode(i) \in Byte
    BY <1>2, <1>b, <2>2, Codes
  <2> QED BY <1>1, <1>2, <2>1, <2>2, <2>3, <2>4
<1>3. CASE i.name = "JUMP"
  <2>1. \A t : Arguments(i, t) = Word(t, AddrSize)
    BY <1>3 DEF Arguments
  <2>2. Opcode(i) = Code("JUMP")
    BY <1>1, <1>3 DEF Opcode
  <2>3. Opcode(i) \in Byte
    BY <1>b, <2>2, Codes
  <2>4. /\ Arguments(i, target) \in Seq(Byte)
        /\ Len(Arguments(i, target)) = AddrSize /\ Len(Arguments(i, 0)) = AddrSize
    <3>1. /\ Word(target, AddrSize) \in Seq(Byte) /\ Len(Word(target, AddrSize)) = AddrSize
          /\ Len(Word(0, AddrSize)) = AddrSize
      BY <1>a, <1>w
    <3> QED BY <2>1, <3>1
  <2> QED BY <1>1, <1>3, <2>1, <2>2, <2>3, <2>4
<1>4. CASE i.name \in {"MOVE", "MOVEP"}
  <2>1. \A t : Arguments(i, t) = Word(i.arg, AddrSize)
    BY <1>4 DEF Arguments
  <2>2. Opcode(i) = Code(i.name)
    BY <1>1, <1>4 DEF Opcode
  <2>3. Opcode(i) \in Byte
    BY <1>4, <1>b, <2>2, Codes
  <2> QED BY <1>1, <1>4, <1>a, <1>w, <2>1, <2>2, <2>3
<1>5. CASE i.name = "SET"
  <2>1. \A t : Arguments(i, t) = Word(Len(i.data), AddrSize) \o i.data
    BY <1>5 DEF Arguments
  <2>2. Opcode(i) = Code("SET")
    BY <1>1, <1>5 DEF Opcode
  <2>3. Word(Len(i.data), AddrSize) \o i.data \in Seq(Byte)
    <3>1. Len(i.data) \in Int
      <4>1. \A d \in Seq(Byte) : Len(d) \in Int
        OBVIOUS
      <4> QED BY <1>1, <4>1
    <3>2. Word(Len(i.data), AddrSize) \in Seq(Byte)
      BY <1>a, <1>w, <3>1
    <3> QED BY <1>1, <3>2, ConcatProperties
  <2>4. Opcode(i) \in Byte
    BY <1>b, <2>2, Codes
  <2> QED BY <1>1, <1>5, <2>1, <2>2, <2>3, <2>4
<1>6. CASE i.name = "PRINTascii"
  <2>1. \A t : Arguments(i, t) = Word(i.arg, IntSize)
    BY <1>6 DEF Arguments
  <2>2. Opcode(i) = Code("PRINTascii")
    BY <1>1, <1>6 DEF Opcode
  <2>3. Opcode(i) \in Byte
    BY <1>b, <2>2, Codes
  <2> QED BY <1>1, <1>6, <1>a, <1>w, <2>1, <2>2, <2>3
<1>7. CASE i.name \in {"Cur", "CurP"}
  <2>1. /\ i.name = "Cur" => \A t : Arguments(i, t) = Word(i.arg, SizeOf[i.type])
        /\ i.name = "CurP" => \A t : Arguments(i, t) = Word(i.arg, AddrSize)
    BY <1>7 DEF Arguments
  <2>2. i.op # ""
    BY <1>1, <1>7 DEF ImplementedMath
  <2>3. Opcode(i) = MathCode(i.op, i.type, i.name)
    BY <1>7, <2>2 DEF Opcode
  <2>4. SizeOf[i.type] \in Nat
    <3> DEFINE m == <<i.op, i.type>>
    <3>1. m \in ImplementedMath /\ m[2] = i.type
      BY <1>1, <1>7
    <3> QED BY <3>1, Sizes
  <2>5. Opcode(i) \in Byte
    <3> DEFINE m == <<i.op, i.type>>
    <3>1. m \in ImplementedMath /\ m[1] = i.op /\ m[2] = i.type
      BY <1>1, <1>7
    <3> HIDE DEF m
    <3>2. Opcode(i) \in 13 .. 102
      BY <1>7, <2>3, <3>1, MathCodes
    <3> QED BY <1>b, <3>2
  <2> QED BY <1>1, <1>7, <1>a, <1>w, <2>1, <2>3, <2>4, <2>5
<1>8. CASE i.name = "CUT"
  <2>1. \A t : Arguments(i, t) = i.data
    BY <1>8 DEF Arguments
  <2>2. Opcode(i) = i.arg
    BY <1>1, <1>8 DEF Opcode
  <2> QED BY <1>1, <1>8, <2>1, <2>2
<1> QED BY <1>1, <1>2, <1>3, <1>4, <1>5, <1>6, <1>7, <1>8

\* The arguments of an instruction, for where they end
LEMMA ArgumentsType ==
  \A i \in Instruction : \A t \in Int :
    /\ Arguments(i, t) \in Seq(Byte) /\ Len(Arguments(i, t)) \in Nat
    /\ Len(Arguments(i, t)) = Len(Arguments(i, 0))
    /\ Opcode(i) \in Byte
<1> TAKE i \in Instruction, t \in Int
<1>1. /\ Arguments(i, t) \in Seq(Byte) /\ Len(Arguments(i, t)) = Len(Arguments(i, 0))
      /\ Opcode(i) \in Byte
  BY Kinds
<1> QED BY <1>1, LenProperties

\* The offsets of a program add up its instructions.
LEMMA Offsets ==
  ASSUME NEW p \in Program
  PROVE  /\ Offset(p, 1) = 0
         /\ \A k \in 1 .. Len(p) + 1 : Offset(p, k) \in Nat
         /\ \A k \in 1 .. Len(p) :
              Offset(p, k + 1) = Offset(p, k) + 1 + Len(Arguments(p[k], 0))
<1> DEFINE n == Len(p)
           size == [k \in Nat |-> IF k + 1 \in 1 .. n THEN Len(Arguments(p[k + 1], 0)) ELSE 0]
           step == [k \in Nat |-> [v \in Nat |-> v + 1 + size[k]]]
<1>z. 0 \in Int
  OBVIOUS
<1>1. n \in Nat /\ \A k \in 1 .. n : p[k] \in Instruction
  <2>1. p \in Seq(Instruction)
    BY DEF Program
  <2> QED BY <2>1, SeqEntries, LenProperties
<1> HIDE DEF n
<1>2. \A k \in 1 .. n : Len(Arguments(p[k], 0)) \in Nat
  BY <1>1, <1>z, ArgumentsType
<1>3. \A k \in Nat : size[k] \in Nat
  BY <1>2
<1>4. \A k \in 1 .. n : k - 1 \in Nat /\ size[k - 1] = Len(Arguments(p[k], 0))
  <2> TAKE k \in 1 .. n
  <2>1. k - 1 \in Nat /\ (k - 1) + 1 = k
    BY <1>1
  <2> QED BY <2>1
<1> HIDE DEF size
<1>5. PICK g : g \in Iterates(Nat, 0, step)
  <2>1. step \in [Nat -> [Nat -> Nat]] /\ 0 \in Nat
    BY <1>3
  <2> HIDE DEF step
  <2> QED BY <2>1, Iteration, Zenon
<1>6. g[0] = 0 /\ g \in [Nat -> Nat] /\ \A k \in Nat : g[k + 1] = g[k] + 1 + size[k]
  BY <1>5 DEF Iterates
<1>7. ASSUME NEW k \in 1 .. n + 1 PROVE Offset(p, k) = g[k - 1]
  <2> DEFINE F(o) == [j \in 1 .. k |-> IF j = 1 THEN 0 ELSE o[j - 1] + 1 + Len(Arguments(p[j - 1], 0))]
             offset == CHOOSE o : o = F(o)
             h == [j \in 1 .. k |-> g[j - 1]]
  <2>1. Offset(p, k) = offset[k]
    BY DEF Offset
  <2>2. h = F(h)
    <3>1. ASSUME NEW j \in 1 .. k, j # 1
          PROVE  j - 1 \in 1 .. k /\ g[j - 1] = g[(j - 1) - 1] + 1 + Len(Arguments(p[j - 1], 0))
      <4>1. j - 1 \in 1 .. n /\ j - 1 \in 1 .. k /\ (j - 1) - 1 \in Nat /\ ((j - 1) - 1) + 1 = j - 1
        BY <1>1, <3>1
      <4> DEFINE i == j - 1
      <4>2. i \in 1 .. n /\ i - 1 \in Nat /\ (i - 1) + 1 = i
        BY <4>1
      <4> HIDE DEF i
      <4>3. g[i] = g[i - 1] + 1 + Len(Arguments(p[i], 0))
        BY <1>4, <1>6, <4>2
      <4> QED BY <4>1, <4>3 DEF i
    <3>2. g[1 - 1] = 0
      BY <1>6
    <3> QED BY <3>1, <3>2
  <2> HIDE DEF h
  <2>3. offset = F(offset)
    BY <2>2
  <2> HIDE DEF offset
  <2>4. \A j \in 1 .. k : offset[j] = IF j = 1 THEN 0 ELSE offset[j - 1] + 1 + Len(Arguments(p[j - 1], 0))
    BY <2>3
  <2> DEFINE T == {m \in Nat : m + 1 \in 1 .. k => offset[m + 1] = g[m]}
  <2>5. 0 \in T
    <3>1. 1 \in 1 .. k => offset[1] = 0
      BY <2>4
    <3> QED BY <1>6, <3>1
  <2>6. ASSUME NEW m \in Nat, m \in T PROVE m + 1 \in T
    <3> SUFFICES ASSUME (m + 1) + 1 \in 1 .. k PROVE offset[(m + 1) + 1] = g[m + 1]
      OBVIOUS
    <3>1. m + 1 \in 1 .. k /\ m + 1 \in 1 .. n /\ (m + 1) + 1 # 1 /\ ((m + 1) + 1) - 1 = m + 1 /\ (m + 1) - 1 = m
      BY <1>1
    <3>2. offset[(m + 1) + 1] = offset[m + 1] + 1 + Len(Arguments(p[m + 1], 0))
      BY <2>4, <3>1
    <3>3. offset[m + 1] = g[m]
      BY <2>6, <3>1
    <3>4. g[m + 1] = g[m] + 1 + Len(Arguments(p[m + 1], 0))
      BY <1>4, <1>6, <3>1
    <3> QED BY <3>2, <3>3, <3>4
  <2> HIDE DEF T
  <2>7. Nat \subseteq T
    BY <2>5, <2>6, SetInduction
  <2>8. k - 1 \in Nat /\ (k - 1) + 1 = k
    BY <1>1
  <2>9. offset[k] = g[k - 1]
    BY <2>7, <2>8 DEF T
  <2> QED BY <2>1, <2>9
<1>8. 1 \in 1 .. n + 1 /\ g[1 - 1] = 0
  BY <1>1, <1>6
<1>9. \A k \in 1 .. n + 1 : Offset(p, k) \in Nat
  <2> TAKE k \in 1 .. n + 1
  <2>1. k - 1 \in Nat
    BY <1>1
  <2> QED BY <1>6, <1>7, <2>1
<1>10. ASSUME NEW k \in 1 .. n PROVE Offset(p, k + 1) = Offset(p, k) + 1 + Len(Arguments(p[k], 0))
  <2>1. k \in 1 .. n + 1 /\ k + 1 \in 1 .. n + 1 /\ (k + 1) - 1 = k /\ k - 1 \in Nat /\ (k - 1) + 1 = k
    BY <1>1
  <2>2. Offset(p, k + 1) = g[k] /\ Offset(p, k) = g[k - 1]
    BY <1>7, <2>1
  <2>3. g[k] = g[k - 1] + 1 + size[k - 1]
    BY <1>6, <2>1
  <2> QED BY <1>4, <2>2, <2>3
<1> QED BY <1>7, <1>8, <1>9, <1>10 DEF n

\* Every instruction is longer than nothing: later ones have larger offsets.
LEMMA OffsetsGrow ==
  ASSUME NEW p \in Program, NEW j \in 1 .. Len(p) + 1, NEW k \in 1 .. Len(p) + 1, j < k
  PROVE  Offset(p, j) < Offset(p, k)
<1> DEFINE n == Len(p)
<1>z. 0 \in Int
  OBVIOUS
<1>1. /\ n \in Nat /\ \A m \in 1 .. n + 1 : Offset(p, m) \in Nat
      /\ \A m \in 1 .. n : Offset(p, m + 1) > Offset(p, m)
  <2>1. p \in Seq(Instruction)
    BY DEF Program
  <2>2. n \in Nat /\ \A m \in 1 .. n : p[m] \in Instruction
    BY <2>1, SeqEntries, LenProperties
  <2>3. \A m \in 1 .. n + 1 : Offset(p, m) \in Nat
    BY Offsets
  <2>4. ASSUME NEW m \in 1 .. n PROVE Offset(p, m + 1) > Offset(p, m)
    <3>1. Offset(p, m + 1) = Offset(p, m) + 1 + Len(Arguments(p[m], 0))
      BY Offsets
    <3>2. Len(Arguments(p[m], 0)) \in Nat
      BY <2>2, <1>z, ArgumentsType
    <3>3. Offset(p, m) \in Nat
      <4> HIDE DEF n
      <4>1. m \in 1 .. n + 1
        BY <2>2
      <4> QED BY <2>3, <4>1
    <3> QED BY <3>1, <3>2, <3>3
  <2> QED BY <2>2, <2>3, <2>4
<1>2. j \in 1 .. n + 1 /\ k \in 1 .. n + 1
  OBVIOUS
<1> HIDE DEF n
<1> DEFINE T == {d \in Nat : j + d + 1 <= n + 1 => Offset(p, j) < Offset(p, j + d + 1)}
<1>3. 0 \in T
  <2> SUFFICES ASSUME j + 1 <= n + 1 PROVE Offset(p, j) < Offset(p, j + 0 + 1)
    OBVIOUS
  <2>1. j \in 1 .. n /\ j + 0 + 1 = j + 1
    BY <1>1, <1>2
  <2> QED BY <1>1, <2>1
<1>4. ASSUME NEW d \in Nat, d \in T PROVE d + 1 \in T
  <2> SUFFICES ASSUME j + (d + 1) + 1 <= n + 1 PROVE Offset(p, j) < Offset(p, j + (d + 1) + 1)
    OBVIOUS
  <2> DEFINE m == j + d + 1
  <2>1. m \in 1 .. n /\ m \in 1 .. n + 1 /\ m + 1 \in 1 .. n + 1 /\ j + (d + 1) + 1 = m + 1
    BY <1>1, <1>2
  <2>2. Offset(p, j) < Offset(p, m)
    BY <1>4, <2>1
  <2> HIDE DEF m
  <2>3. Offset(p, m) < Offset(p, m + 1)
    BY <1>1, <2>1
  <2>4. Offset(p, j) < Offset(p, m + 1)
    BY <1>1, <1>2, <2>1, <2>2, <2>3
  <2> QED BY <2>1, <2>4
<1> HIDE DEF T
<1>5. Nat \subseteq T
  BY <1>3, <1>4, SetInduction
<1>6. k - j - 1 \in Nat /\ j + (k - j - 1) + 1 = k
  BY <1>1, <1>2
<1> DEFINE d == k - j - 1
<1>7. d \in T /\ j + d + 1 = k
  BY <1>5, <1>6
<1> HIDE DEF d
<1> QED BY <1>1, <1>2, <1>7 DEF T

\* Sequences put one after the other, the first k of them at k
Flat(parts, f) ==
  /\ f[1] = parts[1]
  /\ \A i \in 2 .. Len(parts) : f[i] = f[i - 1] \o parts[i]

\* FlattenSeq puts its parts one after the other.
LEMMA FlattenParts ==
  ASSUME NEW parts \in Seq(Seq(Byte)), Len(parts) > 0
  PROVE  \E f : Flat(parts, f) /\ FlattenSeq(parts) = f[Len(parts)]
<1> DEFINE n == Len(parts)
           F(f) == [i \in 1 .. n |-> IF i = 1 THEN parts[i] ELSE f[i - 1] \o parts[i]]
           flatten == CHOOSE f : f = F(f)
           part == [k \in Nat |-> IF k + 2 \in 1 .. n THEN parts[k + 2] ELSE <<>>]
           step == [k \in Nat |-> [v \in Seq(Byte) |-> v \o part[k]]]
<1>1. n \in Nat /\ n > 0 /\ \A i \in 1 .. n : parts[i] \in Seq(Byte)
  <2>1. n \in Nat
    BY LenProperties
  <2>2. \A i \in 1 .. n : parts[i] \in Seq(Byte)
    BY SeqEntries, Zenon
  <2> QED BY <2>1, <2>2
<1>2. FlattenSeq(parts) = flatten[n]
  BY <1>1 DEF FlattenSeq
<1> HIDE DEF n
<1>3. \A k \in Nat : part[k] \in Seq(Byte)
  BY <1>1
<1>4. \A i \in 2 .. n : i - 2 \in Nat /\ (i - 2) + 2 = i /\ part[i - 2] = parts[i]
  BY <1>1
<1> HIDE DEF part
<1>5. PICK g : g \in Iterates(Seq(Byte), parts[1], step)
  <2>1. \A v \in Seq(Byte) : \A k \in Nat : v \o part[k] \in Seq(Byte)
    BY <1>3, ConcatProperties
  <2>2. step \in [Nat -> [Seq(Byte) -> Seq(Byte)]]
    BY <2>1
  <2>3. parts[1] \in Seq(Byte)
    BY <1>1
  <2> HIDE DEF step
  <2> QED BY <2>2, <2>3, Iteration
<1>6. g[0] = parts[1] /\ g \in [Nat -> Seq(Byte)] /\ \A k \in Nat : g[k + 1] = g[k] \o part[k]
  BY <1>5 DEF Iterates
<1> DEFINE h == [i \in 1 .. n |-> g[i - 1]]
<1>7. h = F(h)
  <2>1. ASSUME NEW i \in 1 .. n, i # 1
        PROVE  i - 1 \in 1 .. n /\ g[i - 1] = g[(i - 1) - 1] \o parts[i]
    <3>1. i \in 2 .. n /\ i - 2 \in Nat /\ (i - 2) + 1 = i - 1 /\ (i - 1) - 1 = i - 2 /\ i - 1 \in 1 .. n
      BY <1>1, <2>1
    <3>2. g[(i - 2) + 1] = g[i - 2] \o part[i - 2]
      BY <1>6, <3>1
    <3> QED BY <1>4, <3>1, <3>2
  <2>2. g[1 - 1] = parts[1]
    BY <1>6
  <2> QED BY <2>1, <2>2
<1> HIDE DEF h
<1>8. flatten = F(flatten)
  BY <1>7
<1> HIDE DEF flatten
<1>9. \A i \in 1 .. n : flatten[i] = IF i = 1 THEN parts[i] ELSE flatten[i - 1] \o parts[i]
  BY <1>8
<1>10. Flat(parts, flatten)
  <2>1. 1 \in 1 .. n /\ \A i \in 2 .. n : i \in 1 .. n /\ i # 1
    BY <1>1
  <2>2. flatten[1] = parts[1] /\ \A i \in 2 .. n : flatten[i] = flatten[i - 1] \o parts[i]
    BY <1>9, <2>1
  <2> QED BY <2>2 DEF Flat, n
<1> QED BY <1>2, <1>10 DEF n

\* An instruction as it is assembled: its opcode, and the arguments it is given
Piece(p, k) == <<Opcode(p[k])>> \o Arguments(p[k], Offset(p, p[k].arg))
Given(p, k) == Arguments(p[k], Offset(p, p[k].arg))

\* Each instruction of a program, with the arguments it is assembled with
LEMMA Pieces ==
  ASSUME NEW p \in Program, NEW k \in 1 .. Len(p)
  PROVE  /\ p[k] \in Instruction
         /\ k \in 1 .. Len(p) + 1 /\ k + 1 \in 1 .. Len(p) + 1
         /\ p[k].name = "JUMP" => p[k].arg \in 1 .. Len(p) + 1 /\ Offset(p, p[k].arg) \in Nat
         /\ p[k].name = "CUT" => k = Len(p)
         /\ Given(p, k) \in Seq(Byte)
         /\ Len(Given(p, k)) \in Nat
         /\ Offset(p, k + 1) = Offset(p, k) + 1 + Len(Given(p, k))
         /\ Piece(p, k) \in Seq(Byte)
         /\ Len(Piece(p, k)) = 1 + Len(Given(p, k))
         /\ Piece(p, k)[1] = Opcode(p[k])
         /\ \A j \in 1 .. Len(Given(p, k)) : Piece(p, k)[1 + j] = Given(p, k)[j]
<1> DEFINE i == p[k]
           t == Offset(p, i.arg)
<1>1. /\ p \in Seq(Instruction)
      /\ i.name = "JUMP" => i.arg \in 1 .. Len(p) + 1
      /\ i.name = "CUT" => k = Len(p)
  <2>1. DOMAIN p = 1 .. Len(p)
    BY DEF Program
  <2> QED BY <2>1 DEF Program
<1>2. i \in Instruction /\ Len(p) \in Nat
  BY <1>1, SeqEntries, LenProperties
<1>3. i.name = "JUMP" => t \in Nat
  BY <1>1, Offsets
<1>4. /\ Given(p, k) \in Seq(Byte)
      /\ Len(Given(p, k)) = Len(Arguments(i, 0))
      /\ Opcode(i) \in Byte
  <2>1. 0 \in Int
    OBVIOUS
  <2>2. CASE i.name = "JUMP"
    <3>1. t \in Int
      BY <1>3, <2>2
    <3> QED BY <1>2, <3>1, ArgumentsType DEF Given
  <2>3. CASE i.name # "JUMP"
    <3>1. Arguments(i, t) = Arguments(i, 0)
      <4> HIDE DEF i, t
      <4> QED BY <2>3 DEF Arguments
    <3>2. Opcode(i) \in Byte
      BY <1>2, <2>1, ArgumentsType
    <3> QED BY <1>2, <2>1, <3>1, <3>2, ArgumentsType DEF Given
  <2> QED BY <2>2, <2>3
<1>5. Len(Given(p, k)) \in Nat
  BY <1>4, LenProperties
<1>6. Offset(p, k + 1) = Offset(p, k) + 1 + Len(Given(p, k))
  BY <1>4, Offsets
<1> DEFINE o == <<Opcode(i)>>
           g == Given(p, k)
<1>7. o \in Seq(Byte) /\ Len(o) = 1 /\ o[1] = Opcode(i)
  BY <1>4
<1>8. Piece(p, k) = o \o g
  BY DEF Piece, Given
<1>9. k \in 1 .. Len(p) + 1 /\ k + 1 \in 1 .. Len(p) + 1
  BY <1>2
<1> DEFINE n == Len(g)
<1>10. n \in Nat /\ g \in Seq(Byte) /\ Len(g) = n
  BY <1>4, <1>5
<1> HIDE DEF o, g, n
<1>11. /\ o \o g \in Seq(Byte) /\ Len(o \o g) = 1 + n
       /\ \A j \in 1 .. 1 + n : (o \o g)[j] = IF j <= 1 THEN o[j] ELSE g[j - 1]
  <2>1. /\ o \o g \in Seq(Byte) /\ Len(o \o g) = Len(o) + Len(g)
        /\ \A j \in 1 .. Len(o) + Len(g) : (o \o g)[j] = IF j <= Len(o) THEN o[j] ELSE g[j - Len(o)]
    BY <1>7, <1>10, ConcatProperties
  <2> QED BY <1>7, <1>10, <2>1
<1>12. 1 \in 1 .. 1 + n /\ \A j \in 1 .. n : 1 + j \in 1 .. 1 + n /\ ~(1 + j <= 1) /\ (1 + j) - 1 = j
  BY <1>10
<1>13. (o \o g)[1] = o[1] /\ \A j \in 1 .. n : (o \o g)[1 + j] = g[j]
  <2>1. (o \o g)[1] = o[1]
    BY <1>11, <1>12
  <2>2. ASSUME NEW j \in 1 .. n PROVE (o \o g)[1 + j] = g[j]
    BY <1>11, <1>12
  <2> QED BY <2>1, <2>2
<1> QED BY <1>1, <1>2, <1>3, <1>4, <1>5, <1>6, <1>7, <1>8, <1>9, <1>11, <1>13 DEF g, n

\* The first instructions of a program, one after the other
Placed(p, s, n) ==
  /\ s \in Seq(Byte)
  /\ Len(s) = Offset(p, n + 1)
  /\ \A k \in 1 .. n : \A j \in 1 .. Len(Piece(p, k)) : s[Offset(p, k) + j] = Piece(p, k)[j]

\* One more instruction
LEMMA PlacedNext ==
  ASSUME NEW p \in Program, NEW n \in Nat, n + 1 <= Len(p), NEW s, Placed(p, s, n)
  PROVE  Placed(p, s \o Piece(p, n + 1), n + 1)
<1> DEFINE q == Piece(p, n + 1)
           l == Len(q)
           o == Offset(p, n + 1)
<1>1. Len(p) \in Nat /\ n + 1 \in 1 .. Len(p)
  <2>1. p \in Seq(Instruction)
    BY DEF Program
  <2>2. Len(p) \in Nat
    BY <2>1, LenProperties
  <2> QED BY <2>2
<1>2. q \in Seq(Byte) /\ l \in Nat /\ o \in Nat /\ Offset(p, (n + 1) + 1) = o + l
  <2> DEFINE m == n + 1
  <2>1. m \in 1 .. Len(p)
    BY <1>1
  <2> HIDE DEF m
  <2>2. /\ Piece(p, m) \in Seq(Byte) /\ Len(Piece(p, m)) = 1 + Len(Given(p, m)) /\ Len(Given(p, m)) \in Nat
        /\ Offset(p, m + 1) = Offset(p, m) + 1 + Len(Given(p, m)) /\ m \in 1 .. Len(p) + 1
    BY <2>1, Pieces
  <2>3. Offset(p, m) \in Nat
    BY <2>2, Offsets
  <2>4. Offset(p, m + 1) = Offset(p, m) + Len(Piece(p, m)) /\ Len(Piece(p, m)) \in Nat
    BY <2>2, <2>3
  <2> QED BY <2>2, <2>3, <2>4 DEF m
<1>3. /\ s \in Seq(Byte) /\ Len(s) = o
      /\ \A k \in 1 .. n : \A j \in 1 .. Len(Piece(p, k)) : s[Offset(p, k) + j] = Piece(p, k)[j]
  BY DEF Placed
<1>p. q = Piece(p, n + 1)
  OBVIOUS
<1>l. l = Len(q)
  OBVIOUS
<1>o. o = Offset(p, n + 1)
  OBVIOUS
<1> HIDE DEF q, l, o
<1>4. /\ s \o q \in Seq(Byte) /\ Len(s \o q) = o + l
      /\ \A j \in 1 .. o + l : (s \o q)[j] = IF j <= o THEN s[j] ELSE q[j - o]
  BY <1>2, <1>3, <1>l, ConcatProperties
<1>5. ASSUME NEW k \in 1 .. n, NEW j \in 1 .. Len(Piece(p, k))
      PROVE  (s \o q)[Offset(p, k) + j] = Piece(p, k)[j]
  <2>1. k \in 1 .. Len(p) /\ k \in 1 .. Len(p) + 1 /\ k + 1 \in 1 .. Len(p) + 1 /\ n + 1 \in 1 .. Len(p) + 1
    BY <1>1
  <2>2. /\ Len(Piece(p, k)) = 1 + Len(Given(p, k)) /\ Len(Given(p, k)) \in Nat
        /\ Offset(p, k + 1) = Offset(p, k) + 1 + Len(Given(p, k))
    BY <2>1, Pieces
  <2>3. Offset(p, k) \in Nat /\ Offset(p, k + 1) \in Nat
    BY <2>1, Offsets
  <2>4. Offset(p, k + 1) <= o
    <3>1. CASE k + 1 = n + 1
      BY <1>2, <1>o, <3>1
    <3>2. CASE k + 1 # n + 1
      <4>1. k + 1 < n + 1
        BY <3>2
      <4>2. Offset(p, k + 1) < Offset(p, n + 1)
        BY <2>1, <4>1, OffsetsGrow
      <4> QED BY <1>2, <1>o, <2>3, <4>2
    <3> QED BY <3>1, <3>2
  <2>5. Offset(p, k) + j \in 1 .. o + l /\ Offset(p, k) + j <= o
    BY <1>2, <2>2, <2>3, <2>4
  <2> QED BY <1>3, <1>4, <2>5
<1>6. ASSUME NEW j \in 1 .. l PROVE (s \o q)[o + j] = q[j]
  <2>1. o + j \in 1 .. o + l /\ ~(o + j <= o) /\ (o + j) - o = j
    BY <1>2
  <2> QED BY <1>4, <2>1
<1>7. \A k \in 1 .. n + 1 : k \in 1 .. n \/ k = n + 1
  OBVIOUS
<1>8. \A k \in 1 .. n + 1 : \A j \in 1 .. Len(Piece(p, k)) : (s \o q)[Offset(p, k) + j] = Piece(p, k)[j]
  <2> TAKE k \in 1 .. n + 1
  <2> TAKE j \in 1 .. Len(Piece(p, k))
  <2>1. CASE k \in 1 .. n
    BY <1>5, <2>1
  <2>2. CASE k = n + 1
    BY <1>6, <1>p, <1>l, <1>o, <2>2
  <2> QED BY <1>7, <2>1, <2>2
<1>9. Placed(p, s \o q, n + 1)
  BY <1>2, <1>4, <1>8 DEF Placed
<1> QED BY <1>9, <1>p

\* The bytes of an assembled program
LEMMA Assembled ==
  ASSUME NEW p \in Program
  PROVE  Placed(p, Assemble(p), Len(p))
<1> DEFINE n == Len(p)
           parts == [k \in 1 .. n |-> Piece(p, k)]
<1>1. p \in Seq(Instruction) /\ DOMAIN p = 1 .. n /\ n \in Nat
  <2>1. p \in Seq(Instruction)
    BY DEF Program
  <2> QED BY <2>1, SeqEntries, LenProperties
<1>2. \A k \in 1 .. n : Piece(p, k) \in Seq(Byte)
  BY Pieces
<1>3. Assemble(p) = FlattenSeq(parts)
  BY <1>1 DEF Assemble, Piece
<1>n. n = Len(p)
  OBVIOUS
<1> HIDE DEF n
<1>4. parts \in Seq(Seq(Byte)) /\ Len(parts) = n /\ \A k \in 1 .. n : parts[k] = Piece(p, k)
  <2>1. parts \in [1 .. n -> Seq(Byte)]
    BY <1>2
  <2> HIDE DEF Byte
  <2> QED BY <1>1, <2>1
<1>5. Offset(p, 1) = 0
  BY Offsets
<1>e. <<>> \in Seq(Byte) /\ Len(<<>>) = 0
  OBVIOUS
<1>6. CASE n = 0
  <2>1. FlattenSeq(parts) = parts
    BY <1>4, <1>6 DEF FlattenSeq
  <2>2. parts = <<>>
    BY <1>4, <1>6, EmptySeq
  <2>3. Assemble(p) \in Seq(Byte) /\ Len(Assemble(p)) = Offset(p, n + 1)
    <3>1. Assemble(p) = <<>>
      BY <1>3, <2>1, <2>2, Zenon
    <3>2. Offset(p, n + 1) = 0
      BY <1>5, <1>6
    <3> HIDE DEF parts
    <3> QED BY <1>e, <3>1, <3>2
  <2>4. 1 .. n = {}
    BY <1>6
  <2> QED BY <1>n, <2>3, <2>4 DEF Placed
<1>7. CASE n # 0
  <2> HIDE DEF parts
  <2>1. PICK f : Flat(parts, f) /\ FlattenSeq(parts) = f[n]
    BY <1>1, <1>4, <1>7, FlattenParts
  <2>2. f[1] = Piece(p, 1) /\ \A i \in 2 .. n : f[i] = f[i - 1] \o Piece(p, i)
    <3>1. 1 \in 1 .. n /\ \A i \in 2 .. n : i \in 1 .. n
      BY <1>1, <1>7
    <3> QED BY <1>4, <2>1, <3>1 DEF Flat
  <2> DEFINE T == {i \in Nat : i + 1 <= n => Placed(p, f[i + 1], i + 1)}
  <2>3. 0 \in T
    <3>1. Placed(p, <<>>, 0)
      <4>1. Len(<<>>) = Offset(p, 0 + 1)
        BY <1>5, <1>e
      <4> QED BY <1>e, <4>1 DEF Placed
    <3>2. 0 + 1 <= Len(p)
      BY <1>1, <1>7, <1>n
    <3>3. Placed(p, <<>> \o Piece(p, 0 + 1), 0 + 1)
      BY <3>1, <3>2, PlacedNext
    <3>4. <<>> \o Piece(p, 0 + 1) = f[0 + 1]
      <4>1. 1 \in 1 .. n /\ 0 + 1 = 1
        BY <1>1, <1>7
      <4>2. <<>> \o Piece(p, 1) = Piece(p, 1)
        BY <1>2, <4>1, ConcatEmptySeq
      <4> QED BY <2>2, <4>1, <4>2
    <3> QED BY <3>3, <3>4
  <2>4. ASSUME NEW i \in Nat, i \in T PROVE i + 1 \in T
    <3> SUFFICES ASSUME (i + 1) + 1 <= n PROVE Placed(p, f[(i + 1) + 1], (i + 1) + 1)
      OBVIOUS
    <3>1. /\ i + 1 \in Nat /\ i + 1 <= n /\ (i + 1) + 1 <= Len(p)
          /\ (i + 1) + 1 \in 2 .. n /\ ((i + 1) + 1) - 1 = i + 1
      BY <1>1, <1>n
    <3>2. Placed(p, f[i + 1], i + 1)
      BY <2>4, <3>1
    <3>3. Placed(p, f[i + 1] \o Piece(p, (i + 1) + 1), (i + 1) + 1)
      BY <3>1, <3>2, PlacedNext
    <3>4. f[(i + 1) + 1] = f[i + 1] \o Piece(p, (i + 1) + 1)
      BY <2>2, <3>1
    <3> QED BY <3>3, <3>4
  <2> HIDE DEF T
  <2>5. Nat \subseteq T
    BY <2>3, <2>4, SetInduction
  <2>6. n - 1 \in Nat /\ (n - 1) + 1 = n
    BY <1>1, <1>7
  <2>7. Placed(p, f[n], n)
    <3>1. n - 1 \in T
      BY <2>5, <2>6
    <3>2. Placed(p, f[(n - 1) + 1], (n - 1) + 1)
      BY <1>1, <2>6, <3>1 DEF T
    <3> QED BY <2>6, <3>2
  <2> QED BY <1>3, <1>n, <2>1, <2>7
<1> QED BY <1>6, <1>7

-----------------------------------------------------------------------------
(***************************************************************************)
(* Where the interpreter is in an assembled program                        *)
(***************************************************************************)
\* The inductive invariant of the refinement: the program is the one that was
\* assembled, and the interpreter is at one of its instructions or at its end.
Located ==
  /\ program \in Program
  /\ instructions = Assemble(program)
  /\ \E k \in Places : Offset(program, k) = curr_instr

\* The place is that of the instruction that begins where the interpreter is.
LEMMA AtPlace ==
  ASSUME Located
  PROVE  /\ Len(program) \in Nat /\ DOMAIN program = 1 .. Len(program)
         /\ place \in 1 .. Len(program) + 1
         /\ curr_instr = Offset(program, place) /\ curr_instr \in Nat
         /\ length = Offset(program, Len(program) + 1) /\ length \in Nat
         /\ curr_instr < length <=> place \in 1 .. Len(program)
<1> DEFINE n == Len(program)
<1>1. n \in Nat /\ program \in Program /\ DOMAIN program = 1 .. n
  <2>1. program \in Seq(Instruction) /\ program \in Program
    BY DEF Located, Program
  <2> QED BY <2>1, SeqEntries, LenProperties
<1>2. place \in Places /\ Offset(program, place) = curr_instr
  BY DEF Located, place
<1>3. place \in 1 .. n + 1
  BY <1>2 DEF Places
<1>4. curr_instr \in Nat
  BY <1>1, <1>2, <1>3, Offsets
<1>5. length = Offset(program, n + 1)
  BY <1>1, Assembled DEF Placed, length, Located
<1>6. length \in Nat
  <2>1. n + 1 \in 1 .. n + 1
    BY <1>1
  <2> QED BY <1>1, <1>5, <2>1, Offsets
<1>7. curr_instr < length <=> place \in 1 .. n
  <2>1. CASE place = n + 1
    BY <1>1, <1>2, <1>4, <1>5, <1>6, <2>1
  <2>2. CASE place # n + 1
    <3>1. place \in 1 .. n /\ place < n + 1 /\ n + 1 \in 1 .. n + 1
      BY <1>1, <1>3, <2>2
    <3>2. Offset(program, place) < Offset(program, n + 1)
      BY <1>1, <1>3, <3>1, OffsetsGrow
    <3> QED BY <1>2, <1>5, <3>1, <3>2
  <2> QED BY <2>1, <2>2
<1> QED BY <1>1, <1>2, <1>3, <1>4, <1>5, <1>6, <1>7

\* No two instructions begin at the same byte: to go to where one begins is to go to it.
LEMMA GoesTo ==
  ASSUME Located, NEW k \in 1 .. Len(program) + 1,
         UNCHANGED <<program, instructions>>, curr_instr' = Offset(program, k)
  PROVE  Located' /\ place' = k
<1> DEFINE n == Len(program)
<1>1. program \in Program /\ n \in Nat
  BY AtPlace DEF Located
<1>2. \A j \in 1 .. n + 1 : Offset(program, j) = Offset(program, k) => j = k
  <2> SUFFICES ASSUME NEW j \in 1 .. n + 1, Offset(program, j) = Offset(program, k), j # k
               PROVE  FALSE
    OBVIOUS
  <2>1. j < k \/ k < j
    BY <1>1
  <2>2. Offset(program, j) \in Nat /\ Offset(program, k) \in Nat
    BY <1>1, Offsets
  <2>3. Offset(program, j) < Offset(program, k) \/ Offset(program, k) < Offset(program, j)
    BY <1>1, <2>1, OffsetsGrow
  <2> QED BY <2>2, <2>3
<1> DEFINE at == CHOOSE j \in 1 .. n + 1 : Offset(program, j) = Offset(program, k)
<1>3. at = k
  BY <1>2
<1>4. place' = (IF \E j \in 1 .. n + 1 : Offset(program, j) = Offset(program, k) THEN at ELSE 0)
  BY DEF place, Places
<1>5. place' = k
  BY <1>3, <1>4
<1>6. Located'
  BY DEF Located, Places
<1> QED BY <1>5, <1>6

\* What stays in place
LEMMA StaysAt ==
  ASSUME Located, UNCHANGED <<program, instructions, curr_instr>>
  PROVE  Located' /\ place' = place
BY DEF Located, place, Places

\* The instruction the interpreter is at, and its arguments as they were assembled
Here == program[place]
Bytes == Given(program, place)

\* What the interpreter fetches is the opcode of the instruction it is at and, of the
\* bytes that follow, the arguments that were assembled with it.
LEMMA Fetch ==
  ASSUME Typed, Located, curr_instr < length
  PROVE  /\ Here \in Instruction
         /\ opcode = Opcode(Here)
         /\ Bytes \in Seq(Byte) /\ Len(Bytes) \in Nat
         /\ Offset(program, place + 1) = curr_instr + 1 + Len(Bytes)
         /\ \A size \in Nat : size <= Len(Bytes) => Has(size)
         /\ Here.name = "CUT" => \A size \in Nat : Has(size) => size <= Len(Bytes)
         /\ \A size \in Nat : size <= Len(Bytes) => Argument(size) = SubSeq(Bytes, 1, size)
         /\ Argument(Len(Bytes)) = Bytes
<1> DEFINE n == Len(program)
           k == place
           l == Len(Bytes)
<1>1. /\ program \in Program /\ n \in Nat /\ k \in 1 .. n
      /\ curr_instr = Offset(program, k) /\ curr_instr \in Nat
      /\ length = Offset(program, n + 1) /\ length \in Nat
  BY AtPlace DEF Located
<1>2. /\ Here \in Instruction
      /\ Here.name = "CUT" => k = n
      /\ Bytes \in Seq(Byte) /\ l \in Nat
      /\ Offset(program, k + 1) = curr_instr + 1 + l
      /\ Len(Piece(program, k)) = 1 + l
      /\ Piece(program, k)[1] = Opcode(Here)
      /\ \A j \in 1 .. l : Piece(program, k)[1 + j] = Bytes[j]
  BY <1>1, Pieces DEF Here, Bytes
<1>3. /\ instructions \in Seq(Byte) /\ Len(instructions) = length
      /\ \A j \in 1 .. 1 + l : instructions[curr_instr + j] = Piece(program, k)[j]
  <2>1. Placed(program, instructions, n)
    BY <1>1, Assembled DEF Located
  <2>2. \A j \in 1 .. Len(Piece(program, k)) : instructions[Offset(program, k) + j] = Piece(program, k)[j]
    BY <1>1, <2>1 DEF Placed
  <2>3. instructions \in Seq(Byte) /\ Len(instructions) = length
    BY <2>1 DEF Placed, length
  <2> QED BY <1>1, <1>2, <2>2, <2>3
<1>4. curr_instr + 1 + l <= length
  <2>1. CASE k = n
    BY <1>1, <1>2, <2>1
  <2>2. CASE k # n
    <3>1. k + 1 < n + 1 /\ k + 1 \in 1 .. n + 1 /\ n + 1 \in 1 .. n + 1
      BY <1>1, <2>2
    <3>2. Offset(program, k + 1) < Offset(program, n + 1)
      BY <1>1, <3>1, OffsetsGrow
    <3> QED BY <1>1, <1>2, <3>2
  <2> QED BY <2>1, <2>2
<1>f. Here.name = "CUT" => length = curr_instr + 1 + l
  BY <1>1, <1>2
<1>l. l = Len(Bytes)
  OBVIOUS
<1> HIDE DEF l, k, n
<1>5. opcode = Opcode(Here)
  <2>1. 1 \in 1 .. 1 + l
    BY <1>2
  <2> QED BY <1>2, <1>3, <2>1 DEF opcode
<1>6. ASSUME NEW size \in Nat, size <= l
      PROVE  Has(size) /\ Argument(size) = SubSeq(Bytes, 1, size)
  <2>1. Has(size)
    BY <1>1, <1>2, <1>4, <1>6 DEF Has
  <2> DEFINE a == curr_instr + 1
  <2>2. a \in Nat /\ a + size <= Len(instructions) /\ curr_instr + 2 = a + 1
    BY <1>1, <1>3, <2>1 DEF Has
  <2>3. Argument(size) = SubSeq(instructions, a + 1, a + size)
    BY <2>2 DEF Argument
  <2>a. a = curr_instr + 1
    OBVIOUS
  <2> HIDE DEF a
  <2>4. /\ Argument(size) \in Seq(Byte) /\ Len(Argument(size)) = size
        /\ \A j \in 1 .. size : Argument(size)[j] = instructions[a + j]
    BY <1>3, <2>2, <2>3, Part
  <2>5. /\ SubSeq(Bytes, 1, size) \in Seq(Byte) /\ Len(SubSeq(Bytes, 1, size)) = size
        /\ \A j \in 1 .. size : SubSeq(Bytes, 1, size)[j] = Bytes[j]
    <3>1. 0 \in Nat /\ 0 + size <= Len(Bytes) /\ 0 + 1 = 1 /\ 0 + size = size
      BY <1>6, <1>l
    <3>2. /\ SubSeq(Bytes, 0 + 1, 0 + size) \in Seq(Byte) /\ Len(SubSeq(Bytes, 0 + 1, 0 + size)) = size
          /\ \A j \in 1 .. size : SubSeq(Bytes, 0 + 1, 0 + size)[j] = Bytes[0 + j]
      BY <1>2, <3>1, Part
    <3> QED BY <3>1, <3>2
  <2>6. ASSUME NEW j \in 1 .. size PROVE Argument(size)[j] = SubSeq(Bytes, 1, size)[j]
    <3>0. l \in Nat /\ curr_instr \in Nat
      BY <1>1, <1>2
    <3>1. j \in 1 .. l /\ 1 + j \in 1 .. 1 + l /\ a + j = curr_instr + (1 + j)
      BY <1>6, <2>a, <3>0
    <3> QED BY <1>2, <1>3, <2>4, <2>5, <3>1
  <2>7. Argument(size) = SubSeq(Bytes, 1, size)
    BY <2>4, <2>5, <2>6, SeqEqual
  <2> QED BY <2>1, <2>7
<1>7. Argument(l) = Bytes
  <2>1. Argument(l) = SubSeq(Bytes, 1, l)
    BY <1>2, <1>6
  <2>2. SubSeq(Bytes, 1, l) = Bytes
    BY <1>2, <1>l, SubSeqFull
  <2> QED BY <2>1, <2>2
<1>8. Here.name = "CUT" => \A size \in Nat : Has(size) => size <= l
  BY <1>1, <1>2, <1>f DEF Has
<1> QED BY <1>2, <1>5, <1>6, <1>7, <1>8 DEF l, k

\* Only a CUT has fewer bytes than its fixed arguments.
LEMMA Whole ==
  ASSUME Typed, Located, curr_instr < length, Here.name # "CUT"
  PROVE  Has(ArgumentSize[opcode]) /\ ArgumentSize[opcode] <= Len(Bytes)
<1> DEFINE i == Here
           target == Offset(program, Here.arg)
<1>0. /\ AddrSize \in Nat /\ IntSize \in Nat
      /\ \A m \in ImplementedMath : SizeOf[m[2]] \in Nat
  BY Sizes
<1>1. /\ i \in Instruction /\ opcode = Opcode(i)
      /\ Bytes \in Seq(Byte) /\ Len(Bytes) \in Nat
      /\ \A size \in Nat : size <= Len(Bytes) => Has(size)
  BY Fetch
<1>2. Bytes = Arguments(i, target)
  BY DEF Bytes, Given, Here
<1>3. i.name = "JUMP" => target \in Nat
  <2>1. place \in 1 .. Len(program) /\ program \in Program
    BY AtPlace DEF Located
  <2> QED BY <2>1, Pieces DEF Here
<1>w. \A n \in Int : \A size \in Nat : Word(n, size) \in Seq(Byte) /\ Len(Word(n, size)) = size
  BY WordType
<1>4. \E t \in Int : Bytes = Arguments(i, t) /\ (i.name = "JUMP" => t = target)
  <2>1. CASE i.name = "JUMP"
    BY <1>2, <1>3, <2>1
  <2>2. CASE i.name # "JUMP"
    <3> HIDE DEF i, target
    <3>1. Arguments(i, target) = Arguments(i, 0)
      BY <2>2 DEF Arguments
    <3> QED BY <1>2, <2>2, <3>1
  <2> QED BY <2>1, <2>2
<1>5. PICK t \in Int : Bytes = Arguments(i, t)
  BY <1>4
<1>n. i.name # "CUT"
  OBVIOUS
<1> HIDE DEF i, target
<1>6. ArgumentSize[opcode] \in Nat /\ ArgumentSize[opcode] <= Len(Bytes)
  <2>1. CASE i.name \in {"NO_OP", "END", "PRINTschar", "MOVEP"}
    <3>1. opcode = Code(i.name)
      BY <1>1, <1>5, <2>1, Kinds
    <3>2. ArgumentSize[opcode] = 0
      BY <2>1, <3>1, ArgumentSizes
    <3> QED BY <1>1, <3>2
  <2>2. CASE i.name \in {"JUMP", "MOVE"}
    <3>1. opcode = Code(i.name) /\ \E n \in Int : Bytes = Word(n, AddrSize)
      BY <1>1, <1>5, <2>2, Kinds
    <3>2. ArgumentSize[opcode] = AddrSize
      BY <2>2, <3>1, ArgumentSizes
    <3> QED BY <1>0, <1>w, <3>1, <3>2
  <2>3. CASE i.name = "PRINTascii"
    <3>1. opcode = Code(i.name) /\ \E n \in Int : Bytes = Word(n, IntSize)
      BY <1>1, <1>5, <2>3, Kinds
    <3>2. ArgumentSize[opcode] = IntSize
      BY <2>3, <3>1, ArgumentSizes
    <3> QED BY <1>0, <1>w, <3>1, <3>2
  <2>4. CASE i.name = "SET"
    <3>1. opcode = Code("SET") /\ Bytes = Word(Len(i.data), AddrSize) \o i.data /\ i.data \in Seq(Byte)
      BY <1>1, <1>5, <2>4, Kinds
    <3>2. ArgumentSize[opcode] = AddrSize
      BY <3>1, ArgumentSizes
    <3>3. Len(i.data) \in Nat
      BY <3>1, LenProperties
    <3>4. Word(Len(i.data), AddrSize) \in Seq(Byte) /\ Len(Word(Len(i.data), AddrSize)) = AddrSize
      BY <1>0, <1>w, <3>3
    <3>5. Len(Bytes) = AddrSize + Len(i.data)
      <4> DEFINE w == Word(Len(i.data), AddrSize)
                 d == i.data
      <4>1. w \in Seq(Byte) /\ d \in Seq(Byte) /\ Bytes = w \o d /\ Len(w) = AddrSize
        BY <3>1, <3>4
      <4> HIDE DEF w, d
      <4>2. Len(Bytes) = AddrSize + Len(d)
        BY <4>1, ConcatProperties
      <4> QED BY <4>2 DEF d
    <3> QED BY <1>0, <3>2, <3>3, <3>5
  <2>5. CASE i.name = "Cur"
    <3>1. /\ <<i.op, i.type>> \in ImplementedMath /\ opcode = MathCode(i.op, i.type, "Cur")
          /\ \E n \in Int : Bytes = Word(n, SizeOf[i.type])
      BY <1>1, <1>5, <2>5, Kinds
    <3> DEFINE m == <<i.op, i.type>>
    <3>2. m \in ImplementedMath /\ m[1] = i.op /\ m[2] = i.type
      BY <3>1
    <3> HIDE DEF m
    <3>3. ArgumentSize[opcode] = SizeOf[m[2]]
      BY <3>1, <3>2, ArgumentSizes
    <3>4. SizeOf[m[2]] \in Nat
      BY <1>0, <3>2
    <3>5. PICK n \in Int : Bytes = Word(n, SizeOf[m[2]])
      BY <3>1, <3>2
    <3> DEFINE size == SizeOf[m[2]]
    <3>6. size \in Nat /\ Bytes = Word(n, size) /\ ArgumentSize[opcode] = size
      BY <3>3, <3>4, <3>5
    <3> HIDE DEF size
    <3>7. Len(Bytes) = size
      BY <1>w, <3>6
    <3> QED BY <3>6, <3>7
  <2>6. CASE i.name = "CurP"
    <3>1. /\ <<i.op, i.type>> \in ImplementedMath /\ opcode = MathCode(i.op, i.type, "CurP")
          /\ \E n \in Int : Bytes = Word(n, AddrSize)
      BY <1>1, <1>5, <2>6, Kinds
    <3> DEFINE m == <<i.op, i.type>>
    <3>2. m \in ImplementedMath /\ m[1] = i.op /\ m[2] = i.type
      BY <3>1
    <3> HIDE DEF m
    <3>3. ArgumentSize[opcode] = AddrSize
      BY <3>1, <3>2, ArgumentSizes
    <3> QED BY <1>0, <1>w, <3>1, <3>3
  <2>7. i.name \in {"NO_OP", "END", "PRINTschar", "MOVEP", "JUMP", "MOVE", "PRINTascii", "SET", "Cur", "CurP"}
    BY <1>1, <1>n, <1>5, Kinds
  <2> QED BY <2>1, <2>2, <2>3, <2>4, <2>5, <2>6, <2>7
<1> QED BY <1>1, <1>6

\* Of a CUT, the fixed arguments or the bytes of SET are missing.
LEMMA CutLacks ==
  ASSUME Typed, Located, curr_instr < length, Here.name = "CUT"
  PROVE  /\ opcode \in Byte
         /\ Has(ArgumentSize[opcode]) =>
              opcode = Code("SET") /\ ~Has(AddrSize + Address(AddrSize))
<1> DEFINE i == Here
<1>1. /\ i \in Instruction /\ opcode = Opcode(i)
      /\ Bytes \in Seq(Byte) /\ Len(Bytes) \in Nat
      /\ \A size \in Nat : Has(size) => size <= Len(Bytes)
      /\ \A size \in Nat : size <= Len(Bytes) => Argument(size) = SubSeq(Bytes, 1, size)
  BY Fetch
<1>2. Bytes = i.data /\ opcode = i.arg /\ IsCutShort(i.arg, i.data) /\ opcode \in Byte
  <2>1. i.name = "CUT"
    OBVIOUS
  <2>2. Bytes = Arguments(i, Offset(program, i.arg))
    BY DEF Bytes, Given, Here
  <2> HIDE DEF i
  <2>3. \A t : Arguments(i, t) = i.data
    BY <2>1 DEF Arguments
  <2>4. 0 \in Int
    OBVIOUS
  <2>5. opcode = i.arg /\ IsCutShort(i.arg, i.data)
    BY <1>1, <2>1, <2>4, Kinds
  <2>6. opcode \in Byte
    BY <1>1, <2>4, ArgumentsType
  <2> QED BY <2>2, <2>3, <2>5, <2>6
<1> HIDE DEF i
<1>3. IsCutShort(opcode, Bytes)
  BY <1>2
<1>4. ASSUME Has(ArgumentSize[opcode])
      PROVE  opcode = Code("SET") /\ ~Has(AddrSize + Address(AddrSize))
  <2>1. ArgumentSize[opcode] \in Nat
    BY <1>2, ArgumentSizes
  <2>2. ~(Len(Bytes) < ArgumentSize[opcode])
    BY <1>1, <1>4, <2>1
  <2>3. /\ opcode = Code("SET") /\ Len(Bytes) >= AddrSize
        /\ Len(Bytes) - AddrSize < Unsigned(SubSeq(Bytes, 1, AddrSize))
    BY <1>3, <2>2 DEF IsCutShort
  <2>4. AddrSize \in Nat
    BY Sizes
  <2>5. Address(AddrSize) = Unsigned(SubSeq(Bytes, 1, AddrSize))
    BY <1>1, <2>3, <2>4 DEF Address
  <2>6. Address(AddrSize) \in Nat
    <3>1. Has(AddrSize)
      BY <1>4, <2>3, ArgumentSizes
    <3>2. Argument(AddrSize) \in Seq(Byte)
      BY <2>4, <3>1, ReadsBytes
    <3> QED BY <3>2, UnsignedRange DEF Address
  <2>7. AddrSize + Address(AddrSize) \in Nat /\ ~(AddrSize + Address(AddrSize) <= Len(Bytes))
    BY <1>1, <2>3, <2>4, <2>5, <2>6
  <2> QED BY <1>1, <2>3, <2>7
<1> QED BY <1>2, <1>4

\* No two kinds of instruction have the same opcode: what the interpreter takes an
\* instruction for is what it is.
LEMMA Decode ==
  ASSUME Typed, Located, curr_instr < length, Here.name # "CUT"
  PROVE  /\ \A name \in {"NO_OP", "END", "JUMP", "MOVE", "SET", "PRINTascii", "PRINTschar"} :
              opcode = Code(name) => Here.name = name
         /\ \A m \in ImplementedMath : \A f \in {"Cur", "CurP"} :
              opcode = MathCode(m[1], m[2], f) =>
                Here.name = f /\ Here.op = m[1] /\ Here.type = m[2]
<1> DEFINE i == Here
           names == {"NO_OP", "END", "JUMP", "MOVE", "SET", "PRINTascii", "PRINTschar"}
<1>1. i \in Instruction /\ opcode = Opcode(i) /\ i.name # "CUT"
  BY Fetch
<1> HIDE DEF i
<1>2. \/ i.name \in names \cup {"MOVEP"} /\ opcode = Code(i.name)
      \/ /\ i.name \in {"Cur", "CurP"} /\ <<i.op, i.type>> \in ImplementedMath
         /\ opcode = MathCode(i.op, i.type, i.name)
  <2>1. 0 \in Int
    OBVIOUS
  <2> QED BY <1>1, <2>1, Kinds
<1>3. \A a, b \in names \cup {"MOVEP"} : Code(a) = Code(b) => a = b
  BY Codes
<1>4. \A a \in names \cup {"MOVEP"} : Code(a) \in 0 .. 11 \cup 105 .. 106
  BY Codes
<1>5. \A m \in ImplementedMath : \A f \in {"Cur", "CurP"} : MathCode(m[1], m[2], f) \in 13 .. 102
  BY MathCodes
<1>d. \A c \in 13 .. 102 : c \notin 0 .. 11 \cup 105 .. 106
  OBVIOUS
<1>6. CASE i.name \in names \cup {"MOVEP"} /\ opcode = Code(i.name)
  <2>1. \A m \in ImplementedMath : \A f \in {"Cur", "CurP"} : opcode # MathCode(m[1], m[2], f)
    BY <1>4, <1>5, <1>6, <1>d
  <2>2. \A name \in names : opcode = Code(name) => i.name = name
    BY <1>3, <1>6
  <2> QED BY <2>1, <2>2 DEF i
<1>7. CASE /\ i.name \in {"Cur", "CurP"} /\ <<i.op, i.type>> \in ImplementedMath
           /\ opcode = MathCode(i.op, i.type, i.name)
  <2> DEFINE k == <<i.op, i.type>>
  <2>1. k \in ImplementedMath /\ k[1] = i.op /\ k[2] = i.type
    BY <1>7
  <2> HIDE DEF k
  <2>2. opcode = MathCode(k[1], k[2], i.name)
    BY <1>7, <2>1
  <2>3. \A name \in names : opcode # Code(name)
    BY <1>4, <1>5, <1>7, <1>d, <2>1, <2>2
  <2>4. ASSUME NEW m \in ImplementedMath, NEW f \in {"Cur", "CurP"}, opcode = MathCode(m[1], m[2], f)
        PROVE  i.name = f /\ i.op = m[1] /\ i.type = m[2]
    <3>1. m = k /\ f = i.name
      <4> DEFINE name == i.name
      <4>1. name \in {"Cur", "CurP"} /\ MathCode(m[1], m[2], f) = MathCode(k[1], k[2], name)
        BY <1>7, <2>2, <2>4
      <4> HIDE DEF name
      <4>2. m = k /\ f = name
        BY <2>1, <4>1, MathCodes
      <4> QED BY <4>2 DEF name
    <3> QED BY <2>1, <3>1
  <2> QED BY <2>3, <2>4 DEF i
<1> QED BY <1>2, <1>6, <1>7

\* The arguments of each instruction are read as they were written.
LEMMA Reads ==
  ASSUME Typed, Located, curr_instr < length
  PROVE  /\ Here.name \in {"NO_OP", "END", "PRINTschar"} => Len(Bytes) = 0
         /\ Here.name = "JUMP" =>
              /\ Here.arg \in 1 .. Len(program) + 1
              /\ Address(AddrSize) = Offset(program, Here.arg)
         /\ Here.name \in {"MOVE", "CurP"} =>
              Len(Bytes) = AddrSize /\ Here.arg \in Nat /\ Address(AddrSize) = Here.arg
         /\ Here.name = "SET" =>
              /\ Here.data \in Seq(Byte) /\ Len(Here.data) \in Nat
              /\ Address(AddrSize) = Len(Here.data)
              /\ Len(Bytes) = AddrSize + Len(Here.data)
              /\ SubSeq(Argument(AddrSize + Len(Here.data)), AddrSize + 1, AddrSize + Len(Here.data)) = Here.data
         /\ Here.name = "PRINTascii" =>
              /\ Len(Bytes) = IntSize /\ Here.arg \in 0 .. Pow256[IntSize] - 1
              /\ Argument(IntSize) = Word(Here.arg, IntSize)
         /\ Here.name = "Cur" =>
              /\ SizeOf[Here.type] \in Nat
              /\ Len(Bytes) = SizeOf[Here.type] /\ Argument(SizeOf[Here.type]) = Word(Here.arg, SizeOf[Here.type])
<1> DEFINE i == Here
           target == Offset(program, Here.arg)
<1>0. AddrSize \in Nat /\ IntSize \in Nat
  BY Sizes
<1>1. /\ i \in Instruction
      /\ Bytes \in Seq(Byte) /\ Len(Bytes) \in Nat
      /\ \A size \in Nat : size <= Len(Bytes) => Argument(size) = SubSeq(Bytes, 1, size)
      /\ Argument(Len(Bytes)) = Bytes
  BY Fetch
<1>2. Bytes = Arguments(i, target)
  BY DEF Bytes, Given, Here
<1>3. /\ program \in Program /\ place \in 1 .. Len(program) /\ Len(program) \in Nat
      /\ i.name = "JUMP" => i.arg \in 1 .. Len(program) + 1 /\ target \in Nat
  <2>1. place \in 1 .. Len(program) /\ program \in Program /\ Len(program) \in Nat
    BY AtPlace DEF Located
  <2> QED BY <2>1, Pieces DEF Here
<1>4. Offset(program, Len(program) + 1) < Pow256[AddrSize]
  BY <1>3 DEF Program
<1>p. Pow256[AddrSize] \in Nat /\ Pow256[IntSize] \in Nat
  BY <1>0, Pow256Def
<1>w. \A n \in Int : \A size \in Nat : Word(n, size) \in Seq(Byte) /\ Len(Word(n, size)) = size
  BY WordType
<1>z. 0 \in Int
  OBVIOUS
<1>5. ASSUME i.name \in {"NO_OP", "END", "PRINTschar"} PROVE Len(Bytes) = 0
  <2> HIDE DEF i, target
  <2>1. Bytes = <<>>
    BY <1>2, <1>5 DEF Arguments
  <2> QED BY <2>1
<1>6. ASSUME i.name = "JUMP"
      PROVE  i.arg \in 1 .. Len(program) + 1 /\ Address(AddrSize) = target
  <2>1. target < Pow256[AddrSize]
    <3> DEFINE k == i.arg
               n == Len(program)
    <3>1. k \in 1 .. n + 1 /\ n + 1 \in 1 .. n + 1 /\ n \in Nat
      BY <1>3, <1>6
    <3>2. k = n + 1 \/ Offset(program, k) < Offset(program, n + 1)
      <4>1. k = n + 1 \/ k < n + 1
        BY <3>1
      <4> HIDE DEF k
      <4> QED BY <1>3, <3>1, <4>1, OffsetsGrow
    <3>3. Offset(program, n + 1) \in Nat /\ Offset(program, k) \in Nat
      BY <1>3, <3>1, Offsets
    <3> QED BY <1>4, <1>p, <3>2, <3>3
  <2>2. target \in Nat
    BY <1>3, <1>6
  <2>3. i.name = "JUMP"
    BY <1>6
  <2> HIDE DEF i, target
  <2>4. Bytes = Word(target, AddrSize)
    BY <1>2, <2>3 DEF Arguments
  <2>5. Len(Bytes) = AddrSize
    BY <1>0, <1>w, <2>2, <2>4
  <2>6. Address(AddrSize) = Unsigned(Word(target, AddrSize))
    BY <1>1, <2>4, <2>5 DEF Address
  <2> QED BY <1>0, <1>3, <1>6, <2>1, <2>2, <2>6, UnsignedWord
<1>7. ASSUME i.name \in {"MOVE", "CurP"}
      PROVE  Len(Bytes) = AddrSize /\ i.arg \in Nat /\ Address(AddrSize) = i.arg
  <2> HIDE DEF i, target
  <2>1. Bytes = Word(i.arg, AddrSize)
    BY <1>2, <1>7 DEF Arguments
  <2>2. i.arg \in 0 .. Pow256[AddrSize] - 1
    BY <1>1, <1>z, <1>7, Kinds
  <2>3. i.arg \in Nat /\ i.arg < Pow256[AddrSize]
    BY <1>p, <2>2
  <2>4. Len(Bytes) = AddrSize
    BY <1>0, <1>w, <2>1, <2>3
  <2>5. Address(AddrSize) = Unsigned(Word(i.arg, AddrSize))
    BY <1>1, <2>1, <2>4 DEF Address
  <2> QED BY <1>0, <2>3, <2>4, <2>5, UnsignedWord
<1>8. ASSUME i.name = "SET"
      PROVE  /\ i.data \in Seq(Byte) /\ Len(i.data) \in Nat
             /\ Address(AddrSize) = Len(i.data)
             /\ Len(Bytes) = AddrSize + Len(i.data)
             /\ SubSeq(Argument(AddrSize + Len(i.data)), AddrSize + 1, AddrSize + Len(i.data)) = i.data
  <2> DEFINE d == i.data
             n == Len(d)
             w == Word(n, AddrSize)
  <2>1. d \in Seq(Byte)
    BY <1>1, <1>z, ArgumentsType, Kinds
  <2>2. n \in Nat
    BY <2>1, LenProperties
  <2>3. Bytes = w \o d
    <3> HIDE DEF i, target
    <3> QED BY <1>2, <1>8 DEF Arguments
  <2>n. n = Len(d)
    OBVIOUS
  <2>w. w = Word(n, AddrSize)
    OBVIOUS
  <2> HIDE DEF d, n, w
  <2>4. w \in Seq(Byte) /\ Len(w) = AddrSize
    BY <1>0, <1>w, <2>2, <2>w
  <2>5. /\ Len(Bytes) = AddrSize + n
        /\ \A j \in 1 .. AddrSize + n : Bytes[j] = IF j <= AddrSize THEN w[j] ELSE d[j - AddrSize]
    BY <2>1, <2>3, <2>4, <2>n, ConcatProperties
  <2>6. n < Pow256[AddrSize]
    <3> DEFINE k == place
               m == Len(program)
    <3>1. /\ Offset(program, k + 1) = curr_instr + 1 + Len(Bytes) /\ curr_instr \in Nat
          /\ k + 1 \in 1 .. m + 1 /\ m + 1 \in 1 .. m + 1 /\ m \in Nat
      BY <1>3, Fetch, AtPlace
    <3>2. k + 1 = m + 1 \/ Offset(program, k + 1) < Offset(program, m + 1)
      <4>1. k + 1 = m + 1 \/ k + 1 < m + 1
        BY <3>1
      <4> DEFINE j == k + 1
      <4>2. j \in 1 .. m + 1 /\ (j = m + 1 \/ j < m + 1)
        BY <3>1, <4>1
      <4> HIDE DEF j
      <4>3. j = m + 1 \/ Offset(program, j) < Offset(program, m + 1)
        BY <1>3, <3>1, <4>2, OffsetsGrow
      <4> QED BY <4>3 DEF j
    <3>3. Offset(program, m + 1) \in Nat /\ Offset(program, k + 1) \in Nat
      BY <1>3, <3>1, Offsets
    <3>4. Offset(program, k + 1) < Pow256[AddrSize]
      BY <1>4, <1>p, <3>2, <3>3
    <3> HIDE DEF k
    <3> QED BY <1>0, <1>p, <2>2, <2>5, <3>1, <3>3, <3>4
  <2>7. Argument(AddrSize) = w
    <3>1. AddrSize <= Len(Bytes)
      BY <1>0, <2>2, <2>5
    <3>2. Argument(AddrSize) = SubSeq(Bytes, 1, AddrSize)
      BY <1>0, <1>1, <3>1
    <3>3. /\ SubSeq(Bytes, 1, AddrSize) \in Seq(Byte) /\ Len(SubSeq(Bytes, 1, AddrSize)) = AddrSize
          /\ \A j \in 1 .. AddrSize : SubSeq(Bytes, 1, AddrSize)[j] = Bytes[j]
      <4>1. 0 \in Nat /\ 0 + AddrSize <= Len(Bytes) /\ 0 + 1 = 1 /\ 0 + AddrSize = AddrSize
        BY <1>0, <3>1
      <4>2. /\ SubSeq(Bytes, 0 + 1, 0 + AddrSize) \in Seq(Byte) /\ Len(SubSeq(Bytes, 0 + 1, 0 + AddrSize)) = AddrSize
            /\ \A j \in 1 .. AddrSize : SubSeq(Bytes, 0 + 1, 0 + AddrSize)[j] = Bytes[0 + j]
        BY <1>0, <1>1, <4>1, Part
      <4> QED BY <1>0, <4>1, <4>2
    <3>4. \A j \in 1 .. AddrSize : SubSeq(Bytes, 1, AddrSize)[j] = w[j]
      <4> TAKE j \in 1 .. AddrSize
      <4>1. j \in 1 .. AddrSize + n /\ j <= AddrSize
        BY <1>0, <2>2
      <4> QED BY <2>5, <3>3, <4>1
    <3>5. SubSeq(Bytes, 1, AddrSize) = w
      BY <2>4, <3>3, <3>4, SeqEqual
    <3> QED BY <3>2, <3>5
  <2>8. Address(AddrSize) = n
    BY <1>0, <2>2, <2>6, <2>7, <2>w, UnsignedWord DEF Address
  <2>9. SubSeq(Argument(AddrSize + n), AddrSize + 1, AddrSize + n) = d
    <3>1. Argument(AddrSize + n) = Bytes
      BY <1>1, <2>5
    <3>2. /\ SubSeq(Bytes, AddrSize + 1, AddrSize + n) \in Seq(Byte)
          /\ Len(SubSeq(Bytes, AddrSize + 1, AddrSize + n)) = n
          /\ \A j \in 1 .. n : SubSeq(Bytes, AddrSize + 1, AddrSize + n)[j] = Bytes[AddrSize + j]
      <4>1. AddrSize + n <= Len(Bytes)
        BY <1>0, <2>2, <2>5
      <4> QED BY <1>0, <1>1, <2>2, <4>1, Part
    <3>3. \A j \in 1 .. n : SubSeq(Bytes, AddrSize + 1, AddrSize + n)[j] = d[j]
      <4> TAKE j \in 1 .. n
      <4>1. AddrSize + j \in 1 .. AddrSize + n /\ ~(AddrSize + j <= AddrSize) /\ (AddrSize + j) - AddrSize = j
        BY <1>0, <2>2
      <4> QED BY <2>5, <3>2, <4>1
    <3>4. SubSeq(Bytes, AddrSize + 1, AddrSize + n) = d
      BY <2>1, <2>n, <3>2, <3>3, SeqEqual
    <3> QED BY <3>1, <3>4
  <2> QED BY <2>1, <2>2, <2>5, <2>8, <2>9 DEF n, d
<1>9. ASSUME i.name = "PRINTascii"
      PROVE  /\ Len(Bytes) = IntSize /\ i.arg \in 0 .. Pow256[IntSize] - 1
             /\ Argument(IntSize) = Word(i.arg, IntSize)
  <2> HIDE DEF i, target
  <2>1. Bytes = Word(i.arg, IntSize)
    BY <1>2, <1>9 DEF Arguments
  <2>2. i.arg \in 0 .. Pow256[IntSize] - 1
    BY <1>1, <1>z, <1>9, Kinds
  <2>3. i.arg \in Int
    BY <1>p, <2>2
  <2>4. Len(Bytes) = IntSize
    BY <1>0, <1>w, <2>1, <2>3
  <2> QED BY <1>1, <2>1, <2>2, <2>4
<1>10. ASSUME i.name = "Cur"
       PROVE  /\ SizeOf[i.type] \in Nat
              /\ Len(Bytes) = SizeOf[i.type] /\ Argument(SizeOf[i.type]) = Word(i.arg, SizeOf[i.type])
  <2> HIDE DEF i, target
  <2>1. Bytes = Word(i.arg, SizeOf[i.type])
    BY <1>2, <1>10 DEF Arguments
  <2>2. <<i.op, i.type>> \in ImplementedMath /\ i.arg \in Int
    BY <1>1, <1>z, <1>10, Kinds
  <2>3. SizeOf[i.type] \in Nat
    <3> DEFINE m == <<i.op, i.type>>
    <3>1. m \in ImplementedMath /\ m[2] = i.type
      BY <2>2
    <3> QED BY <3>1, Sizes
  <2>4. Len(Bytes) = SizeOf[i.type]
    <3> DEFINE size == SizeOf[i.type]
    <3>1. size \in Nat /\ Bytes = Word(i.arg, size)
      BY <2>1, <2>3
    <3> HIDE DEF size
    <3>2. Len(Bytes) = size
      BY <1>w, <2>2, <3>1
    <3> QED BY <3>2 DEF size
  <2> QED BY <1>1, <2>1, <2>3, <2>4
<1> HIDE DEF i
<1>e. i = Here /\ target = Offset(program, Here.arg)
  BY DEF i
<1> HIDE DEF target
<1> QED BY <1>5, <1>6, <1>7, <1>8, <1>9, <1>10, <1>e, Zenon

-----------------------------------------------------------------------------
(***************************************************************************)
(* The interpreter implements the machine of the comments                  *)
(***************************************************************************)
\* The machine of the comments has the same words, and the same arithmetic of them.
LEMMA SameWords ==
  /\ \A n, size : Abstract!Word(n, size) = Word(n, size)
  /\ \A bytes : Abstract!Signed(bytes) = Signed(bytes)
  /\ Abstract!SizeOf = SizeOf
  /\ \A op, type, a, b : Abstract!Result(op, type, a, b) = Result(op, type, a, b)
  /\ \A op, type, a, b : Abstract!IsUndefined(op, type, a, b) <=> IsUndefined(op, type, a, b)
<1>1. Abstract!Pow256 = Pow256
  BY DEF Abstract!Pow256, Pow256
<1>2. \A n, size : Abstract!Word(n, size) = Word(n, size)
  BY <1>1 DEF Abstract!Word, Word
<1>3. \A bytes : Abstract!Unsigned(bytes) = Unsigned(bytes)
  BY <1>1 DEF Abstract!Unsigned, Unsigned
<1>4. \A bytes : Abstract!Signed(bytes) = Signed(bytes)
  BY <1>1, <1>3 DEF Abstract!Signed, Signed
<1>5. Abstract!SizeOf = SizeOf
  BY DEF Abstract!SizeOf, SizeOf
<1>6. \A op, a, b : Abstract!Exact(op, a, b) = Exact(op, a, b)
  BY DEF Abstract!Exact, Exact, Abstract!Quotient, Quotient, Abstract!Abs, Abs
<1>7. \A op, type, a, b : Abstract!Result(op, type, a, b) = Result(op, type, a, b)
  BY <1>2, <1>4, <1>5, <1>6 DEF Abstract!Result, Result
<1>8. \A op, type, a, b : Abstract!IsUndefined(op, type, a, b) <=> IsUndefined(op, type, a, b)
  BY <1>1, <1>4, <1>6 DEF Abstract!IsUndefined, IsUndefined, Abstract!IsInt, IsInt
<1> QED BY <1>2, <1>4, <1>5, <1>7, <1>8

\* At an instruction
Running == pc = "Run" /\ curr_instr < length

\* The machine of the comments is at the instruction the interpreter is at.
LEMMA SameInstruction ==
  ASSUME Located, Running
  PROVE  /\ Abstract!i = Here
         /\ \A names : Abstract!Here(names) <=> Here.name \in names
         /\ place \in 1 .. Len(program) /\ Len(program) \in Nat
<1>1. place \in 1 .. Len(program) /\ Len(program) \in Nat /\ DOMAIN program = 1 .. Len(program)
  BY AtPlace DEF Running
<1>2. Abstract!i = Here
  BY DEF Abstract!i, Here
<1> QED BY <1>1, <1>2 DEF Running, Abstract!Here

\* The bytes from an address on are in the memory if there are none or the last is.
LEMMA ExtentInside ==
  ASSUME NEW a \in Nat, NEW size \in Nat
  PROVE  Abstract!Extent(a, size) \subseteq 1 .. MemSize <=> size = 0 \/ InMemory(a, size)
<1>0. MemSize \in Nat
  BY MemSizeAssumption
<1>1. ASSUME a + 1 .. a + size \subseteq 1 .. MemSize, size # 0
      PROVE  a + size <= MemSize
  <2>1. a + size \in a + 1 .. a + size
    BY <1>1
  <2> QED BY <1>1, <2>1
<1>2. ASSUME size = 0 \/ a + size <= MemSize
      PROVE  a + 1 .. a + size \subseteq 1 .. MemSize
  BY <1>0, <1>2
<1> QED BY <1>1, <1>2 DEF Abstract!Extent, InMemory

\* Both find the same bytes of the memory there.
LEMMA SameMemory ==
  ASSUME Typed, Located, Running
  PROVE  /\ Here.name = "SET" => (Abstract!InMemory <=> InMemory(cursor, Len(Here.data)))
         /\ Here.name = "PRINTschar" => (Abstract!InMemory <=> InMemory(cursor, 1))
         /\ Here.name = "Cur" => (Abstract!InMemory <=> InMemory(cursor, SizeOf[Here.type]))
         /\ Here.name = "CurP" =>
              (Abstract!InMemory <=> InMemory(cursor, SizeOf[Here.type]) /\ InMemory(Here.arg, SizeOf[Here.type]))
<1> DEFINE inside(a, size) == Abstract!Extent(a, size) \subseteq 1 .. MemSize
<1>0. MemSize \in Nat /\ cursor \in Nat /\ Here \in Instruction
  <2>1. Here \in Instruction
    BY Fetch DEF Running
  <2> QED BY <2>1, MemSizeAssumption DEF Typed, TypeOK
<1>1. Abstract!i = Here /\ Abstract!SizeOf = SizeOf
  BY SameInstruction, SameWords
<1>2. ASSUME NEW a \in Nat, NEW size \in Nat
      PROVE  /\ inside(a, size) <=> size = 0 \/ InMemory(a, size)
             /\ InMemory(a, size) => a <= MemSize
  <2>1. inside(a, size) <=> size = 0 \/ InMemory(a, size)
    BY ExtentInside
  <2> QED BY <1>0, <2>1 DEF InMemory
<1>3. ASSUME NEW size \in Nat
      PROVE  cursor <= MemSize /\ inside(cursor, size) <=> InMemory(cursor, size)
  <2>1. size = 0 /\ cursor <= MemSize => InMemory(cursor, size)
    BY <1>0 DEF InMemory
  <2> HIDE DEF inside
  <2> QED BY <1>0, <1>2, <2>1
<1>s. Here.name \in {"Cur", "CurP"} => SizeOf[Here.type] \in Nat \ {0}
  <2> DEFINE h == Here
  <2>1. h \in Instruction
    BY <1>0
  <2> HIDE DEF h
  <2>2. h.name \in {"Cur", "CurP"} => <<h.op, h.type>> \in ImplementedMath
    BY <2>1 DEF Instruction
  <2>3. \A m \in ImplementedMath : SizeOf[m[2]] \in Nat \ {0}
    BY Sizes
  <2> QED BY <2>2, <2>3 DEF h
<1>4. ASSUME Here.name = "SET"
      PROVE  Abstract!InMemory <=> InMemory(cursor, Len(Here.data))
  <2>1. Len(Here.data) \in Nat
    BY <1>4, Reads DEF Running
  <2>2. Abstract!Touches = Abstract!Extent(cursor, Len(Here.data))
    BY <1>1, <1>4 DEF Abstract!Touches
  <2> QED BY <1>3, <2>1, <2>2 DEF Abstract!InMemory
<1>5. ASSUME Here.name = "PRINTschar"
      PROVE  Abstract!InMemory <=> InMemory(cursor, 1)
  <2>2. Abstract!Touches = Abstract!Extent(cursor, 1)
    BY <1>1, <1>5 DEF Abstract!Touches
  <2> QED BY <1>3, <2>2 DEF Abstract!InMemory
<1>6. ASSUME Here.name = "Cur"
      PROVE  Abstract!InMemory <=> InMemory(cursor, SizeOf[Here.type])
  <2>2. Abstract!Touches = Abstract!Extent(cursor, SizeOf[Here.type])
    BY <1>1, <1>6 DEF Abstract!Touches
  <2> QED BY <1>3, <1>6, <1>s, <2>2 DEF Abstract!InMemory
<1>7. ASSUME Here.name = "CurP"
      PROVE  Abstract!InMemory <=> InMemory(cursor, SizeOf[Here.type]) /\ InMemory(Here.arg, SizeOf[Here.type])
  <2> DEFINE size == SizeOf[Here.type]
  <2>1. size \in Nat \ {0} /\ Here.arg \in Nat
    BY <1>7, <1>s, Reads DEF Running
  <2>2. Abstract!Touches = Abstract!Extent(cursor, size) \cup Abstract!Extent(Here.arg, size)
    BY <1>1, <1>7 DEF Abstract!Touches
  <2> HIDE DEF size
  <2>3. Abstract!InMemory <=> cursor <= MemSize /\ inside(cursor, size) /\ inside(Here.arg, size)
    BY <2>2 DEF Abstract!InMemory
  <2>4. inside(Here.arg, size) <=> InMemory(Here.arg, size)
    BY <1>2, <2>1
  <2>5. cursor <= MemSize /\ inside(cursor, size) <=> InMemory(cursor, size)
    BY <1>3, <2>1
  <2> HIDE DEF inside
  <2>6. Abstract!InMemory <=> InMemory(cursor, size) /\ InMemory(Here.arg, size)
    BY <2>3, <2>4, <2>5
  <2> QED BY <2>6 DEF size
<1> QED BY <1>4, <1>5, <1>6, <1>7

\* What is written in place is what is put between what is before it and after it.
LEMMA SameWrite ==
  ASSUME Typed, NEW bytes \in Seq(Byte), InMemory(cursor, Len(bytes)), memory' = Stored(cursor, bytes)
  PROVE  Abstract!WriteAtCursor(bytes)
<1> DEFINE n == Len(bytes)
           before == SubSeq(memory, 1, cursor)
           after == SubSeq(memory, cursor + n + 1, MemSize)
           m == before \o bytes \o after
           new == Stored(cursor, bytes)
<1>1. /\ n \in Nat /\ cursor \in Nat /\ MemSize \in Nat /\ cursor + n <= MemSize
      /\ memory \in Seq(Byte) /\ Len(memory) = MemSize
  BY LenProperties, ReadsBytes, MemSizeAssumption DEF Typed, TypeOK, InMemory
<1>n. n = Len(bytes) /\ bytes \in Seq(Byte)
  OBVIOUS
<1> HIDE DEF n
<1>2. /\ before \in Seq(Byte) /\ Len(before) = cursor
      /\ \A i \in 1 .. cursor : before[i] = memory[i]
  <2>1. 0 \in Nat /\ 0 + cursor <= Len(memory) /\ 0 + 1 = 1 /\ 0 + cursor = cursor
    BY <1>1
  <2>2. /\ SubSeq(memory, 0 + 1, 0 + cursor) \in Seq(Byte)
        /\ Len(SubSeq(memory, 0 + 1, 0 + cursor)) = cursor
        /\ \A i \in 1 .. cursor : SubSeq(memory, 0 + 1, 0 + cursor)[i] = memory[0 + i]
    BY <1>1, <2>1, Part
  <2> QED BY <1>1, <2>1, <2>2
<1>3. /\ after \in Seq(Byte) /\ Len(after) = MemSize - (cursor + n)
      /\ \A i \in 1 .. MemSize - (cursor + n) : after[i] = memory[cursor + n + i]
  <2> DEFINE a == cursor + n
             l == MemSize - a
  <2>1. a \in Nat /\ l \in Nat /\ a + l <= Len(memory) /\ a + l = MemSize
    BY <1>1
  <2>2. after = SubSeq(memory, a + 1, MemSize)
    OBVIOUS
  <2>a. a = cursor + n /\ l = MemSize - (cursor + n)
    OBVIOUS
  <2> HIDE DEF a, l, after
  <2>3. /\ SubSeq(memory, a + 1, a + l) \in Seq(Byte)
        /\ Len(SubSeq(memory, a + 1, a + l)) = l
        /\ \A i \in 1 .. l : SubSeq(memory, a + 1, a + l)[i] = memory[a + i]
    BY <1>1, <2>1, Part
  <2> QED BY <2>1, <2>2, <2>3, <2>a
<1> HIDE DEF before, after
<1>4. /\ before \o bytes \in Seq(Byte) /\ Len(before \o bytes) = cursor + n
      /\ \A i \in 1 .. cursor + n : (before \o bytes)[i] = IF i <= cursor THEN before[i] ELSE bytes[i - cursor]
  BY <1>1, <1>2, <1>n, ConcatProperties
<1> DEFINE first == before \o bytes
<1>f. first \in Seq(Byte) /\ Len(first) = cursor + n /\ m = first \o after
  BY <1>4
<1>5. \A i \in 1 .. cursor + n : first[i] = IF i <= cursor THEN before[i] ELSE bytes[i - cursor]
  BY <1>4
<1> HIDE DEF first
<1> HIDE DEF m
<1>6. /\ m \in Seq(Byte) /\ Len(m) = MemSize
      /\ \A i \in 1 .. MemSize :
           m[i] = IF i <= cursor + n THEN first[i] ELSE after[i - (cursor + n)]
  <2>1. /\ m \in Seq(Byte) /\ Len(m) = Len(first) + Len(after)
        /\ \A i \in 1 .. Len(first) + Len(after) :
             m[i] = IF i <= Len(first) THEN first[i] ELSE after[i - Len(first)]
    BY <1>3, <1>f, ConcatProperties
  <2>2. Len(first) + Len(after) = MemSize
    BY <1>1, <1>3, <1>f
  <2> QED BY <1>f, <2>1, <2>2
<1>7. new \in Seq(Byte) /\ Len(new) = MemSize /\ DOMAIN new = 1 .. MemSize
  <2>1. new \in [1 .. MemSize -> Byte]
    BY <1>1, StoredType DEF n
  <2> QED BY <1>1, <2>1
<1>8. ASSUME NEW i \in 1 .. MemSize PROVE new[i] = m[i]
  <2>0. new[i] = IF i \in cursor + 1 .. cursor + n THEN bytes[i - cursor] ELSE memory[i]
    BY DEF Stored, n
  <2> HIDE DEF new
  <2>1. CASE i <= cursor
    <3>1. i \in 1 .. cursor /\ i \in 1 .. cursor + n /\ i <= cursor + n /\ i \notin cursor + 1 .. cursor + n
      BY <1>1, <2>1
    <3> QED BY <1>2, <1>5, <1>6, <2>0, <2>1, <3>1
  <2>2. CASE ~(i <= cursor) /\ i <= cursor + n
    <3>1. i \in 1 .. cursor + n /\ i \in cursor + 1 .. cursor + n
      BY <1>1, <2>2
    <3> QED BY <1>5, <1>6, <2>0, <2>2, <3>1
  <2>3. CASE ~(i <= cursor + n)
    <3>1. /\ i \notin cursor + 1 .. cursor + n
          /\ i - (cursor + n) \in 1 .. MemSize - (cursor + n)
          /\ cursor + n + (i - (cursor + n)) = i
      BY <1>1, <2>3
    <3> QED BY <1>3, <1>6, <2>0, <2>3, <3>1
  <2> QED BY <2>1, <2>2, <2>3
<1>9. new = m
  <2> HIDE DEF new
  <2> QED BY <1>6, <1>7, <1>8, SeqEqual
<1> QED BY <1>9 DEF Abstract!WriteAtCursor, m, before, after, n

\* After an instruction, both are at the next.
LEMMA GoesOn ==
  ASSUME Typed, Located, Running, UNCHANGED <<program, instructions>>, Advance(Len(Bytes))
  PROVE  Located' /\ place' = place + 1
<1>1. place + 1 \in 1 .. Len(program) + 1
  BY SameInstruction
<1>2. curr_instr' = Offset(program, place + 1)
  BY Fetch DEF Advance, Running
<1> QED BY <1>1, <1>2, GoesTo

\* Where undefined behaviour ends the execution, both stay at the instruction.
LEMMA StaysUndefined ==
  ASSUME Located, NEW what, Undefined(what)
  PROVE  /\ Located' /\ pc' = what
         /\ UNCHANGED <<program, place, cursor, memory, printed>>
<1>1. UNCHANGED <<program, instructions, curr_instr>>
  BY DEF Undefined
<1> QED BY <1>1, StaysAt DEF Undefined

\* What the machine of the comments is at when the interpreter takes its case.
LEMMA AtInstruction ==
  ASSUME Typed, Located, NEW name \in {"NO_OP", "END", "JUMP", "MOVE", "PRINTascii", "PRINTschar"},
         At(Code(name)), Has(ArgumentSize[Code(name)])
  PROVE  Running /\ Here.name = name
<1>1. Running /\ opcode = Code(name)
  BY DEF At, Running
<1>2. Here.name # "CUT"
  <2>1. Here.name = "CUT" => opcode = Code("SET")
    BY <1>1, CutLacks DEF Running
  <2>2. Code(name) # Code("SET")
    BY Codes
  <2> QED BY <1>1, <2>1, <2>2
<1> QED BY <1>1, <1>2, Decode DEF Running

\* NO_OP, JUMP and MOVE only go somewhere.
LEMMA GotoRefines ==
  ASSUME Typed, Located, NoOp \/ Jump \/ Move
  PROVE  Abstract!Goto /\ Located'
<1>1. ASSUME NoOp PROVE Abstract!Goto /\ Located'
  <2>1. Running /\ Here.name = "NO_OP"
    <3>1. Has(ArgumentSize[Code("NO_OP")])
      <4>1. curr_instr \in Nat /\ length \in Nat /\ curr_instr < length
        BY <1>1, ReadsBytes DEF NoOp, At, Typed, TypeOK
      <4>2. Has(0)
        BY <4>1 DEF Has
      <4> QED BY <4>2, ArgumentSizes
    <3> QED BY <1>1, <3>1, AtInstruction DEF NoOp
  <2>2. Len(Bytes) = 0
    BY <2>1, Reads DEF Running
  <2>3. Located' /\ place' = place + 1
    BY <1>1, <2>1, <2>2, GoesOn DEF NoOp
  <2>4. Abstract!i = Here /\ Abstract!Here({"NO_OP", "JUMP", "MOVE"})
    BY <2>1, SameInstruction
  <2> QED BY <1>1, <2>1, <2>3, <2>4 DEF NoOp, Abstract!Goto
<1>2. ASSUME Jump PROVE Abstract!Goto /\ Located'
  <2>1. Running /\ Here.name = "JUMP"
    <3>1. Has(ArgumentSize[Code("JUMP")])
      BY <1>2, ArgumentSizes DEF Jump
    <3> QED BY <1>2, <3>1, AtInstruction DEF Jump
  <2>2. Here.arg \in 1 .. Len(program) + 1 /\ Address(AddrSize) = Offset(program, Here.arg)
    BY <2>1, Reads DEF Running
  <2>3. Located' /\ place' = Here.arg
    <3> DEFINE k == Here.arg
    <3>1. k \in 1 .. Len(program) + 1 /\ curr_instr' = Offset(program, k) /\ UNCHANGED <<program, instructions>>
      BY <1>2, <2>2 DEF Jump
    <3> HIDE DEF k
    <3>2. Located' /\ place' = k
      BY <3>1, GoesTo
    <3> QED BY <3>2 DEF k
  <2>4. Abstract!i = Here /\ Abstract!Here({"NO_OP", "JUMP", "MOVE"})
    BY <2>1, SameInstruction
  <2> QED BY <1>2, <2>1, <2>3, <2>4 DEF Jump, Abstract!Goto
<1>3. ASSUME Move PROVE Abstract!Goto /\ Located'
  <2>1. Running /\ Here.name = "MOVE"
    <3>1. Has(ArgumentSize[Code("MOVE")])
      BY <1>3, ArgumentSizes DEF Move
    <3> QED BY <1>3, <3>1, AtInstruction DEF Move
  <2>2. Len(Bytes) = AddrSize /\ Address(AddrSize) = Here.arg
    BY <2>1, Reads DEF Running
  <2>3. Located' /\ place' = place + 1
    BY <1>3, <2>1, <2>2, GoesOn DEF Move, MoveAdvance
  <2>4. Abstract!i = Here /\ Abstract!Here({"NO_OP", "JUMP", "MOVE"})
    BY <2>1, SameInstruction
  <2> QED BY <1>3, <2>1, <2>2, <2>3, <2>4 DEF Move, Abstract!Goto
<1> QED BY <1>1, <1>2, <1>3

\* Both stop at END, and after the last instruction.
LEMMA StopRefines ==
  ASSUME Typed, Located, Leave \/ End
  PROVE  Abstract!Stop /\ Located'
<1>1. ASSUME Leave PROVE Abstract!Stop /\ Located'
  <2>1. curr_instr \in Nat /\ length \in Nat /\ ~(curr_instr < length)
    BY <1>1, ReadsBytes DEF Leave, Typed, TypeOK
  <2>2. place \notin DOMAIN program
    BY <2>1, AtPlace
  <2>3. Located' /\ place' = place
    BY <1>1, StaysAt DEF Leave
  <2> QED BY <1>1, <2>2, <2>3 DEF Leave, Abstract!Stop
<1>2. ASSUME End PROVE Abstract!Stop /\ Located'
  <2>1. Running /\ Here.name = "END"
    <3>1. Has(ArgumentSize[Code("END")])
      <4>1. curr_instr \in Nat /\ length \in Nat /\ curr_instr < length
        BY <1>2, ReadsBytes DEF End, At, Typed, TypeOK
      <4>2. Has(0)
        BY <4>1 DEF Has
      <4> QED BY <4>2, ArgumentSizes
    <3> QED BY <1>2, <3>1, AtInstruction DEF End
  <2>2. Len(Bytes) = 0
    BY <2>1, Reads DEF Running
  <2>3. Located' /\ place' = place + 1
    BY <1>2, <2>1, <2>2, GoesOn DEF End
  <2>4. Abstract!Here({"END"})
    BY <2>1, SameInstruction
  <2> QED BY <1>2, <2>3, <2>4 DEF End, Abstract!Stop
<1> QED BY <1>1, <1>2

\* Outside the memory both are undefined.
LEMMA OutsideRefines ==
  ASSUME Typed, Located, Running, Here.name \in {"SET", "Cur", "CurP", "PRINTschar"},
         ~Abstract!InMemory, Undefined("OutsideMemory")
  PROVE  Abstract!Undefined /\ Located'
<1>1. Abstract!Here({"SET", "Cur", "CurP", "PRINTschar"}) /\ ~Abstract!Here({"PRINTascii"})
  BY SameInstruction
<1>2. ~Abstract!IsDefined
  BY DEF Abstract!IsDefined
<1> QED BY <1>1, <1>2, StaysUndefined DEF Abstract!Undefined

\* Where an instruction is cut short, the machine of the comments is at one that is.
LEMMA CutRefines ==
  ASSUME Located, Running, Here.name = "CUT",
         NEW what \in {"OutsideProgram", "OutsideMemory"}, Undefined(what)
  PROVE  Abstract!CutShort /\ Located'
<1>1. Abstract!Here({"CUT"})
  BY SameInstruction
<1> QED BY <1>1, StaysUndefined DEF Abstract!CutShort

\* Only where an instruction is cut short are its fixed arguments not there.
LEMMA CutShortRefines ==
  ASSUME Typed, Located, CutShort
  PROVE  Abstract!CutShort /\ Located'
<1>1. Running /\ ~Has(ArgumentSize[opcode]) /\ Undefined("OutsideProgram")
  BY DEF CutShort, Running
<1>2. Here.name = "CUT"
  BY <1>1, Whole DEF Running
<1> QED BY <1>1, <1>2, CutRefines

\* SET copies its bytes to the cursor; its own may be the ones that are cut short.
LEMMA SetRefines ==
  ASSUME Typed, Located, Set
  PROVE  (Abstract!Write \/ Abstract!Undefined \/ Abstract!CutShort) /\ Located'
<1> DEFINE len == Address(AddrSize)
           data == SubSeq(Argument(AddrSize + len), AddrSize + 1, AddrSize + len)
<1>1. Running /\ opcode = Code("SET")
  BY DEF Set, At, Running
<1>2. /\ ~InMemory(cursor, len) => Undefined("OutsideMemory")
      /\ InMemory(cursor, len) /\ ~Has(AddrSize + len) => Undefined("OutsideProgram")
      /\ InMemory(cursor, len) /\ Has(AddrSize + len) =>
           /\ memory' = Stored(cursor, data)
           /\ Advance(AddrSize + len)
           /\ UNCHANGED <<program, instructions, cursor, printed, pc>>
  BY Zenon DEF Set, SetAdvance
<1> HIDE DEF data
<1>3. CASE Here.name = "CUT"
  <2>1. Has(AddrSize) /\ ArgumentSize[opcode] = AddrSize
    BY <1>1, ArgumentSizes DEF Set
  <2>2. ~Has(AddrSize + len)
    BY <1>1, <1>3, <2>1, CutLacks DEF Running
  <2>3. Undefined("OutsideMemory") \/ Undefined("OutsideProgram")
    BY <1>2, <2>2
  <2> QED BY <1>1, <1>3, <2>3, CutRefines
<1>4. CASE Here.name # "CUT"
  <2>1. Here.name = "SET"
    BY <1>1, <1>4, Decode DEF Running
  <2>2. /\ Here.data \in Seq(Byte) /\ Len(Here.data) \in Nat
        /\ len = Len(Here.data) /\ Len(Bytes) = AddrSize + len /\ data = Here.data
    BY <1>1, <2>1, Reads DEF Running, data
  <2>3. Has(AddrSize + len)
    <3>1. AddrSize + len \in Nat /\ AddrSize + len <= Len(Bytes)
      BY <2>2, Sizes
    <3> QED BY <1>1, <3>1, Fetch DEF Running
  <2>4. Abstract!InMemory <=> InMemory(cursor, len)
    BY <1>1, <2>1, <2>2, SameMemory
  <2>5. CASE ~InMemory(cursor, len)
    BY <1>1, <1>2, <2>1, <2>4, <2>5, OutsideRefines
  <2>6. CASE InMemory(cursor, len)
    <3>1. Located' /\ place' = place + 1
      BY <1>1, <1>2, <2>2, <2>3, <2>6, GoesOn
    <3>2. Abstract!i = Here /\ Abstract!Here({"SET", "Cur", "CurP"})
      BY <1>1, <2>1, SameInstruction
    <3>3. Abstract!WriteAtCursor(Here.data)
      BY <1>2, <2>2, <2>3, <2>6, SameWrite
    <3>4. Abstract!IsDefined
      BY <2>1, <2>4, <2>6, <3>2 DEF Abstract!IsDefined
    <3>5. Abstract!WriteAtCursor(IF Abstract!i.name = "SET" THEN Abstract!i.data
                                 ELSE Abstract!Result(Abstract!i.op, Abstract!i.type, Abstract!Value(cursor), Abstract!Operand))
      BY <2>1, <3>2, <3>3
    <3>6. UNCHANGED <<program, cursor, printed, pc>>
      BY <1>2, <2>3, <2>6
    <3> QED BY <3>1, <3>2, <3>4, <3>5, <3>6 DEF Abstract!Write
  <2> QED BY <2>5, <2>6
<1> QED BY <1>3, <1>4

\* The arithmetic of both, once the operand is fetched
LEMMA AssignRefines ==
  ASSUME FloatsAreFloats, Typed, Located, Running,
         NEW m \in ImplementedMath, Here.name \in {"Cur", "CurP"}, Here.op = m[1], Here.type = m[2],
         NEW operand \in Seq(Byte), Len(operand) = SizeOf[m[2]], operand = Abstract!Operand,
         Here.name = "CurP" => InMemory(Here.arg, SizeOf[m[2]]),
         Assign(m, operand, Len(Bytes))
  PROVE  (Abstract!Write \/ Abstract!Undefined) /\ Located'
<1> DEFINE n == SizeOf[m[2]]
           value == Load(cursor, n)
           result == Result(m[1], m[2], value, operand)
<1>1. /\ ~InMemory(cursor, n) => Undefined("OutsideMemory")
      /\ InMemory(cursor, n) /\ IsUndefined(m[1], m[2], value, operand) => Undefined("Arithmetic")
      /\ InMemory(cursor, n) /\ ~IsUndefined(m[1], m[2], value, operand) =>
           /\ memory' = Stored(cursor, result)
           /\ Advance(Len(Bytes))
           /\ UNCHANGED <<program, instructions, cursor, printed, pc>>
  BY Zenon DEF Assign
<1>2. n \in Nat /\ cursor \in Nat
  BY Sizes DEF Typed, TypeOK
<1>3. Abstract!InMemory <=> InMemory(cursor, n)
  BY SameMemory
<1>4. Abstract!i = Here /\ Abstract!Here({"SET", "Cur", "CurP"}) /\ ~Abstract!Here({"PRINTascii"})
      /\ Abstract!Here({"SET", "Cur", "CurP", "PRINTschar"})
  BY SameInstruction
<1>5. Abstract!Value(cursor) = value
  BY <1>4, SameWords DEF Abstract!Value, Load
<1>v. InMemory(cursor, n) => value \in Seq(Byte) /\ Len(value) = n
  BY <1>2, ReadsBytes
<1>n. n = SizeOf[m[2]]
  OBVIOUS
<1> HIDE DEF n, value
<1>6. /\ Abstract!IsUndefined(Abstract!i.op, Abstract!i.type, Abstract!Value(cursor), Abstract!Operand)
           <=> IsUndefined(m[1], m[2], value, operand)
      /\ Abstract!Result(Abstract!i.op, Abstract!i.type, Abstract!Value(cursor), Abstract!Operand) = result
  BY <1>4, <1>5, SameWords
<1>7. CASE ~InMemory(cursor, n)
  BY <1>1, <1>3, <1>7, OutsideRefines
<1>8. CASE InMemory(cursor, n) /\ IsUndefined(m[1], m[2], value, operand)
  <2>1. Undefined("Arithmetic")
    BY <1>1, <1>8
  <2>2. ~Abstract!IsDefined
    BY <1>4, <1>6, <1>8 DEF Abstract!IsDefined
  <2>3. Abstract!InMemory
    BY <1>3, <1>8
  <2>4. /\ Located' /\ pc' = "Arithmetic"
        /\ UNCHANGED <<program, place, cursor, memory, printed>>
    BY <2>1, StaysUndefined
  <2> QED BY <1>4, <2>2, <2>3, <2>4 DEF Abstract!Undefined
<1>9. CASE InMemory(cursor, n) /\ ~IsUndefined(m[1], m[2], value, operand)
  <2>1. /\ memory' = Stored(cursor, result)
        /\ Advance(Len(Bytes))
        /\ UNCHANGED <<program, instructions, cursor, printed, pc>>
    BY <1>1, <1>9
  <2>2. Located' /\ place' = place + 1
    BY <2>1, GoesOn
  <2>3. result \in Seq(Byte) /\ Len(result) = n
    BY <1>9, <1>v, <1>n, ResultType
  <2> HIDE DEF result
  <2>4. Abstract!WriteAtCursor(result)
    BY <1>9, <2>1, <2>3, SameWrite
  <2>5. Abstract!IsDefined
    BY <1>3, <1>6, <1>9 DEF Abstract!IsDefined
  <2>6. Abstract!WriteAtCursor(IF Abstract!i.name = "SET" THEN Abstract!i.data
                               ELSE Abstract!Result(Abstract!i.op, Abstract!i.type, Abstract!Value(cursor), Abstract!Operand))
    <3>1. Abstract!i.name # "SET"
      BY <1>4
    <3> QED BY <1>6, <2>4, <3>1
  <2> QED BY <1>4, <2>1, <2>2, <2>5, <2>6 DEF Abstract!Write
<1> QED BY <1>7, <1>8, <1>9

\* Cur... and Cur...P, with the operand in the program or in the memory
LEMMA MathRefines ==
  ASSUME FloatsAreFloats, Typed, Located, MathCur \/ MathCurP
  PROVE  (Abstract!Write \/ Abstract!Undefined) /\ Located'
<1>1. ASSUME NEW m \in ImplementedMath, NEW form \in {"Cur", "CurP"},
             AtMath(m, form), Has(ArgumentSize[MathCode(m[1], m[2], form)])
      PROVE  Running /\ Here.name = form /\ Here.op = m[1] /\ Here.type = m[2]
  <2>1. Running /\ opcode = MathCode(m[1], m[2], form)
    BY <1>1 DEF AtMath, At, Running
  <2>2. Here.name # "CUT"
    <3>1. Here.name = "CUT" => opcode = Code("SET")
      BY <1>1, <2>1, CutLacks DEF Running
    <3>2. MathCode(m[1], m[2], form) \in 13 .. 102
      BY MathCodes
    <3>3. Code("SET") = 11
      BY Codes
    <3> QED BY <2>1, <3>1, <3>2, <3>3
  <2> QED BY <2>1, <2>2, Decode DEF Running
<1>2. ASSUME MathCur PROVE (Abstract!Write \/ Abstract!Undefined) /\ Located'
  <2>1. PICK m \in ImplementedMath :
          AtMath(m, "Cur") /\ Has(SizeOf[m[2]]) /\ Assign(m, Argument(SizeOf[m[2]]), SizeOf[m[2]])
    BY <1>2, Zenon DEF MathCur
  <2>2. ArgumentSize[MathCode(m[1], m[2], "Cur")] = SizeOf[m[2]]
    BY ArgumentSizes
  <2>3. Running /\ Here.name = "Cur" /\ Here.op = m[1] /\ Here.type = m[2]
    BY <1>1, <2>1, <2>2
  <2> DEFINE operand == Argument(SizeOf[m[2]])
  <2>4. Len(Bytes) = SizeOf[m[2]] /\ operand = Word(Here.arg, SizeOf[m[2]])
    BY <2>3, Reads DEF Running
  <2>5. operand \in Seq(Byte) /\ Len(operand) = SizeOf[m[2]]
    <3>1. SizeOf[m[2]] \in Nat
      BY Sizes
    <3> QED BY <2>1, <3>1, ReadsBytes
  <2>6. operand = Abstract!Operand
    <3>1. Abstract!i = Here
      BY <2>3, SameInstruction
    <3> QED BY <2>3, <2>4, <3>1, SameWords DEF Abstract!Operand
  <2>7. Assign(m, operand, Len(Bytes))
    BY <2>1, <2>4
  <2> HIDE DEF operand
  <2> QED BY <2>3, <2>5, <2>6, <2>7, AssignRefines
<1>3. ASSUME MathCurP PROVE (Abstract!Write \/ Abstract!Undefined) /\ Located'
  <2> DEFINE add == Address(AddrSize)
  <2>1. PICK m \in ImplementedMath :
          /\ AtMath(m, "CurP") /\ Has(AddrSize)
          /\ IF InMemory(add, SizeOf[m[2]]) THEN Assign(m, Load(add, SizeOf[m[2]]), AddrSize)
             ELSE Undefined("OutsideMemory")
    BY <1>3, Zenon DEF MathCurP
  <2>2. ArgumentSize[MathCode(m[1], m[2], "CurP")] = AddrSize
    BY ArgumentSizes
  <2>3. Running /\ Here.name = "CurP" /\ Here.op = m[1] /\ Here.type = m[2]
    BY <1>1, <2>1, <2>2
  <2>4. Len(Bytes) = AddrSize /\ Here.arg \in Nat /\ add = Here.arg
    BY <2>3, Reads DEF Running
  <2>5. CASE ~InMemory(add, SizeOf[m[2]])
    <3>1. Undefined("OutsideMemory")
      BY <2>1, <2>5, Zenon
    <3>2. ~Abstract!InMemory
      BY <2>3, <2>4, <2>5, SameMemory
    <3> QED BY <2>3, <3>1, <3>2, OutsideRefines
  <2>6. CASE InMemory(add, SizeOf[m[2]])
    <3> DEFINE operand == Load(add, SizeOf[m[2]])
    <3>1. operand \in Seq(Byte) /\ Len(operand) = SizeOf[m[2]]
      <4>1. SizeOf[m[2]] \in Nat /\ add \in Nat
        BY <2>4, Sizes
      <4> HIDE DEF add
      <4> QED BY <2>6, <4>1, ReadsBytes
    <3>2. operand = Abstract!Operand
      <4>1. Abstract!i = Here
        BY <2>3, SameInstruction
      <4> QED BY <2>3, <2>4, <4>1, SameWords DEF Abstract!Operand, Abstract!Value, Load
    <3>3. Assign(m, operand, AddrSize)
      BY <2>1, <2>6, Zenon
    <3>4. Assign(m, operand, Len(Bytes)) /\ InMemory(Here.arg, SizeOf[m[2]])
      BY <2>4, <2>6, <3>3
    <3> HIDE DEF operand
    <3> QED BY <2>3, <3>1, <3>2, <3>4, AssignRefines
  <2> QED BY <2>5, <2>6
<1> QED BY <1>2, <1>3

\* What PRINTascii takes for the length of its text: none where it is no int, and an
\* int counts the bytes of the memory, so a text no longer than that keeps its length.
LEMMA TextLength ==
  ASSUME NEW arg \in 0 .. Pow256[IntSize] - 1
  PROVE  /\ Signed(Word(arg, IntSize)) \in Int
         /\ Signed(Word(arg, IntSize)) >= 0 => Signed(Word(arg, IntSize)) = arg
         /\ arg <= MemSize => Signed(Word(arg, IntSize)) = arg
<1> DEFINE p == Pow256[IntSize]
           word == Word(arg, IntSize)
<1>1. p \in Nat /\ IntSize \in Nat
  BY Sizes, Pow256Def
<1>2. MemSize \in Nat /\ 2 * MemSize < p
  BY MemSizeAssumption
<1> HIDE DEF p
<1>3. arg \in Nat /\ arg < p
  BY <1>1 DEF p
<1>4. Unsigned(word) = arg
  BY <1>1, <1>3, UnsignedWord DEF p
<1>5. Len(word) = IntSize
  BY <1>1, <1>3, WordType
<1> HIDE DEF word
<1>6. Signed(word) = IF 2 * arg >= p THEN arg - p ELSE arg
  BY <1>4, <1>5 DEF Signed, p
<1>7. Signed(word) \in Int /\ (Signed(word) >= 0 => Signed(word) = arg) /\ (arg <= MemSize => Signed(word) = arg)
  BY <1>1, <1>2, <1>3, <1>6
<1> QED BY <1>7 DEF word

\* Both print a text up to the same byte.
LEMMA PrintAsciiRefines ==
  ASSUME Typed, Located, PrintAscii
  PROVE  (Abstract!Show \/ Abstract!Undefined) /\ Located'
<1> DEFINE len == Signed(Argument(IntSize))
           nuls == {n \in 0 .. MemSize - cursor - 1 : memory[cursor + n + 1] = 0}
           ends == (IF len >= 0 /\ InMemory(cursor, len) THEN {len} ELSE {}) \cup nuls
           end == CHOOSE n \in ends : \A k \in ends : n <= k
           arg == Here.arg
<1>1. Running /\ Here.name = "PRINTascii"
  <2>1. Has(ArgumentSize[Code("PRINTascii")])
    BY ArgumentSizes DEF PrintAscii
  <2> QED BY <2>1, AtInstruction DEF PrintAscii
<1>2. Len(Bytes) = IntSize /\ arg \in 0 .. Pow256[IntSize] - 1 /\ len = Signed(Word(arg, IntSize))
  BY <1>1, Reads DEF Running
<1>3. /\ len \in Int /\ (len >= 0 => len = arg) /\ (arg <= MemSize => len = arg)
  BY <1>2, TextLength
<1>4. /\ ends = {} => Undefined("OutsideMemory")
      /\ ends # {} =>
           /\ printed' = Load(cursor, end)
           /\ Advance(IntSize)
           /\ UNCHANGED <<program, instructions, cursor, memory, pc>>
  BY Zenon DEF PrintAscii
<1>5. cursor \in Nat /\ MemSize \in Nat /\ arg \in Nat
  <2>1. Pow256[IntSize] \in Nat
    BY Sizes, Pow256Def
  <2> QED BY <1>2, <2>1, MemSizeAssumption DEF Typed, TypeOK
<1>6. Abstract!i = Here /\ Abstract!Here({"PRINTascii"})
      /\ ~Abstract!Here({"SET", "Cur", "CurP", "PRINTschar"})
  BY <1>1, SameInstruction
<1>t. ASSUME NEW n \in Nat
      PROVE  Abstract!Text(n) <=>
               /\ cursor + n <= MemSize
               /\ n = arg \/ (cursor + n < MemSize /\ memory[cursor + n + 1] = 0)
               /\ \A k \in 1 .. n : k <= arg /\ memory[cursor + k] # 0
  BY <1>6 DEF Abstract!Text
<1>8. len >= 0 /\ InMemory(cursor, len) <=> cursor + arg <= MemSize
  BY <1>3, <1>5 DEF InMemory
<1>9. \A n : n \in ends <=>
        (n = arg /\ cursor + arg <= MemSize) \/ (n \in 0 .. MemSize - cursor - 1 /\ memory[cursor + n + 1] = 0)
  <2>1. len >= 0 /\ InMemory(cursor, len) => len = arg
    BY <1>3
  <2> HIDE DEF len
  <2> QED BY <1>8, <2>1
<1> HIDE DEF arg, ends, nuls, len
<1>10. ASSUME ends # {}
       PROVE  end \in Nat /\ end <= MemSize /\ Abstract!Text(end)
  <2>1. ends \subseteq Nat
    BY <1>5, <1>9
  <2>2. end \in ends /\ \A k \in ends : end <= k
    BY <1>10, <2>1, LeastExists
  <2> HIDE DEF end
  <2>3. end \in Nat
    BY <2>1, <2>2
  <2>4. cursor + end <= MemSize
    BY <1>5, <1>9, <2>2, <2>3
  <2>5. end = arg \/ (cursor + end < MemSize /\ memory[cursor + end + 1] = 0)
    BY <1>5, <1>9, <2>2, <2>3
  <2>6. ASSUME NEW k \in 1 .. end
        PROVE  k <= arg /\ memory[cursor + k] # 0
    <3>0. k \in Nat /\ 1 <= k /\ k <= end
      BY <2>3, <2>6
    <3>1. k <= arg
      <4> SUFFICES ASSUME arg < k PROVE FALSE
        BY <1>5, <3>0
      <4>1. cursor + arg <= MemSize /\ arg < end
        BY <1>5, <2>3, <2>4, <3>0
      <4>2. arg \in ends
        BY <1>9, <4>1
      <4>3. end <= arg
        BY <2>2, <4>2
      <4> QED BY <1>5, <2>3, <4>1, <4>3
    <3>2. memory[cursor + k] # 0
      <4> SUFFICES ASSUME memory[cursor + k] = 0 PROVE FALSE
        OBVIOUS
      <4> DEFINE j == k - 1
      <4>1. j \in 0 .. MemSize - cursor - 1 /\ cursor + j + 1 = cursor + k
        BY <1>5, <2>3, <2>4, <3>0
      <4> HIDE DEF j
      <4>2. j \in ends
        BY <1>9, <4>1
      <4>3. end <= j
        BY <2>2, <4>2
      <4> QED BY <2>3, <3>0, <4>3 DEF j
    <3> QED BY <3>1, <3>2
  <2>7. Abstract!Text(end)
    BY <1>t, <2>3, <2>4, <2>5, <2>6
  <2> QED BY <1>5, <2>3, <2>4, <2>7
<1>11. ASSUME ends = {}, NEW n \in 0 .. MemSize
       PROVE  ~Abstract!Text(n)
  <2> SUFFICES ASSUME Abstract!Text(n) PROVE FALSE
    OBVIOUS
  <2>0. n \in Nat
    BY <1>5
  <2>1. cursor + n <= MemSize /\ (n = arg \/ (cursor + n < MemSize /\ memory[cursor + n + 1] = 0))
    BY <1>t, <2>0
  <2>2. CASE n = arg
    BY <1>9, <1>11, <2>1, <2>2
  <2>3. CASE cursor + n < MemSize /\ memory[cursor + n + 1] = 0
    <3>1. n \in 0 .. MemSize - cursor - 1
      BY <1>5, <2>0, <2>3
    <3> QED BY <1>9, <1>11, <2>3, <3>1
  <2> QED BY <2>1, <2>2, <2>3
<1>12. CASE ends = {}
  <2>1. Undefined("OutsideMemory")
    BY <1>4, <1>12
  <2>2. /\ Located' /\ pc' = "OutsideMemory"
        /\ UNCHANGED <<program, place, cursor, memory, printed>>
    BY <2>1, StaysUndefined
  <2> QED BY <1>6, <1>11, <1>12, <2>2 DEF Abstract!Undefined
<1>13. CASE ends # {}
  <2>1. /\ printed' = Load(cursor, end)
        /\ Advance(IntSize)
        /\ UNCHANGED <<program, instructions, cursor, memory, pc>>
    BY <1>4, <1>13
  <2>2. end \in 0 .. MemSize /\ Abstract!Text(end)
    BY <1>5, <1>10, <1>13
  <2> HIDE DEF end
  <2>3. Located' /\ place' = place + 1
    BY <1>1, <1>2, <2>1, GoesOn
  <2>4. \E n \in 0 .. MemSize : Abstract!Text(n) /\ printed' = SubSeq(memory, cursor + 1, cursor + n)
    BY <2>1, <2>2 DEF Load
  <2> QED BY <1>6, <2>1, <2>3, <2>4 DEF Abstract!Show
<1> QED BY <1>12, <1>13

\* Both print the byte at the cursor as a number.
LEMMA PrintScharRefines ==
  ASSUME Typed, Located, PrintSchar
  PROVE  (Abstract!Show \/ Abstract!Undefined) /\ Located'
<1>1. Running /\ Here.name = "PRINTschar"
  <2>1. Has(ArgumentSize[Code("PRINTschar")])
    <3>1. curr_instr \in Nat /\ length \in Nat /\ curr_instr < length
      BY ReadsBytes DEF PrintSchar, At, Typed, TypeOK
    <3>2. Has(0)
      BY <3>1 DEF Has
    <3> QED BY <3>2, ArgumentSizes
  <2> QED BY <2>1, AtInstruction DEF PrintSchar
<1>2. Len(Bytes) = 0
  BY <1>1, Reads DEF Running
<1>3. /\ ~InMemory(cursor, 1) => Undefined("OutsideMemory")
      /\ InMemory(cursor, 1) =>
           /\ printed' = <<Signed(Load(cursor, 1))>>
           /\ Advance(0)
           /\ UNCHANGED <<program, instructions, cursor, memory, pc>>
  BY Zenon DEF PrintSchar
<1>4. Abstract!InMemory <=> InMemory(cursor, 1)
  BY <1>1, SameMemory
<1>5. CASE ~InMemory(cursor, 1)
  BY <1>1, <1>3, <1>4, <1>5, OutsideRefines
<1>6. CASE InMemory(cursor, 1)
  <2>1. /\ printed' = <<Signed(Load(cursor, 1))>>
        /\ Advance(0)
        /\ UNCHANGED <<program, instructions, cursor, memory, pc>>
    BY <1>3, <1>6
  <2>2. Located' /\ place' = place + 1
    BY <1>1, <1>2, <2>1, GoesOn
  <2>3. Load(cursor, 1) = <<memory[cursor + 1]>>
    <3> DEFINE s == Load(cursor, 1)
    <3>1. /\ memory \in Seq(Byte) /\ Len(memory) = MemSize /\ cursor \in Nat
          /\ cursor + 1 <= Len(memory)
      BY <1>6, ReadsBytes DEF InMemory, Typed, TypeOK
    <3>2. s \in Seq(Byte) /\ Len(s) = 1 /\ \A i \in 1 .. 1 : s[i] = memory[cursor + i]
      BY <3>1, Part DEF Load
    <3>3. s[1] = memory[cursor + 1]
      BY <3>2
    <3> HIDE DEF s
    <3>4. s = <<s[1]>>
      BY <3>2, ShortSeq
    <3>5. s = <<memory[cursor + 1]>>
      BY <3>3, <3>4
    <3> QED BY <3>5 DEF s
  <2>4. printed' = <<Abstract!Signed(<<memory[cursor + 1]>>)>>
    BY <2>1, <2>3, SameWords
  <2>5. Abstract!Here({"PRINTschar"}) /\ Abstract!InMemory
    BY <1>1, <1>4, <1>6, SameInstruction
  <2> QED BY <2>1, <2>2, <2>4, <2>5 DEF Abstract!Show
<1> QED BY <1>5, <1>6

-----------------------------------------------------------------------------
\* Every step of the interpreter is one of the machine of the comments, or changes
\* nothing there: of an instruction that is not implemented, or after the end.
LEMMA NextRefines ==
  ASSUME FloatsAreFloats, Typed, Located, [Next]_vars
  PROVE  [Abstract!Next]_(Abstract!vars) /\ Located'
<1>1. CASE Leave \/ End
  BY <1>1, StopRefines DEF Abstract!Next
<1>2. CASE NoOp \/ Jump \/ Move
  BY <1>2, GotoRefines DEF Abstract!Next
<1>3. CASE Set
  BY <1>3, SetRefines DEF Abstract!Next
<1>4. CASE MathCur \/ MathCurP
  BY <1>4, MathRefines DEF Abstract!Next
<1>5. CASE PrintAscii
  BY <1>5, PrintAsciiRefines DEF Abstract!Next
<1>6. CASE PrintSchar
  BY <1>6, PrintScharRefines DEF Abstract!Next
<1>7. CASE CutShort
  BY <1>7, CutShortRefines DEF Abstract!Next
<1>8. CASE UNCHANGED vars
  <2>1. UNCHANGED <<program, instructions, curr_instr, cursor, memory, printed, pc>>
    BY <1>8 DEF vars
  <2>2. Located' /\ place' = place
    BY <2>1, StaysAt
  <2> QED BY <2>1, <2>2 DEF Abstract!vars
<1> QED
  BY <1>1, <1>2, <1>3, <1>4, <1>5, <1>6, <1>7, <1>8, Zenon DEF Next, execute_program, Unknown, Terminated

\* An execution begins at the first instruction of an assembled program.
LEMMA InitRefines ==
  ASSUME Init
  PROVE  Abstract!Init /\ Located
<1>1. program \in Program /\ instructions = Assemble(program) /\ curr_instr = 0
  <2>1. PICK s \in Sources : program = s.program /\ instructions = s.bytes
    BY DEF Init
  <2> QED BY <2>1, AssembledAssumption DEF Init
<1>2. Len(program) \in Nat /\ DOMAIN program = 1 .. Len(program)
  BY <1>1, SeqEntries, LenProperties DEF Program
<1>3. Offset(program, 1) = 0 /\ 1 \in 1 .. Len(program) + 1
  BY <1>1, <1>2, Offsets
<1>4. Located
  BY <1>1, <1>3 DEF Located, Places
<1>5. place = 1
  <2> DEFINE k == place
             n == Len(program)
  <2>1. k \in 1 .. n + 1 /\ Offset(program, k) = 0 /\ n \in Nat
    BY <1>1, <1>4, AtPlace
  <2> HIDE DEF k
  <2>2. k = 1 \/ 1 < k
    BY <2>1
  <2>3. 1 < k => Offset(program, 1) < Offset(program, k)
    BY <1>1, <1>3, <2>1, OffsetsGrow
  <2>4. k = 1
    BY <1>3, <2>1, <2>2, <2>3
  <2> QED BY <2>4 DEF k
<1> QED BY <1>1, <1>4, <1>5 DEF Init, Abstract!Init

\* DoesWhatIsCommented: of every assembled program, whatever the sizes of the memory
\* and of the words, execute_program() does what the comments of Instructions.h say.
THEOREM Refines == FloatsAreFloats => (Spec => DoesWhatIsCommented)
<1> SUFFICES ASSUME FloatsAreFloats PROVE Spec => DoesWhatIsCommented
  OBVIOUS
<1>1. Init => Abstract!Init /\ Located
  BY InitRefines
<1>2. Typed /\ Located /\ [Next]_vars => [Abstract!Next]_(Abstract!vars) /\ Located'
  BY NextRefines
<1>3. Init => Typed
  BY InitTyped
<1>4. Typed /\ [Next]_vars => Typed'
  BY NextTyped
<1> QED BY <1>1, <1>2, <1>3, <1>4, PTL DEF Spec, DoesWhatIsCommented, Abstract!Spec
=============================================================================
