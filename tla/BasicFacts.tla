----------------------------- MODULE BasicFacts -----------------------------
(***************************************************************************)
(* Facts about natural numbers and sequences that the proofs share.        *)
(***************************************************************************)
EXTENDS Integers, SequencesExt, SequenceTheorems, WellFoundedInduction, TLAPS

\* A set with 0, and with n + 1 whenever it has n, has all the natural numbers: the
\* rule the proofs about Pow2, the powers that closest_pow2 counts in, go by.
LEMMA SetInduction ==
  ASSUME NEW T, 0 \in T, \A n \in Nat : n \in T => n + 1 \in T
  PROVE  Nat \subseteq T
<1> DEFINE U == {n \in Nat : n \notin T}
           R == {ss \in Nat \X Nat : ss[1] < ss[2]}
<1> SUFFICES ASSUME U # {} PROVE FALSE
  OBVIOUS
<1>1. IsWellFoundedOn(R, Nat)
  BY NatLessThanWellFounded, Zenon DEF OpToRel
<1>2. U \subseteq Nat
  OBVIOUS
<1>r. \A x, y \in Nat : y < x => <<y, x>> \in R
  OBVIOUS
<1> HIDE DEF R
<1>3. PICK n \in U : \A y \in U : ~(<<y, n>> \in R)
  BY <1>1, <1>2, WFMin
<1>4. n # 0 /\ n - 1 \in Nat /\ n - 1 < n
  OBVIOUS
<1>5. n - 1 \notin U
  BY <1>3, <1>4, <1>r
<1> QED
  BY <1>4, <1>5

\* A sequence is a function on its places.
LEMMA SeqEntries ==
  ASSUME NEW S, NEW s \in Seq(S)
  PROVE  DOMAIN s = 1 .. Len(s) /\ \A i \in 1 .. Len(s) : s[i] \in S
OBVIOUS

\* A sequence of one or two entries is the tuple of them.
LEMMA ShortSeq ==
  ASSUME NEW S, NEW s \in Seq(S)
  PROVE  /\ Len(s) = 1 => s = <<s[1]>>
         /\ Len(s) = 2 => s = <<s[1], s[2]>>
OBVIOUS

\* The first and the last part of a sequence: the stack of calls below the one on top.
LEMMA FrontLast ==
  ASSUME NEW S, NEW s \in Seq(S), s # <<>>
  PROVE  /\ Front(s) \in Seq(S)
         /\ Len(s) \in Nat \ {0}
         /\ Len(Front(s)) = Len(s) - 1
         /\ \A i \in 1 .. Len(s) - 1 : Front(s)[i] = s[i]
         /\ Last(s) = s[Len(s)]
         /\ Last(s) \in S
<1>1. Len(s) \in Nat \ {0}
  BY EmptySeq
<1>2. \A i \in 1 .. Len(s) : s[i] \in S
  BY ElementOfSeq
<1>3. \A i \in 1 .. Len(s) - 1 : s[i] \in S
  BY <1>1, <1>2
<1> DEFINE n == Len(s) - 1
<1>4. /\ SubSeq(s, 1, n) \in Seq(S)
      /\ Len(SubSeq(s, 1, n)) = IF 1 <= n THEN n - 1 + 1 ELSE 0
      /\ \A i \in 1 .. n - 1 + 1 : SubSeq(s, 1, n)[i] = s[1 + i - 1]
  <2>1. n \in Int /\ 1 \in Int
    BY <1>1
  <2> HIDE DEF n
  <2>2. QED
    BY <1>3, <2>1, SubSeqProperties DEF n
<1>5. \A i \in 1 .. Len(s) - 1 : SubSeq(s, 1, Len(s) - 1)[i] = s[i]
  BY <1>1, <1>4
<1>6. Front(s) = SubSeq(s, 1, Len(s) - 1) /\ Last(s) = s[Len(s)]
  BY DEF Front, Last
<1>7. Len(Front(s)) = Len(s) - 1
  <2>1. n \in Nat
    BY <1>1
  <2> HIDE DEF n
  <2>3. (IF 1 <= n THEN n - 1 + 1 ELSE 0) = n
    BY <2>1
  <2>4. QED
    BY <1>4, <1>6, <2>3, Zenon DEF n
<1>8. Last(s) \in S
  BY <1>1, <1>2, <1>6
<1>9. QED
  BY <1>1, <1>4, <1>5, <1>6, <1>7, <1>8

\* A sequence with one more entry: a call, a node, a token or a character more.
LEMMA AppendLast ==
  ASSUME NEW S, NEW s \in Seq(S), NEW e \in S
  PROVE  /\ Append(s, e) \in Seq(S)
         /\ Append(s, e) # <<>>
         /\ Len(Append(s, e)) = Len(s) + 1
         /\ \A i \in 1 .. Len(s) : Append(s, e)[i] = s[i]
         /\ Append(s, e)[Len(s) + 1] = e
         /\ Last(Append(s, e)) = e
<1>1. Len(s) \in Nat
  BY LenProperties
<1>2. Last(Append(s, e)) = Append(s, e)[Len(Append(s, e))]
  BY DEF Last
<1>3. QED
  BY <1>1, <1>2, AppendProperties

\* A sequence of entries that are all in another set
LEMMA SeqRange ==
  ASSUME NEW S, NEW s \in Seq(S), NEW T, \A i \in 1 .. Len(s) : s[i] \in T
  PROVE  s \in Seq(T)
<1> DEFINE n == Len(s)
<1>1. n \in Nat /\ s = [i \in 1 .. n |-> s[i]]
  BY LenProperties
<1> HIDE DEF n
<1>2. \A i \in 1 .. n : s[i] \in T
  BY DEF n
<1>3. s \in [1 .. n -> T]
  BY <1>1, <1>2
<1> QED
  BY <1>1, <1>3

\* The entries of a sequence with one more
LEMMA AppendSet ==
  ASSUME NEW S, NEW s \in Seq(S), NEW e \in S
  PROVE  /\ ToSet(Append(s, e)) = ToSet(s) \cup {e}
         /\ IsInjective(s) /\ e \notin ToSet(s) => IsInjective(Append(s, e))
<1> DEFINE n == Len(s)
           t == Append(s, e)
<1>1. /\ n \in Nat /\ DOMAIN s = 1 .. n /\ DOMAIN t = 1 .. n + 1
      /\ \A i \in 1 .. n : t[i] = s[i]
      /\ t[n + 1] = e
  BY LenProperties, AppendProperties
<1> HIDE DEF n, t
<1>2. \A i \in 1 .. n + 1 : i \in 1 .. n \/ i = n + 1
  BY <1>1
<1>3. \A i \in 1 .. n : i \in 1 .. n + 1 /\ i # n + 1
  BY <1>1
<1>4. n + 1 \in 1 .. n + 1
  BY <1>1
<1>5. ToSet(t) = ToSet(s) \cup {e}
  BY <1>1, <1>2, <1>3, <1>4 DEF ToSet
<1>6. IsInjective(s) /\ e \notin ToSet(s) => IsInjective(t)
  BY <1>1, <1>2, <1>3 DEF ToSet, IsInjective
<1> QED
  BY <1>5, <1>6 DEF t

\* A function on 1 .. N whose value at n is step[n] of the values before n exists: what the
\* recursive definitions over the nodes of the AST need.
Steps(N, S) ==
  {step \in [1 .. N -> [[1 .. N -> S] -> S]] :
     \A n \in 1 .. N : \A g, h \in [1 .. N -> S] :
       (\A k \in 1 .. n - 1 : g[k] = h[k]) => step[n][g] = step[n][h]}

LEMMA Recursion ==
  ASSUME NEW N \in Nat, NEW S, NEW none \in S, NEW step \in Steps(N, S)
  PROVE  \E g \in [1 .. N -> S] : \A n \in 1 .. N : g[n] = step[n][g]
<1>0. /\ step \in [1 .. N -> [[1 .. N -> S] -> S]]
      /\ \A n \in 1 .. N : \A g, h \in [1 .. N -> S] :
           (\A k \in 1 .. n - 1 : g[k] = h[k]) => step[n][g] = step[n][h]
  BY DEF Steps
<1> DEFINE Has(m) == \E g \in [1 .. N -> S] : \A n \in 1 .. N : n <= m => g[n] = step[n][g]
           T == {m \in Nat : Has(m)}
<1>1. Has(0)
  <2>1. [n \in 1 .. N |-> none] \in [1 .. N -> S]
    OBVIOUS
  <2>2. \A n \in 1 .. N : ~(n <= 0)
    OBVIOUS
  <2> QED
    BY <2>1, <2>2
<1>2. ASSUME NEW m \in Nat, Has(m) PROVE Has(m + 1)
  <2>1. PICK g \in [1 .. N -> S] : \A n \in 1 .. N : n <= m => g[n] = step[n][g]
    BY <1>2
  <2>2. CASE m + 1 \notin 1 .. N
    <3>1. \A n \in 1 .. N : n <= m + 1 => n <= m
      BY <2>2
    <3> QED
      BY <2>1, <3>1
  <2>3. CASE m + 1 \in 1 .. N
    <3> DEFINE v == step[m + 1][g]
               h == [n \in 1 .. N |-> IF n = m + 1 THEN v ELSE g[n]]
    <3>1. v \in S
      BY <1>0, <2>1, <2>3
    <3> HIDE DEF v
    <3>2. h \in [1 .. N -> S] /\ h[m + 1] = v /\ \A n \in 1 .. N : n <= m => h[n] = g[n]
      BY <2>3, <3>1
    <3> HIDE DEF h
    <3>3. ASSUME NEW n \in 1 .. N, n <= m + 1 PROVE h[n] = step[n][h]
      <4>1. \A k \in 1 .. n - 1 : g[k] = h[k]
        BY <3>2, <3>3
      <4>2. step[n][g] = step[n][h]
        BY <1>0, <2>1, <3>2, <4>1
      <4>3. n <= m \/ n = m + 1
        BY <3>3
      <4> QED
        BY <2>1, <3>2, <4>2, <4>3 DEF v
    <3> QED
      BY <3>2, <3>3
  <2> QED
    BY <2>2, <2>3
<1> HIDE DEF Has
<1>3. 0 \in T /\ \A m \in Nat : m \in T => m + 1 \in T
  BY <1>1, <1>2
<1> HIDE DEF T
<1>4. Has(N)
  BY <1>3, SetInduction DEF T
<1>5. PICK g \in [1 .. N -> S] : \A n \in 1 .. N : n <= N => g[n] = step[n][g]
  BY <1>4 DEF Has
<1>6. \A n \in 1 .. N : n <= N
  OBVIOUS
<1> QED
  BY <1>5, <1>6

\* A statement about n that follows from the same about all that is below n holds for all.
LEMMA StrongInduction ==
  ASSUME NEW T, \A n \in Nat : (\A k \in 0 .. n - 1 : k \in T) => n \in T
  PROVE  Nat \subseteq T
<1> DEFINE U == {n \in Nat : \A k \in 0 .. n - 1 : k \in T}
<1>1. 0 \in U
  OBVIOUS
<1>2. ASSUME NEW n \in Nat, n \in U PROVE n + 1 \in U
  <2>1. \A k \in 0 .. (n + 1) - 1 : k \in 0 .. n - 1 \/ k = n
    OBVIOUS
  <2> QED
    BY <1>2, <2>1
<1> HIDE DEF U
<1>3. Nat \subseteq U
  BY <1>1, <1>2, SetInduction
<1> QED
  BY <1>3 DEF U

\* FlattenSeq goes through the sequences from the first to the last.
LEMMA FlattenIs ==
  ASSUME NEW S, NEW seqs \in Seq(Seq(S)), seqs # <<>>
  PROVE  \E g \in [1 .. Len(seqs) -> Seq(S)] :
           /\ FlattenSeq(seqs) = g[Len(seqs)]
           /\ \A i \in 1 .. Len(seqs) : g[i] = IF i = 1 THEN seqs[i] ELSE g[i - 1] \o seqs[i]
<1> DEFINE N == Len(seqs)
           Q == Seq(S)
           Next(i, g) == IF i = 1 THEN seqs[i] ELSE g[i - 1] \o seqs[i]
           step == [i \in 1 .. N |-> [g \in [1 .. N -> Q] |-> Next(i, g)]]
           flatten == CHOOSE g : g = [i \in 1 .. N |-> Next(i, g)]
<1>1. N \in Nat /\ N # 0 /\ \A i \in 1 .. N : seqs[i] \in Q
  BY EmptySeq, SeqEntries
<1>2. <<>> \in Q
  OBVIOUS
<1>c. \A a, b \in Q : a \o b \in Q
  BY ConcatProperties
<1>f. FlattenSeq(seqs) = flatten[N]
  BY <1>1, Zenon DEF FlattenSeq
<1> HIDE DEF N, Q
<1>3. ASSUME NEW i \in 1 .. N, NEW g \in [1 .. N -> Q] PROVE Next(i, g) \in Q
  <2>1. i # 1 => i - 1 \in 1 .. N
    BY <1>1
  <2>2. i # 1 => g[i - 1] \in Q
    BY <2>1
  <2> QED
    BY <1>1, <1>c, <2>2
<1>4. ASSUME NEW i \in 1 .. N, NEW g, NEW h, \A k \in 1 .. i - 1 : g[k] = h[k]
      PROVE  Next(i, g) = Next(i, h)
  <2>1. i # 1 => i - 1 \in 1 .. i - 1
    BY <1>1
  <2> QED
    BY <1>4, <2>1
<1> HIDE DEF Next
<1>5. /\ step \in [1 .. N -> [[1 .. N -> Q] -> Q]]
      /\ \A i \in 1 .. N : \A g \in [1 .. N -> Q] : step[i][g] = Next(i, g)
  BY <1>3
<1> HIDE DEF step
<1>6. step \in Steps(N, Q)
  <2>1. \A i \in 1 .. N : \A g, h \in [1 .. N -> Q] :
          (\A k \in 1 .. i - 1 : g[k] = h[k]) => step[i][g] = step[i][h]
    <3> SUFFICES ASSUME NEW i \in 1 .. N, NEW g \in [1 .. N -> Q], NEW h \in [1 .. N -> Q],
                        \A k \in 1 .. i - 1 : g[k] = h[k]
                 PROVE  step[i][g] = step[i][h]
      OBVIOUS
    <3>1. Next(i, g) = Next(i, h)
      BY <1>4
    <3> QED
      BY <1>5, <3>1
  <2> QED
    BY <1>5, <2>1 DEF Steps
<1>7. PICK g \in [1 .. N -> Q] : \A i \in 1 .. N : g[i] = step[i][g]
  BY <1>1, <1>2, <1>6, Recursion, SMTT(30)
<1>8. g = [i \in 1 .. N |-> Next(i, g)]
  BY <1>5, <1>7
<1>9. flatten = [i \in 1 .. N |-> Next(i, flatten)]
  BY <1>8, Zenon
<1> HIDE DEF flatten
<1> DEFINE In(i) == flatten[i] \in Q
           T == {m \in Nat : m + 1 \in 1 .. N => In(m + 1)}
<1>10. \A i \in 1 .. N : flatten[i] = Next(i, flatten)
  BY <1>9
<1>11. 0 \in T
  <2>1. 1 \in 1 .. N => flatten[1] = seqs[1]
    BY <1>10 DEF Next
  <2> QED
    BY <1>1, <2>1
<1>12. ASSUME NEW m \in Nat, m \in T PROVE m + 1 \in T
  <2> SUFFICES ASSUME (m + 1) + 1 \in 1 .. N PROVE In((m + 1) + 1)
    OBVIOUS
  <2>1. m + 1 \in 1 .. N /\ (m + 1) + 1 # 1 /\ ((m + 1) + 1) - 1 = m + 1
    BY <1>1
  <2>2. flatten[(m + 1) + 1] = flatten[m + 1] \o seqs[(m + 1) + 1]
    BY <1>10, <2>1 DEF Next
  <2> QED
    BY <1>1, <1>12, <1>c, <2>1, <2>2
<1> HIDE DEF In
<1>13. Nat \subseteq T
  <2> HIDE DEF T
  <2> QED
    BY <1>11, <1>12, SetInduction
<1>14. \A i \in 1 .. N : flatten[i] \in Q
  <2> SUFFICES ASSUME NEW i \in 1 .. N PROVE flatten[i] \in Q
    OBVIOUS
  <2>1. i - 1 \in Nat /\ (i - 1) + 1 = i
    BY <1>1
  <2> QED
    BY <1>13, <2>1 DEF In
<1>15. flatten \in [1 .. N -> Q]
  BY <1>9, <1>14
<1> QED
  BY <1>f, <1>10, <1>15 DEF N, Q, Next

\* One sequence more goes to the end.
LEMMA FlattenAppend ==
  ASSUME NEW S, NEW seqs \in Seq(Seq(S)), NEW s \in Seq(S)
  PROVE  /\ FlattenSeq(seqs) \in Seq(S)
         /\ seqs = <<>> => FlattenSeq(seqs) = <<>>
         /\ FlattenSeq(Append(seqs, s)) = FlattenSeq(seqs) \o s
<1> DEFINE Q == Seq(S)
           N == Len(seqs)
           more == Append(seqs, s)
<1>1. N \in Nat /\ \A i \in 1 .. N : seqs[i] \in Q
  BY LenProperties, SeqEntries
<1>2. /\ more \in Seq(Q) /\ more # <<>> /\ Len(more) = N + 1
      /\ (\A i \in 1 .. N : more[i] = seqs[i]) /\ more[N + 1] = s
  BY AppendLast
<1>3. seqs = <<>> => FlattenSeq(seqs) = <<>> /\ N = 0
  BY DEF FlattenSeq
<1>e. <<>> \in Q /\ <<>> \o s = s
  BY ConcatEmptySeq
<1> HIDE DEF N, more
<1>4. PICK h \in [1 .. Len(more) -> Q] :
         /\ FlattenSeq(more) = h[Len(more)]
         /\ \A i \in 1 .. Len(more) : h[i] = IF i = 1 THEN more[i] ELSE h[i - 1] \o more[i]
  BY <1>2, FlattenIs
<1>n. N + 1 \in 1 .. N + 1
  BY <1>1
<1>h. FlattenSeq(more) = IF N + 1 = 1 THEN s ELSE h[(N + 1) - 1] \o s
  BY <1>2, <1>4, <1>n
<1>5. CASE seqs = <<>>
  <2>1. N + 1 = 1 /\ FlattenSeq(seqs) = <<>>
    BY <1>3, <1>5
  <2>2. FlattenSeq(more) = s
    BY <1>h, <2>1
  <2> QED
    BY <1>e, <2>1, <2>2 DEF more
<1>6. CASE seqs # <<>>
  <2>1. PICK g \in [1 .. Len(seqs) -> Q] :
           /\ FlattenSeq(seqs) = g[Len(seqs)]
           /\ \A i \in 1 .. Len(seqs) : g[i] = IF i = 1 THEN seqs[i] ELSE g[i - 1] \o seqs[i]
    BY <1>6, FlattenIs
  <2>2. N # 0
    BY <1>6, EmptySeq DEF N
  <2> HIDE DEF Q
  <2> DEFINE Same(i) == g[i] = h[i]
             T == {m \in Nat : m + 1 \in 1 .. N => Same(m + 1)}
  <2>3. 0 \in T
    <3>1. 1 \in 1 .. N /\ 1 \in 1 .. N + 1
      BY <1>1, <2>2
    <3>2. g[1] = seqs[1]
      BY <2>1, <3>1 DEF N
    <3>3. h[1] = more[1] /\ more[1] = seqs[1]
      BY <1>2, <1>4, <3>1
    <3> QED
      BY <3>2, <3>3
  <2>4. ASSUME NEW m \in Nat, m \in T PROVE m + 1 \in T
    <3> SUFFICES ASSUME (m + 1) + 1 \in 1 .. N PROVE Same((m + 1) + 1)
      OBVIOUS
    <3> DEFINE i == (m + 1) + 1
    <3>1. m + 1 \in 1 .. N /\ i \in 1 .. N /\ i \in 1 .. N + 1 /\ i # 1 /\ i - 1 = m + 1
      BY <1>1
    <3> HIDE DEF i
    <3>2. g[i] = g[i - 1] \o seqs[i] /\ h[i] = h[i - 1] \o more[i] /\ more[i] = seqs[i]
      BY <1>2, <1>4, <2>1, <3>1 DEF N
    <3>3. g[i - 1] = h[i - 1]
      BY <2>4, <3>1
    <3> QED
      BY <3>2, <3>3 DEF i
  <2> HIDE DEF Same
  <2>5. Nat \subseteq T
    <3> HIDE DEF T
    <3> QED
      BY <2>3, <2>4, SetInduction
  <2>6. g[N] = h[N]
    <3>1. N - 1 \in Nat /\ (N - 1) + 1 = N /\ N \in 1 .. N
      BY <1>1, <2>2
    <3> QED
      BY <2>5, <3>1 DEF Same
  <2>7. N + 1 # 1 /\ (N + 1) - 1 = N /\ N \in 1 .. N
    BY <1>1, <2>2
  <2> QED
    BY <1>6, <1>h, <2>1, <2>6, <2>7 DEF N, Q, more
<1> QED
  BY <1>5, <1>6 DEF Q, more

\* The first sequences of many, and one more
LEMMA FlattenNext ==
  ASSUME NEW S, NEW n \in Nat, NEW f \in [1 .. n -> Seq(S)], NEW g \in [1 .. n + 1 -> Seq(S)],
         \A i \in 1 .. n : f[i] = g[i]
  PROVE  /\ FlattenSeq(f) \in Seq(S) /\ FlattenSeq(g) \in Seq(S)
         /\ n = 0 => FlattenSeq(f) = <<>>
         /\ FlattenSeq(g) = FlattenSeq(f) \o g[n + 1]
<1> DEFINE Q == Seq(S)
           s == g[n + 1]
<1>1. n + 1 \in 1 .. n + 1 /\ \A i \in 1 .. n : i \in 1 .. n + 1
  OBVIOUS
<1>2. s \in Q /\ \A i \in 1 .. n : f[i] \in Q
  BY <1>1
<1>h. \A i \in 1 .. n + 1 : g[i] \in Q
  OBVIOUS
<1> HIDE DEF Q
<1>3. f \in Seq(Q) /\ g \in Seq(Q) /\ Len(f) = n /\ Len(g) = n + 1
  <2>1. f \in [1 .. n -> Q] /\ g \in [1 .. n + 1 -> Q]
    BY <1>2, <1>h
  <2> QED
    BY <2>1
<1>4. g = Append(f, s)
  <2>1. /\ Append(f, s) \in Seq(Q) /\ Len(Append(f, s)) = n + 1
        /\ (\A i \in 1 .. n : Append(f, s)[i] = f[i]) /\ Append(f, s)[n + 1] = s
    BY <1>2, <1>3, AppendLast
  <2>2. \A i \in 1 .. n + 1 : i \in 1 .. n \/ i = n + 1
    OBVIOUS
  <2>3. \A i \in 1 .. n + 1 : g[i] = Append(f, s)[i]
    BY <2>1, <2>2
  <2> QED
    BY <1>3, <2>1, <2>3, SeqEqual
<1>5. n = 0 => f = <<>>
  BY <1>3, EmptySeq
<1> HIDE DEF s
<1>6. /\ FlattenSeq(f) \in Seq(S)
      /\ f = <<>> => FlattenSeq(f) = <<>>
      /\ FlattenSeq(Append(f, s)) = FlattenSeq(f) \o s
  BY <1>2, <1>3, FlattenAppend DEF Q
<1>7. FlattenSeq(f) \o s \in Seq(S)
  BY <1>2, <1>6, ConcatProperties DEF Q
<1> QED
  BY <1>4, <1>5, <1>6, <1>7 DEF s
=============================================================================
