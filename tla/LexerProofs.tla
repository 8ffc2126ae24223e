----------------------------- MODULE LexerProofs -----------------------------
(***************************************************************************)
(* Proofs about Lexer, for sources of any length and content.              *)
(***************************************************************************)
EXTENDS Lexer, BasicFacts, FiniteSetTheorems

Chars == SourceChars \cup {"EOF"}

-----------------------------------------------------------------------------
(***************************************************************************)
(* The inductive invariant                                                 *)
(***************************************************************************)
Types ==
  /\ input \in Seq(Chars)
  /\ pc \in {"Idle", "Get", "Identifier", "Number", "Operator", "Comment"}
  /\ start \in 0 .. Len(input)
  /\ cur_tok \in Kind \cup {Indeterminate}
  /\ out \in Seq([kind : Kind, first : Nat, last : Nat])

\* The end of file is the last thing read.
EofIsLast == \A i \in 1 .. Len(input) - 1 : input[i] # "EOF"

\* What has been read of the token (or comment) get() is in
Reading ==
  pc \notin {"Idle", "Get"} =>
    /\ start \in 1 .. Len(input) - 1
    /\ input[start] \in Begins[pc]
    /\ pc = "Operator" => start = Len(input) - 1
    /\ pc = "Identifier" => \A i \in start .. Len(input) - 1 : input[i] \in Alnum
    /\ pc = "Number" => /\ \A i \in start .. Len(input) - 1 : input[i] \in Digit \cup {"."}
                        /\ \A i, j \in start .. Len(input) - 1 :
                             input[i] = "." /\ input[j] = "." => i = j

\* A token is spelled by its characters, and not by one more, in the source s.
TokenIs(t, s) ==
  /\ t.first \in 1 .. Len(s) /\ t.last \in t.first .. Len(s)
  /\ Spells(SubSeq(s, t.first, t.last), t.kind)
  /\ t.last < Len(s) => \A k \in Kind : ~Spells(SubSeq(s, t.first, t.last + 1), k)
  /\ t.kind # "eof" => t.last < Len(s)
  /\ t.kind = "eof" => s[Len(s)] = "EOF"

TokensInv == \A i \in DOMAIN out : TokenIs(out[i], input)

Inv == Types /\ EofIsLast /\ OneCharacterAhead /\ Reading /\ TokensInv

-----------------------------------------------------------------------------
(***************************************************************************)
(* Spellings                                                               *)
(***************************************************************************)
\* A token of two characters or more is an identifier or extern, a number or a pair.
LEMMA LongSpelling ==
  ASSUME NEW S, NEW s \in Seq(S), NEW k \in Kind, Spells(s, k), Len(s) >= 2
  PROVE  \/ s[1] \in Alpha /\ \A i \in 1 .. Len(s) : s[i] \in Alnum
         \/ /\ \A i \in 1 .. Len(s) : s[i] \in Digit \cup {"."}
            /\ \A i, j \in 1 .. Len(s) : s[i] = "." /\ s[j] = "." => i = j
         \/ k \in DOMAIN Pair /\ s = Pair[k]
<1>d. DOMAIN s = 1 .. Len(s) /\ 1 \in DOMAIN s
  BY SeqEntries
<1>1. CASE k = "identifier"
  <2>1. s[1] \in Alpha /\ ToSet(s) \subseteq Alnum
    BY <1>1 DEF Spells
  <2>2. \A i \in 1 .. Len(s) : s[i] \in Alnum
    BY <2>1, <1>d DEF ToSet
  <2> QED
    BY <2>1, <2>2
<1>2. CASE k = "extern"
  <2>1. s = Extern
    BY <1>2 DEF Spells
  <2>2. \A i \in 1 .. Len(s) : s[i] \in Alpha
    BY <2>1, ExternAssumption, SeqEntries
  <2> QED
    BY <2>2, <1>d DEF Alnum
<1>3. CASE k = "relative_number"
  <2>1. \A i \in DOMAIN s : s[i] \in Digit
    BY <1>3 DEF Spells
  <2> QED
    BY <2>1, <1>d DEF Digit
<1>4. CASE k = "real_number"
  <2>1. PICK dot \in DOMAIN s : s[dot] = "." /\ {i \in DOMAIN s : s[i] \in Digit} = DOMAIN s \ {dot}
    BY <1>4 DEF Spells
  <2>2. \A i \in DOMAIN s : i # dot => s[i] \in Digit
    BY <2>1
  <2>3. "." \notin Digit
    BY DEF Digit
  <2> QED
    BY <2>1, <2>2, <2>3, <1>d
<1>n. Len(s) \in Nat /\ Len(s) # 1
  <2>1. Len(s) \in Nat /\ \A n \in Nat : n >= 2 => n # 1
    BY LenProperties
  <2> QED
    BY <2>1
<1>5. CASE k = "line_break"
  <2>1. Len(s) = 1
    BY <1>5 DEF Spells
  <2> QED
    BY <1>n, <2>1
<1>6. CASE k = "eof"
  <2>1. s = <<"EOF">>
    BY <1>6 DEF Spells
  <2> QED
    BY <1>n, <2>1
<1>7. CASE k \notin {"identifier", "extern", "relative_number", "real_number", "line_break", "eof"}
  <2>1. CASE k \in DOMAIN Pair
    BY <2>1 DEF Spells
  <2>2. CASE k \notin DOMAIN Pair
    <3>1. k \in Single \cup Begins.Operator
      BY <1>7, <2>2 DEF Kind, Pair, Begins
    <3>2. s = <<k>>
      BY <3>1 DEF Spells
    <3> QED
      BY <3>2, <1>n
  <2> QED
    BY <2>1, <2>2
<1> QED
  BY <1>1, <1>2, <1>3, <1>4, <1>5, <1>6, <1>7

\* The pairs are of two characters that begin operators, or '/' after them.
LEMMA Pairs ==
  \A k \in DOMAIN Pair :
    /\ k \in Kind
    /\ k \notin {"identifier", "extern", "relative_number", "real_number", "line_break", "eof"}
    /\ Len(Pair[k]) = 2
    /\ Pair[k][1] \in {">", "<", ":", "="} /\ Pair[k][2] \in {"=", ">", "/"}
BY DEF Pair, Kind

\* The part of the source from a to b
LEMMA Part ==
  ASSUME NEW S, NEW s \in Seq(S), NEW a \in 1 .. Len(s), NEW b \in a .. Len(s)
  PROVE  /\ SubSeq(s, a, b) \in Seq(S)
         /\ Len(SubSeq(s, a, b)) = b - a + 1
         /\ \A i \in 1 .. b - a + 1 : SubSeq(s, a, b)[i] = s[a + i - 1]
<1>1. Len(s) \in Nat /\ a \in Int /\ b \in Int /\ a <= b /\ b <= Len(s) /\ a >= 1
  BY LenProperties
<1>2. \A i \in a .. b : s[i] \in S
  BY <1>1, ElementOfSeq
<1> QED
  BY <1>1, <1>2, SubSeqProperties

\* Reading on does not change what was read.
LEMMA PartStays ==
  ASSUME NEW S, NEW s \in Seq(S), NEW c \in S, NEW a \in 1 .. Len(s), NEW b \in a .. Len(s)
  PROVE  SubSeq(Append(s, c), a, b) = SubSeq(s, a, b)
<1>1. /\ Append(s, c) \in Seq(S) /\ Len(Append(s, c)) = Len(s) + 1
      /\ \A i \in 1 .. Len(s) : Append(s, c)[i] = s[i]
  BY AppendLast
<1>2. Len(s) \in Nat /\ a \in Int /\ b \in Int /\ a <= b /\ b <= Len(s) /\ a >= 1
  BY LenProperties
<1>3. a \in 1 .. Len(Append(s, c)) /\ b \in a .. Len(Append(s, c))
  BY <1>1, <1>2
<1>4. /\ SubSeq(s, a, b) \in Seq(S)
      /\ Len(SubSeq(s, a, b)) = b - a + 1
      /\ \A i \in 1 .. b - a + 1 : SubSeq(s, a, b)[i] = s[a + i - 1]
  BY Part
<1>5. /\ SubSeq(Append(s, c), a, b) \in Seq(S)
      /\ Len(SubSeq(Append(s, c), a, b)) = b - a + 1
      /\ \A i \in 1 .. b - a + 1 : SubSeq(Append(s, c), a, b)[i] = Append(s, c)[a + i - 1]
  BY <1>1, <1>3, Part
<1>6. \A i \in 1 .. b - a + 1 : Append(s, c)[a + i - 1] = s[a + i - 1]
  BY <1>1, <1>2
<1> DEFINE p == SubSeq(s, a, b)
           q == SubSeq(Append(s, c), a, b)
<1>7. \A i \in 1 .. Len(q) : q[i] = p[i]
  BY <1>4, <1>5, <1>6
<1> HIDE DEF p, q
<1>8. p \in Seq(S) /\ q \in Seq(S) /\ Len(q) = Len(p)
  BY <1>4, <1>5 DEF p, q
<1>9. q = p
  BY <1>7, <1>8, SeqEqual
<1> QED
  BY <1>9 DEF p, q

\* The spellings that get() returns: an identifier or extern, ...
LEMMA SpelledWord ==
  ASSUME NEW S, NEW s \in Seq(S), Len(s) >= 1, s[1] \in Alpha,
         \A i \in 1 .. Len(s) : s[i] \in Alnum
  PROVE  Spells(s, IF s = Extern THEN "extern" ELSE "identifier")
<1>1. ToSet(s) \subseteq Alnum
  BY SeqEntries DEF ToSet
<1> QED
  BY <1>1 DEF Spells, Pair, Single, Begins

\* ... a number, with a dot or without, ...
LEMMA SpelledNumber ==
  ASSUME NEW S, NEW s \in Seq(S), Len(s) >= 1,
         \A i \in 1 .. Len(s) : s[i] \in Digit \cup {"."},
         \A i, j \in 1 .. Len(s) : s[i] = "." /\ s[j] = "." => i = j
  PROVE  Spells(s, IF "." \in ToSet(s) THEN "real_number" ELSE "relative_number")
<1>d. DOMAIN s = 1 .. Len(s) /\ "." \notin Digit
  BY SeqEntries DEF Digit
<1>1. CASE "." \in ToSet(s)
  <2>1. PICK dot \in DOMAIN s : s[dot] = "."
    BY <1>1 DEF ToSet
  <2>2. {i \in DOMAIN s : s[i] \in Digit} = DOMAIN s \ {dot}
    BY <2>1, <1>d
  <2>3. Spells(s, "real_number")
    BY <2>1, <2>2 DEF Spells, Pair, Single, Begins
  <2> QED
    BY <2>3, <1>1
<1>2. CASE "." \notin ToSet(s)
  <2>1. \A i \in DOMAIN s : s[i] # "."
    BY <1>2, <1>d DEF ToSet
  <2>2. {i \in DOMAIN s : s[i] \in Digit} = DOMAIN s
    BY <2>1, <1>d
  <2>3. Spells(s, "relative_number")
    BY <2>2 DEF Spells, Pair, Single, Begins
  <2> QED
    BY <2>3, <1>2
<1> QED
  BY <1>1, <1>2

\* ... a pair, ...
LEMMA SpelledPair ==
  ASSUME NEW k \in DOMAIN Pair
  PROVE  Spells(Pair[k], k)
BY DEF Spells, Pair, Single, Begins

\* ... a line break, the end of file, or any other character.
LEMMA SpelledChar ==
  /\ \A c \in Break : Spells(<<c>>, "line_break")
  /\ Spells(<<"EOF">>, "eof")
  /\ \A c \in Single \cup Begins.Operator : Spells(<<c>>, c)
<1>1. \A c \in Break : Spells(<<c>>, "line_break")
  BY DEF Spells, Pair, Single, Begins
<1>2. Spells(<<"EOF">>, "eof")
  BY DEF Spells, Pair, Single, Begins
<1>3. \A c \in Single \cup Begins.Operator : Spells(<<c>>, c)
  BY DEF Spells, Pair, Single, Begins
<1> QED
  BY <1>1, <1>2, <1>3

-----------------------------------------------------------------------------
(***************************************************************************)
(* Reading and returning                                                   *)
(***************************************************************************)
\* A token stays a token when reading goes on.
LEMMA TokenStays ==
  ASSUME NEW s \in Seq(Chars), NEW c \in Chars, NEW t,
         TokenIs(t, s), s[Len(s)] # "EOF"
  PROVE  TokenIs(t, Append(s, c))
<1> DEFINE u == Append(s, c)
           n == Len(s)
<1>1. u \in Seq(Chars) /\ Len(u) = n + 1 /\ n \in Nat
  BY AppendLast, LenProperties
<1>2. t.first \in 1 .. n /\ t.last \in t.first .. n /\ t.kind # "eof" /\ t.last < n
  BY DEF TokenIs
<1>3. t.last + 1 \in t.first .. n
  BY <1>1, <1>2
<1>4. SubSeq(u, t.first, t.last) = SubSeq(s, t.first, t.last)
  BY <1>2, PartStays
<1>5. SubSeq(u, t.first, t.last + 1) = SubSeq(s, t.first, t.last + 1)
  BY <1>2, <1>3, PartStays
<1>6. /\ Spells(SubSeq(s, t.first, t.last), t.kind)
      /\ \A k \in Kind : ~Spells(SubSeq(s, t.first, t.last + 1), k)
  BY <1>2 DEF TokenIs
<1> HIDE DEF u, n
<1>7. t.first \in 1 .. n + 1 /\ t.last \in t.first .. n + 1 /\ t.last < n + 1
  BY <1>1, <1>2
<1>8. TokenIs(t, u)
  BY <1>1, <1>2, <1>4, <1>5, <1>6, <1>7 DEF TokenIs
<1> QED
  BY <1>8 DEF u

\* The character of lookahead
LEMMA Lookahead ==
  ASSUME Types
  PROVE  /\ Len(input) \in Nat
         /\ input = <<>> => last_char = " "
         /\ input # <<>> => last_char = input[Len(input)] /\ Len(input) >= 1
         /\ Len(input) # 0 => last_char = input[Len(input)]
         /\ \A i \in 1 .. Len(input) : input[i] \in Chars
<1>1. input \in Seq(Chars)
  BY DEF Types
<1>2. Len(input) \in Nat /\ (input # <<>> => Len(input) \in Nat \ {0})
  BY <1>1, EmptySeq, LenProperties
<1>3. Last(input) = input[Len(input)]
  BY DEF Last
<1>4. \A i \in 1 .. Len(input) : input[i] \in Chars
  BY <1>1, ElementOfSeq
<1>5. input # <<>> => Len(input) >= 1
  BY <1>2
<1>6. last_char = IF input = <<>> THEN " " ELSE input[Len(input)]
  BY <1>3 DEF last_char
<1>7. input = <<>> => Len(input) = 0
  OBVIOUS
<1> QED
  BY <1>2, <1>4, <1>5, <1>6, <1>7

\* Reader::get() adds a character, and takes nothing back.
LEMMA Advance ==
  ASSUME Inv, Read, last_char # "EOF"
  PROVE  /\ input' \in Seq(Chars)
         /\ Len(input') = Len(input) + 1
         /\ \A i \in 1 .. Len(input) : input'[i] = input[i]
         /\ EofIsLast'
         /\ \A i \in DOMAIN out : TokenIs(out[i], input')
<1>1. PICK c \in Chars : input' = Append(input, c)
  BY DEF Read, Chars, SourceChars
<1>2. input \in Seq(Chars) /\ Types
  BY DEF Inv, Types
<1>3. /\ input' \in Seq(Chars) /\ Len(input') = Len(input) + 1
      /\ \A i \in 1 .. Len(input) : input'[i] = input[i]
  BY <1>1, <1>2, AppendLast
<1>4. Len(input) \in Nat /\ \A i \in 1 .. Len(input) : input[i] # "EOF"
  <2>1. Len(input) \in Nat /\ (input # <<>> => last_char = input[Len(input)])
    BY <1>2, Lookahead
  <2>2. input = <<>> => Len(input) = 0
    OBVIOUS
  <2>3. \A i \in 1 .. Len(input) - 1 : input[i] # "EOF"
    BY DEF Inv, EofIsLast
  <2>4. \A i \in 1 .. Len(input) : input # <<>> /\ (i = Len(input) \/ i \in 1 .. Len(input) - 1)
    BY <2>1, <2>2
  <2> QED
    BY <2>1, <2>3, <2>4
<1>5. EofIsLast'
  BY <1>3, <1>4 DEF EofIsLast
<1>6. ASSUME NEW i \in DOMAIN out PROVE TokenIs(out[i], input')
  <2>1. TokenIs(out[i], input)
    BY DEF Inv, TokensInv
  <2>2. Len(input) >= 1
    BY <2>1, <1>4 DEF TokenIs
  <2>3. input[Len(input)] # "EOF"
    BY <2>2, <1>4
  <2> QED
    BY <1>1, <1>2, <2>1, <2>3, TokenStays
<1> QED
  BY <1>3, <1>5, <1>6

\* A token that is one is one of the tokens.
LEMMA Returned ==
  ASSUME Inv, NEW kind \in Kind, NEW first \in Nat, NEW last \in Nat,
         Return(kind, first, last),
         input' \in Seq(Chars), Len(input) <= Len(input'), EofIsLast',
         \A i \in DOMAIN out : TokenIs(out[i], input'),
         TokenIs([kind |-> kind, first |-> first, last |-> last], input'),
         kind # "eof" => Len(input') = last + 1
  PROVE  Inv'
<1> DEFINE t == [kind |-> kind, first |-> first, last |-> last]
           T == [kind : Kind, first : Nat, last : Nat]
<1>1. t \in T /\ out \in Seq(T) /\ TokenIs(t, input')
  BY DEF Inv, Types
<1>2. out' = Append(out, t) /\ pc' = "Idle" /\ start' = start /\ cur_tok' = kind
  BY DEF Return
<1>k. t.kind = kind /\ t.last = last
  OBVIOUS
<1> HIDE DEF t, T
<1>3. /\ out' \in Seq(T) /\ Len(out') = Len(out) + 1 /\ Last(out') = t
      /\ \A i \in 1 .. Len(out) : out'[i] = out[i]
      /\ out'[Len(out) + 1] = t
  BY <1>1, <1>2, AppendLast
<1>4. DOMAIN out' = 1 .. Len(out) + 1 /\ DOMAIN out = 1 .. Len(out) /\ Len(out) \in Nat
  BY <1>1, <1>3, LenProperties
<1>5. TokensInv'
  <2> SUFFICES ASSUME NEW i \in 1 .. Len(out) + 1 PROVE TokenIs(out'[i], input')
    BY <1>4 DEF TokensInv, TokenIs
  <2>1. CASE i \in 1 .. Len(out)
    BY <2>1, <1>3, <1>4
  <2>2. CASE i = Len(out) + 1
    BY <2>2, <1>1, <1>3
  <2> QED
    BY <2>1, <2>2, <1>4
<1>6. Types'
  <2>1. start \in 0 .. Len(input) /\ Len(input) \in Nat /\ Len(input') \in Nat
    BY LenProperties DEF Inv, Types
  <2>2. start' \in 0 .. Len(input')
    BY <2>1, <1>2
  <2> QED
    BY <2>2, <1>2, <1>3 DEF Types, T
<1>7. OneCharacterAhead'
  BY <1>2, <1>3, <1>k DEF OneCharacterAhead, EofIsLast
<1>8. Reading'
  BY <1>2 DEF Reading
<1> QED
  BY <1>5, <1>6, <1>7, <1>8 DEF Inv

\* A step that reads and returns nothing
LEMMA Continues ==
  ASSUME Inv, Read, last_char # "EOF", out' = out, cur_tok' = cur_tok,
         pc' \in {"Get", "Identifier", "Number", "Operator", "Comment"},
         start' \in 0 .. Len(input'), Reading'
  PROVE  Inv'
<1>1. /\ input' \in Seq(Chars) /\ EofIsLast'
      /\ \A i \in DOMAIN out : TokenIs(out[i], input')
  BY Advance
<1>2. TokensInv'
  BY <1>1 DEF TokensInv, TokenIs
<1>3. Types'
  BY <1>1 DEF Inv, Types
<1>4. OneCharacterAhead'
  BY <1>1 DEF OneCharacterAhead, EofIsLast
<1> QED
  BY <1>1, <1>2, <1>3, <1>4 DEF Inv

\* The classes of characters by what they begin
LEMMA Classes ==
  /\ \A state \in DOMAIN Begins : " " \notin Begins[state] /\ "EOF" \notin Begins[state]
  /\ DOMAIN Begins = {"Identifier", "Number", "Operator", "Comment"}
  /\ \A c \in Space \cup Break \cup Single \cup Alnum \cup {"."} : c # "EOF"
  /\ \A c \in Break \cup Single \cup Alnum \cup {"."} : c # " "
  /\ \A c \in Break \cup Single \cup Begins.Operator : c \notin Alpha \cup Digit \cup {"."}
  /\ Alpha \subseteq Alnum /\ "." \notin Alnum
  /\ \A c \in Alpha : c \notin Digit \cup {"."}
  /\ Begins["Identifier"] = Alpha /\ Begins["Number"] = Digit \cup {"."}
  /\ Begins["Operator"] = {">", "<", ":", "="} /\ Begins["Comment"] = {"$"}
  /\ \A c \in Break \cup Single : c \notin Begins["Operator"]
<1>1. /\ DOMAIN Begins = {"Identifier", "Number", "Operator", "Comment"}
      /\ Begins["Identifier"] = Alpha /\ Begins["Number"] = Digit \cup {"."}
      /\ Begins["Operator"] = {">", "<", ":", "="} /\ Begins["Comment"] = {"$"}
  BY DEF Begins
<1>2. \A c \in Alpha \cup Digit \cup {".", ">", "<", ":", "=", "$"} : c # " " /\ c # "EOF"
  BY DEF Alpha, Digit
<1>3. \A state \in DOMAIN Begins : " " \notin Begins[state] /\ "EOF" \notin Begins[state]
  BY <1>1, <1>2
<1>4. \A c \in Space \cup Break \cup Single \cup Alnum \cup {"."} : c # "EOF"
  BY DEF Space, Break, Single, Alnum, Alpha, Digit
<1>5. \A c \in Break \cup Single \cup Alnum \cup {"."} : c # " "
  BY DEF Break, Single, Alnum, Alpha, Digit
<1>6. \A c \in Break \cup Single \cup Begins.Operator : c \notin Alpha \cup Digit \cup {"."}
  BY DEF Break, Single, Begins, Alpha, Digit
<1>7. /\ Alpha \subseteq Alnum /\ "." \notin Alnum
      /\ \A c \in Alpha : c \notin Digit \cup {"."}
  BY DEF Alnum, Alpha, Digit
<1>8. \A c \in Break \cup Single : c \notin Begins["Operator"]
  BY <1>1 DEF Break, Single
<1> QED
  BY <1>1, <1>3, <1>4, <1>5, <1>6, <1>7, <1>8

\* The text that was read
LEMMA TextIs ==
  ASSUME Inv, pc \notin {"Idle", "Get"}
  PROVE  /\ Len(input) \in Nat /\ start \in Nat /\ start >= 1 /\ start < Len(input)
         /\ text \in Seq(Chars) /\ Len(text) = Len(input) - start
         /\ \A i \in 1 .. Len(input) - start : text[i] = input[start + i - 1]
         /\ hadDot <=> \E i \in start .. Len(input) - 1 : input[i] = "."
<1>1. input \in Seq(Chars) /\ Len(input) \in Nat
  BY LenProperties DEF Inv, Types
<1>2. start \in 1 .. Len(input) - 1
  BY DEF Inv, Reading
<1>3. start \in 1 .. Len(input) /\ Len(input) - 1 \in start .. Len(input)
  BY <1>1, <1>2
<1> DEFINE last == Len(input) - 1
<1> HIDE DEF last
<1>4. /\ SubSeq(input, start, last) \in Seq(Chars)
      /\ Len(SubSeq(input, start, last)) = last - start + 1
      /\ \A i \in 1 .. last - start + 1 : SubSeq(input, start, last)[i] = input[start + i - 1]
  BY <1>1, <1>3, Part DEF last
<1>5. last - start + 1 = Len(input) - start
  BY <1>1, <1>2 DEF last
<1>6. /\ text \in Seq(Chars) /\ Len(text) = Len(input) - start
      /\ \A i \in 1 .. Len(input) - start : text[i] = input[start + i - 1]
  BY <1>4, <1>5 DEF text, last
<1>7. DOMAIN text = 1 .. Len(input) - start
  BY <1>6, SeqEntries
<1>8. hadDot <=> \E i \in 1 .. Len(input) - start : input[start + i - 1] = "."
  BY <1>6, <1>7 DEF hadDot, ToSet
<1>9. (\E i \in 1 .. Len(input) - start : input[start + i - 1] = ".")
        <=> \E i \in start .. Len(input) - 1 : input[i] = "."
  <2>1. ASSUME NEW i \in 1 .. Len(input) - start
        PROVE  start + i - 1 \in start .. Len(input) - 1
    BY <1>1, <1>2
  <2>2. ASSUME NEW i \in start .. Len(input) - 1
        PROVE  i - start + 1 \in 1 .. Len(input) - start /\ start + (i - start + 1) - 1 = i
    BY <1>1, <1>2
  <2> QED
    BY <2>1, <2>2
<1>10. start \in Nat /\ start >= 1 /\ start < Len(input)
  BY <1>1, <1>2
<1>11. hadDot <=> \E i \in start .. Len(input) - 1 : input[i] = "."
  BY <1>8, <1>9
<1> QED
  BY <1>1, <1>6, <1>10, <1>11

\* while (isspace(last_char) && last_char != '\n')
LEMMA SkipSpaceStep == ASSUME Inv, SkipSpace PROVE Inv'
<1>1. /\ pc = "Get" /\ last_char \in Space /\ Read
      /\ pc' = pc /\ start' = start /\ cur_tok' = cur_tok /\ out' = out
  BY DEF SkipSpace
<1>2. last_char # "EOF"
  BY <1>1, Classes
<1>3. start' \in 0 .. Len(input')
  BY <1>1, <1>2, Advance, LenProperties DEF Inv, Types
<1> QED
  BY <1>1, <1>2, <1>3, Continues DEF Reading

\* The first character of what may be longer
LEMMA BeginStep == ASSUME Inv, Begin PROVE Inv'
<1>1. PICK state \in DOMAIN Begins : last_char \in Begins[state] /\ pc' = state
  BY DEF Begin
<1>2. Read /\ start' = Len(input) /\ cur_tok' = cur_tok /\ out' = out
  BY DEF Begin
<1>3. last_char # "EOF" /\ last_char # " "
  BY <1>1, Classes
<1>4. Len(input) \in Nat /\ Len(input) >= 1 /\ last_char = input[Len(input)]
  BY <1>3, Lookahead DEF Inv
<1>5. Len(input') = Len(input) + 1 /\ \A i \in 1 .. Len(input) : input'[i] = input[i]
  BY <1>2, <1>3, Advance
<1>6. start' \in 1 .. Len(input') - 1 /\ start' = Len(input') - 1 /\ start' \in 0 .. Len(input')
  BY <1>2, <1>4, <1>5
<1>7. input'[start'] = last_char /\ \A i \in start' .. Len(input') - 1 : i = start'
  BY <1>2, <1>4, <1>5
<1>8. Reading'
  <2>1. input'[start'] \in Begins[pc']
    BY <1>1, <1>7
  <2>2. pc' = "Identifier" => input'[start'] \in Alnum
    BY <2>1, Classes
  <2>3. pc' = "Number" => input'[start'] \in Digit \cup {"."}
    BY <2>1, Classes
  <2> QED
    BY <1>6, <1>7, <2>1, <2>2, <2>3 DEF Reading, Begins
<1> QED
  BY <1>1, <1>2, <1>3, <1>6, <1>8, Classes, Continues

\* The loops of identifiers, numbers and comments
LEMMA MoreStep == ASSUME Inv, More PROVE Inv'
<1>1. /\ GoesOn /\ Read
      /\ pc' = pc /\ start' = start /\ cur_tok' = cur_tok /\ out' = out
  BY DEF More
<1>2. last_char # "EOF" /\ pc \in {"Identifier", "Number", "Comment"}
  BY <1>1, Classes DEF GoesOn, NumberGoesOn, Alnum
<1>3. /\ Len(input) \in Nat /\ start \in Nat /\ start >= 1 /\ start < Len(input)
      /\ hadDot <=> \E i \in start .. Len(input) - 1 : input[i] = "."
  BY <1>2, TextIs
<1>4. last_char = input[Len(input)]
  <2>1. Len(input) # 0
    BY <1>3
  <2>2. Types
    BY DEF Inv
  <2> QED
    BY <2>1, <2>2, Lookahead
<1>5. Len(input') = Len(input) + 1 /\ \A i \in 1 .. Len(input) : input'[i] = input[i]
  BY <1>1, <1>2, Advance
<1>6. /\ start' \in 1 .. Len(input') - 1 /\ start' \in 0 .. Len(input')
      /\ input'[start'] = input[start]
  BY <1>1, <1>3, <1>5
<1>7. \A i \in start' .. Len(input') - 1 :
        /\ input'[i] = input[i]
        /\ i \in start .. Len(input) - 1 \/ (i = Len(input) /\ input[i] = last_char)
  BY <1>1, <1>3, <1>4, <1>5
<1>8. Reading'
  <2>1. input'[start'] \in Begins[pc']
    BY <1>1, <1>2, <1>6 DEF Inv, Reading
  <2>2. CASE pc = "Identifier"
    <3>1. last_char \in Alnum
      BY <1>1, <2>2 DEF GoesOn
    <3> QED
      BY <2>1, <2>2, <3>1, <1>1, <1>6, <1>7 DEF Inv, Reading
  <2>3. CASE pc = "Number"
    <3>1. last_char \in Digit \/ (last_char = "." /\ ~hadDot)
      BY <1>1, <2>3 DEF GoesOn, NumberGoesOn
    <3>2. "." \notin Digit
      BY DEF Digit
    <3>3. /\ \A i \in start .. Len(input) - 1 : input[i] \in Digit \cup {"."}
          /\ \A i, j \in start .. Len(input) - 1 : input[i] = "." /\ input[j] = "." => i = j
      BY <2>3 DEF Inv, Reading
    <3>4. \A i \in start' .. Len(input') - 1 : input'[i] \in Digit \cup {"."}
      BY <3>1, <3>3, <1>7
    <3>5. \A i, j \in start' .. Len(input') - 1 : input'[i] = "." /\ input'[j] = "." => i = j
      BY <3>1, <3>2, <3>3, <1>7, <1>3
    <3> QED
      BY <2>1, <2>3, <3>4, <3>5, <1>1, <1>6 DEF Reading
  <2>4. CASE pc = "Comment"
    BY <2>1, <2>4, <1>1, <1>6 DEF Reading
  <2> QED
    BY <2>2, <2>3, <2>4, <1>2
<1> QED
  BY <1>1, <1>2, <1>6, <1>8, Continues

\* What is read, in a token of more than one character, up to last_char
LEMMA MoreIs ==
  ASSUME Inv, pc \notin {"Idle", "Get"}
  PROVE  LET more == SubSeq(input, start, Len(input))
         IN  /\ more \in Seq(Chars) /\ Len(more) = Len(input) - start + 1 /\ Len(more) >= 2
             /\ more[1] = input[start] /\ more[Len(more)] = last_char
             /\ \A i \in 1 .. Len(more) : more[i] = input[start + i - 1]
<1>1. input \in Seq(Chars) /\ Types
  BY DEF Inv, Types
<1>2. Len(input) \in Nat /\ start \in Nat /\ start >= 1 /\ start < Len(input)
  BY TextIs
<1> DEFINE n == Len(input)
           more == SubSeq(input, start, n)
<1>3. start \in 1 .. Len(input) /\ n \in start .. Len(input)
  BY <1>2
<1> HIDE DEF n
<1>4. /\ more \in Seq(Chars) /\ Len(more) = n - start + 1
      /\ \A i \in 1 .. n - start + 1 : more[i] = input[start + i - 1]
  BY <1>1, <1>3, Part
<1>5. n \in Nat /\ n # 0 /\ start < n /\ n - start + 1 \in 1 .. n - start + 1
      /\ 1 \in 1 .. n - start + 1 /\ start + (n - start + 1) - 1 = n /\ start + 1 - 1 = start
  BY <1>2 DEF n
<1>6. last_char = input[n]
  BY <1>1, <1>5, Lookahead DEF n
<1> HIDE DEF more
<1>7. more[1] = input[start] /\ more[Len(more)] = last_char
  BY <1>4, <1>5, <1>6
<1>8. Len(more) >= 2
  BY <1>2, <1>4, <1>5
<1> QED
  BY <1>4, <1>7, <1>8 DEF more, n

\* A token that ends where last_char is no part of it
LEMMA EndStep ==
  ASSUME Inv, NEW state \in {"Identifier", "Number", "Operator"}, NEW kind \in Kind \ {"eof"},
         End(state, kind), Spells(text, kind),
         \A k \in Kind : ~Spells(SubSeq(input, start, Len(input)), k)
  PROVE  Inv'
<1>1. pc = state /\ Return(kind, start, Len(input) - 1) /\ input' = input
  BY DEF End
<1>2. Len(input) \in Nat /\ start \in Nat /\ start >= 1 /\ start < Len(input)
  BY <1>1, TextIs
<1>3. input \in Seq(Chars) /\ EofIsLast
  BY DEF Inv, Types
<1> DEFINE t == [kind |-> kind, first |-> start, last |-> Len(input) - 1]
<1>4. /\ t.first = start /\ t.last = Len(input) - 1 /\ t.kind = kind
      /\ t.last \in Nat /\ t.last + 1 = Len(input)
  BY <1>2
<1> HIDE DEF t
<1>5. /\ t.first \in 1 .. Len(input) /\ t.last \in t.first .. Len(input)
      /\ t.last < Len(input) /\ t.kind # "eof"
  BY <1>2, <1>4
<1>6. SubSeq(input, t.first, t.last) = text /\ SubSeq(input, t.first, t.last + 1) = SubSeq(input, start, Len(input))
  BY <1>4 DEF text
<1>7. TokenIs(t, input)
  BY <1>4, <1>5, <1>6 DEF TokenIs
<1>8. TokenIs([kind |-> kind, first |-> start, last |-> Len(input) - 1], input')
  BY <1>1, <1>7 DEF t
<1>9. \A i \in DOMAIN out : TokenIs(out[i], input')
  BY <1>1 DEF Inv, TokensInv
<1>10. EofIsLast' /\ input' \in Seq(Chars) /\ Len(input) <= Len(input')
  BY <1>1, <1>2, <1>3 DEF EofIsLast
<1>11. Len(input') = (Len(input) - 1) + 1
  BY <1>1, <1>2
<1>12. Len(input) - 1 \in Nat /\ kind \in Kind
  BY <1>2
<1> HIDE DEF Inv
<1> QED
  BY <1>1, <1>2, <1>8, <1>9, <1>10, <1>11, <1>12, Returned

\* identifier: [a-zA-Z][a-zA-Z0-9]*, or extern
LEMMA IdentifierStep == ASSUME Inv, IdentifierEnd PROVE Inv'
<1> DEFINE kind == IF text = Extern THEN "extern" ELSE "identifier"
           more == SubSeq(input, start, Len(input))
<1>1. End("Identifier", kind) /\ pc = "Identifier" /\ last_char \notin Alnum
  BY DEF IdentifierEnd, End, GoesOn
<1>2. /\ Len(input) \in Nat /\ start \in Nat /\ start >= 1 /\ start < Len(input)
      /\ text \in Seq(Chars) /\ Len(text) = Len(input) - start
      /\ \A i \in 1 .. Len(input) - start : text[i] = input[start + i - 1]
  BY <1>1, TextIs
<1>3. /\ input[start] \in Alpha
      /\ \A i \in start .. Len(input) - 1 : input[i] \in Alnum
  BY <1>1, Classes DEF Inv, Reading
<1>4. Spells(text, kind)
  <2>1. \A i \in 1 .. Len(input) - start : start + i - 1 \in start .. Len(input) - 1
    BY <1>2
  <2>2. 1 \in 1 .. Len(input) - start /\ start + 1 - 1 = start /\ Len(input) - start >= 1
    BY <1>2
  <2>3. Len(text) >= 1 /\ text[1] \in Alpha /\ \A i \in 1 .. Len(text) : text[i] \in Alnum
    BY <1>2, <1>3, <2>1, <2>2
  <2> QED
    BY <1>2, <2>3, SpelledWord
<1>5. ASSUME NEW k \in Kind, Spells(more, k) PROVE FALSE
  <2>1. /\ more \in Seq(Chars) /\ Len(more) >= 2
        /\ more[1] = input[start] /\ more[Len(more)] = last_char
    BY <1>1, MoreIs
  <2> HIDE DEF more
  <2>2. Len(more) \in 1 .. Len(more) /\ 1 \in 1 .. Len(more)
    BY <2>1, LenProperties
  <2>3. ~ \A i \in 1 .. Len(more) : more[i] \in Alnum
    BY <1>1, <2>1, <2>2
  <2>4. ~ \A i \in 1 .. Len(more) : more[i] \in Digit \cup {"."}
    BY <1>3, <2>1, <2>2, Classes
  <2>5. ~(k \in DOMAIN Pair /\ more = Pair[k])
    BY <1>3, <2>1, Pairs, Classes
  <2> QED
    BY <1>5, <2>1, <2>3, <2>4, <2>5, LongSpelling
<1>6. kind \in Kind \ {"eof"}
  BY DEF Kind
<1> HIDE DEF kind, more
<1> QED
  BY <1>1, <1>4, <1>5, <1>6, EndStep DEF more

\* A number, with one dot at most
LEMMA NumberStep == ASSUME Inv, NumberEnd PROVE Inv'
<1> DEFINE kind == IF hadDot THEN "real_number" ELSE "relative_number"
           more == SubSeq(input, start, Len(input))
<1>1. /\ End("Number", kind) /\ pc = "Number"
      /\ last_char \notin Digit /\ (last_char = "." => hadDot)
  BY DEF NumberEnd, End, GoesOn, NumberGoesOn
<1>2. /\ Len(input) \in Nat /\ start \in Nat /\ start >= 1 /\ start < Len(input)
      /\ text \in Seq(Chars) /\ Len(text) = Len(input) - start
      /\ \A i \in 1 .. Len(input) - start : text[i] = input[start + i - 1]
      /\ hadDot <=> \E i \in start .. Len(input) - 1 : input[i] = "."
  BY <1>1, TextIs
<1>3. /\ \A i \in start .. Len(input) - 1 : input[i] \in Digit \cup {"."}
      /\ \A i, j \in start .. Len(input) - 1 : input[i] = "." /\ input[j] = "." => i = j
  BY <1>1 DEF Inv, Reading
<1>4. Spells(text, kind)
  <2>1. \A i \in 1 .. Len(input) - start :
          start + i - 1 \in start .. Len(input) - 1 /\ i = (start + i - 1) - start + 1
    BY <1>2
  <2>2. Len(text) >= 1 /\ \A i \in 1 .. Len(text) : text[i] \in Digit \cup {"."}
    BY <1>2, <1>3, <2>1
  <2>3. ASSUME NEW i \in 1 .. Len(text), NEW j \in 1 .. Len(text), text[i] = ".", text[j] = "."
        PROVE  i = j
    <3>1. input[start + i - 1] = "." /\ input[start + j - 1] = "."
      BY <1>2, <2>3
    <3>2. start + i - 1 = start + j - 1
      BY <1>2, <1>3, <2>1, <3>1
    <3> QED
      BY <1>2, <3>2
  <2> QED
    BY <1>2, <2>2, <2>3, SpelledNumber DEF hadDot
<1>5. ASSUME NEW k \in Kind, Spells(more, k) PROVE FALSE
  <2>1. /\ more \in Seq(Chars) /\ Len(more) = Len(input) - start + 1 /\ Len(more) >= 2
        /\ more[1] = input[start] /\ more[Len(more)] = last_char
        /\ \A i \in 1 .. Len(more) : more[i] = input[start + i - 1]
    BY <1>1, MoreIs
  <2> HIDE DEF more
  <2>2. Len(more) \in 1 .. Len(more) /\ 1 \in 1 .. Len(more)
    BY <2>1, LenProperties
  <2>s. start \in start .. Len(input) - 1
    BY <1>2
  <2>3. more[1] \in Digit \cup {"."}
    BY <1>3, <2>1, <2>s
  <2>4. more[1] \notin Alpha /\ more[1] \notin {">", "<", ":", "="}
    BY <2>3, Classes
  <2>5. ~(k \in DOMAIN Pair /\ more = Pair[k])
    BY <2>4, Pairs
  <2>6. /\ \A i \in 1 .. Len(more) : more[i] \in Digit \cup {"."}
        /\ \A i, j \in 1 .. Len(more) : more[i] = "." /\ more[j] = "." => i = j
    BY <1>5, <2>1, <2>4, <2>5, LongSpelling
  <2>7. last_char = "."
    BY <1>1, <2>1, <2>2, <2>6
  <2>8. PICK i \in start .. Len(input) - 1 : input[i] = "."
    BY <1>1, <1>2, <2>7
  <2>9. /\ i - start + 1 \in 1 .. Len(more) /\ start + (i - start + 1) - 1 = i
        /\ i - start + 1 # Len(more)
    BY <1>2, <2>1
  <2> QED
    BY <2>1, <2>2, <2>6, <2>7, <2>8, <2>9
<1>6. kind \in Kind \ {"eof"}
  BY DEF Kind
<1> HIDE DEF kind, more
<1> QED
  BY <1>1, <1>4, <1>5, <1>6, EndStep DEF more

\* '>', '<', ':' and '=' alone
LEMMA SingleStep == ASSUME Inv, OperatorSingle PROVE Inv'
<1> DEFINE kind == input[start]
           more == SubSeq(input, start, Len(input))
<1>1. /\ End("Operator", kind) /\ pc = "Operator"
      /\ \A k \in DOMAIN Pair : <<input[start], last_char>> # Pair[k]
  BY DEF OperatorSingle, IsPair
<1>2. /\ Len(input) \in Nat /\ start \in Nat /\ start >= 1
      /\ text \in Seq(Chars) /\ Len(text) = Len(input) - start
      /\ \A i \in 1 .. Len(input) - start : text[i] = input[start + i - 1]
  BY <1>1, TextIs
<1>3. input[start] \in {">", "<", ":", "="} /\ start = Len(input) - 1
  BY <1>1, Classes DEF Inv, Reading
<1>4. Spells(text, kind)
  <2>1. Len(text) = 1 /\ text[1] = kind
    BY <1>2, <1>3
  <2>2. text = <<kind>>
    BY <1>2, <2>1
  <2> QED
    BY <1>3, <2>2, SpelledChar, Classes
<1>5. ASSUME NEW k \in Kind, Spells(more, k) PROVE FALSE
  <2>1. /\ more \in Seq(Chars) /\ Len(more) = Len(input) - start + 1 /\ Len(more) >= 2
        /\ more[1] = input[start] /\ more[Len(more)] = last_char
    BY <1>1, MoreIs
  <2> HIDE DEF more
  <2>2. Len(more) = 2 /\ 1 \in 1 .. Len(more)
    BY <1>2, <1>3, <2>1
  <2>3. more = <<input[start], last_char>>
    BY <2>1, <2>2, ShortSeq
  <2>4. more[1] \notin Alpha /\ more[1] \notin Digit \cup {"."}
    BY <1>3, <2>1, Classes
  <2> QED
    BY <1>1, <1>5, <2>1, <2>2, <2>3, <2>4, LongSpelling
<1>6. kind \in Kind \ {"eof"}
  BY <1>3 DEF Kind
<1> HIDE DEF kind, more
<1> QED
  BY <1>1, <1>4, <1>5, <1>6, EndStep DEF more

\* A character that is not the first of anything longer
LEMMA ReturnCharStep ==
  ASSUME Inv, last_char \in Break \cup Single, NEW kind \in Kind \ {"eof"},
         Spells(<<last_char>>, kind), ReturnChar(kind)
  PROVE  Inv'
<1> DEFINE n == Len(input)
<1>1. Read /\ Return(kind, n, n)
  BY DEF ReturnChar
<1>2. last_char # "EOF" /\ last_char # " "
  BY Classes
<1>3. /\ input' \in Seq(Chars) /\ Len(input') = n + 1
      /\ \A i \in 1 .. n : input'[i] = input[i]
      /\ EofIsLast' /\ \A i \in DOMAIN out : TokenIs(out[i], input')
  BY <1>1, <1>2, Advance
<1>4. n \in Nat /\ n >= 1 /\ last_char = input[n]
  BY <1>2, Lookahead DEF Inv
<1> HIDE DEF n
<1>5. input'[n] = last_char
  BY <1>3, <1>4
<1> DEFINE one == SubSeq(input', n, n)
           two == SubSeq(input', n, n + 1)
<1>6. /\ n \in 1 .. Len(input') /\ n \in n .. Len(input') /\ n + 1 \in n .. Len(input')
      /\ n - n + 1 = 1 /\ (n + 1) - n + 1 = 2 /\ n + 1 - 1 = n
  BY <1>3, <1>4
<1>7. one \in Seq(Chars) /\ Len(one) = 1 /\ one[1] = last_char
  BY <1>3, <1>5, <1>6, Part
<1>8. two \in Seq(Chars) /\ Len(two) = 2 /\ two[1] = last_char
  BY <1>3, <1>5, <1>6, Part
<1> HIDE DEF one, two
<1>9. Spells(one, kind)
  BY <1>7, ShortSeq
<1>10. ASSUME NEW k \in Kind, Spells(two, k) PROVE FALSE
  <2>1. last_char \notin Alpha \cup Digit \cup {"."} /\ last_char \notin {">", "<", ":", "="}
    BY Classes
  <2>2. 1 \in 1 .. Len(two)
    BY <1>8
  <2> QED
    BY <1>8, <1>10, <2>1, <2>2, LongSpelling, Pairs
<1> DEFINE t == [kind |-> kind, first |-> n, last |-> n]
<1>11. t.kind = kind /\ t.first = n /\ t.last = n
  OBVIOUS
<1> HIDE DEF t
<1>12. n < Len(input')
  BY <1>3, <1>4
<1>13. TokenIs(t, input')
  BY <1>6, <1>9, <1>10, <1>11, <1>12 DEF TokenIs, one, two
<1>14. Len(input) <= Len(input') /\ kind \in Kind
  BY <1>3, <1>4 DEF n
<1> QED
  BY <1>1, <1>3, <1>4, <1>13, <1>14, Returned DEF t

\* The rest of get(), when it is nothing longer
LEMMA OtherCharStep == ASSUME Inv, OtherChar PROVE Inv'
<1>1. last_char \in Single /\ ReturnChar(last_char)
  BY DEF OtherChar
<1>2. last_char \in Kind \ {"eof"}
  BY <1>1 DEF Kind, Single
<1>3. Spells(<<last_char>>, last_char)
  BY <1>1, SpelledChar
<1> QED
  BY <1>1, <1>2, <1>3, ReturnCharStep

\* A line break, returned or dropped
LEMMA LineBreakStep == ASSUME Inv, LineBreak PROVE Inv'
<1>1. last_char \in Break
  BY DEF LineBreak
<1>2. CASE cur_tok # "line_break"
  <2>1. ReturnChar("line_break")
    BY <1>2 DEF LineBreak
  <2>2. Spells(<<last_char>>, "line_break") /\ "line_break" \in Kind \ {"eof"}
    BY <1>1, SpelledChar DEF Kind
  <2> QED
    BY <1>1, <2>1, <2>2, ReturnCharStep
<1>3. CASE cur_tok = "line_break"
  <2>1. /\ Read /\ pc = "Get"
        /\ pc' = pc /\ start' = start /\ cur_tok' = cur_tok /\ out' = out
    BY <1>3 DEF LineBreak
  <2>2. last_char # "EOF"
    BY <1>1, Classes
  <2>3. start' \in 0 .. Len(input')
    BY <2>1, <2>2, Advance, LenProperties DEF Inv, Types
  <2> QED
    BY <2>1, <2>2, <2>3, Continues DEF Reading
<1> QED
  BY <1>2, <1>3

\* What ends a comment is eaten with it.
LEMMA CommentStep == ASSUME Inv, CommentEnd PROVE Inv'
<1>1. /\ Read /\ last_char \in CommentStops
      /\ pc' = "Get" /\ start' = start /\ cur_tok' = cur_tok /\ out' = out
  BY DEF CommentEnd
<1>2. last_char # "EOF"
  BY <1>1 DEF CommentStops
<1>3. start' \in 0 .. Len(input')
  BY <1>1, <1>2, Advance, LenProperties DEF Inv, Types
<1> QED
  BY <1>1, <1>2, <1>3, Continues DEF Reading

\* Operators of two characters
LEMMA PairStep == ASSUME Inv, OperatorPair PROVE Inv'
<1> DEFINE n == Len(input)
<1>1. PICK kind \in DOMAIN Pair : IsPair(kind) /\ Read /\ Return(kind, start, n)
  BY DEF OperatorPair
<1>2. pc = "Operator" /\ <<input[start], last_char>> = Pair[kind]
  BY <1>1 DEF IsPair
<1>p. /\ kind \in Kind /\ kind # "eof" /\ Len(Pair[kind]) = 2
      /\ input[start] \in {">", "<", ":", "="} /\ last_char \in {"=", ">", "/"}
  BY <1>2, Pairs
<1>3. last_char # "EOF"
  BY <1>p
<1>4. /\ input' \in Seq(Chars) /\ Len(input') = n + 1
      /\ \A i \in 1 .. n : input'[i] = input[i]
      /\ EofIsLast' /\ \A i \in DOMAIN out : TokenIs(out[i], input')
  BY <1>1, <1>3, Advance
<1>5. n \in Nat /\ start \in Nat /\ start >= 1 /\ start = n - 1
  BY <1>2, TextIs DEF Inv, Reading
<1>6. last_char = input[n]
  <2>1. Types /\ n # 0
    BY <1>5 DEF Inv
  <2> QED
    BY <2>1, Lookahead
<1> HIDE DEF n
<1>7. input'[start] = input[start] /\ input'[n] = last_char
  BY <1>4, <1>5, <1>6
<1> DEFINE two == SubSeq(input', start, n)
           more == SubSeq(input', start, n + 1)
<1>8. /\ start \in 1 .. Len(input') /\ n \in start .. Len(input') /\ n + 1 \in start .. Len(input')
      /\ n - start + 1 = 2 /\ (n + 1) - start + 1 = 3
      /\ start + 1 - 1 = start /\ start + 2 - 1 = n
      /\ 1 \in 1 .. 2 /\ 2 \in 1 .. 2 /\ 1 \in 1 .. 3
  BY <1>4, <1>5
<1>9. two \in Seq(Chars) /\ Len(two) = 2 /\ two[1] = input[start] /\ two[2] = last_char
  BY <1>4, <1>7, <1>8, Part
<1>10. more \in Seq(Chars) /\ Len(more) = 3 /\ more[1] = input[start]
  BY <1>4, <1>7, <1>8, Part
<1> HIDE DEF two, more
<1>11. Spells(two, kind)
  <2>1. two = <<input[start], last_char>>
    BY <1>9, ShortSeq
  <2> QED
    BY <2>1, <1>2, SpelledPair
<1>12. ASSUME NEW k \in Kind, Spells(more, k) PROVE FALSE
  <2>1. input[start] \notin Alpha \cup Digit \cup {"."}
    BY <1>p, Classes
  <2>2. ~(k \in DOMAIN Pair /\ more = Pair[k])
    <3>1. SUFFICES ASSUME k \in DOMAIN Pair, more = Pair[k] PROVE FALSE
      OBVIOUS
    <3>2. Len(Pair[k]) = 2
      BY <3>1, Pairs
    <3>3. Len(more) = 2
      BY <3>1, <3>2
    <3> QED
      BY <3>3, <1>10
  <2>3. 1 \in 1 .. Len(more) /\ Len(more) >= 2
    BY <1>10
  <2> QED
    BY <1>10, <1>12, <2>1, <2>2, <2>3, LongSpelling
<1> DEFINE t == [kind |-> kind, first |-> start, last |-> n]
<1>13. t.kind = kind /\ t.first = start /\ t.last = n
  OBVIOUS
<1> HIDE DEF t
<1>14. n < Len(input') /\ Len(input') = n + 1
  BY <1>4, <1>5
<1>15. TokenIs(t, input')
  BY <1>8, <1>11, <1>12, <1>13, <1>14, <1>p DEF TokenIs, two, more
<1>16. Len(input) <= Len(input')
  BY <1>4, <1>5 DEF n
<1> QED
  BY <1>1, <1>p, <1>4, <1>5, <1>15, <1>16, Returned DEF t

\* The end of file, also within a comment
LEMMA EndOfFileStep == ASSUME Inv, EndOfFile PROVE Inv'
<1> DEFINE n == Len(input)
<1>1. last_char = "EOF" /\ Return("eof", n, n) /\ input' = input
  BY DEF EndOfFile, EofToken
<1>2. n \in Nat /\ n >= 1 /\ input[n] = "EOF" /\ input \in Seq(Chars)
  BY <1>1, Lookahead DEF Inv, Types
<1> HIDE DEF n
<1> DEFINE one == SubSeq(input, n, n)
<1>3. n \in 1 .. Len(input) /\ n \in n .. Len(input) /\ n - n + 1 = 1 /\ n + 1 - 1 = n
  BY <1>2 DEF n
<1>4. one \in Seq(Chars) /\ Len(one) = 1 /\ one[1] = "EOF"
  BY <1>2, <1>3, Part
<1> HIDE DEF one
<1>5. Spells(one, "eof")
  BY <1>4, ShortSeq, SpelledChar
<1> DEFINE t == [kind |-> "eof", first |-> n, last |-> n]
<1>6. t.kind = "eof" /\ t.first = n /\ t.last = n
  OBVIOUS
<1> HIDE DEF t
<1>7. ~(n < Len(input)) /\ input[Len(input)] = "EOF" /\ Len(input) <= Len(input)
  BY <1>2 DEF n
<1>8. TokenIs(t, input)
  BY <1>3, <1>5, <1>6, <1>7 DEF TokenIs, one
<1>9. "eof" \in Kind
  BY DEF Kind
<1>10. EofIsLast' /\ \A i \in DOMAIN out : TokenIs(out[i], input')
  BY <1>1 DEF Inv, EofIsLast, TokensInv
<1> HIDE DEF Inv
<1> QED
  BY <1>1, <1>2, <1>7, <1>8, <1>9, <1>10, Returned DEF t

\* The inductive invariant: each branch of get() keeps it, and the parser's next call.
\* One token for each call of get()
LEMMA OneTokenPerCall ==
  get => IF pc' = "Idle"
           THEN \E kind, first, last :
                  out' = Append(out, [kind |-> kind, first |-> first, last |-> last])
           ELSE out' = out
BY DEF get, SkipSpace, Begin, Begins, More, GoesOn, IdentifierEnd, NumberEnd, OperatorSingle, End, OperatorPair,
   CommentEnd, LineBreak, EndOfFile, OtherChar, ReturnChar, Return

LEMMA Invariant == Spec => []Inv
<1>1. Init => Inv
  <2> SUFFICES ASSUME Init PROVE Inv
    OBVIOUS
  <2>1. Types
    <3>1. input \in Seq(Chars) /\ Len(input) = 0 /\ out \in Seq([kind : Kind, first : Nat, last : Nat])
      BY DEF Init
    <3>2. cur_tok \in Kind \cup {Indeterminate}
      BY DEF Init, Kind
    <3> QED
      BY <3>1, <3>2 DEF Init, Types
  <2>2. DOMAIN out = {} /\ Len(input) = 0 /\ out = <<>>
    BY DEF Init
  <2> QED
    BY <2>1, <2>2 DEF Init, Inv, EofIsLast, OneCharacterAhead, Reading, TokensInv
<1>2. Inv /\ [Next]_vars => Inv'
  <2> SUFFICES ASSUME Inv, [Next]_vars PROVE Inv'
    OBVIOUS
  <2>1. CASE Call
    BY <2>1 DEF Call, Inv, Types, EofIsLast, OneCharacterAhead, Reading, TokensInv, TokenIs
  <2>2. CASE UNCHANGED vars
    BY <2>2 DEF vars, Inv, Types, EofIsLast, OneCharacterAhead, Reading, TokensInv, TokenIs
  <2>3. CASE get
    BY <2>3, SkipSpaceStep, BeginStep, MoreStep, IdentifierStep, NumberStep, SingleStep, PairStep,
       CommentStep, LineBreakStep, EndOfFileStep, OtherCharStep DEF get
  <2> QED
    BY <2>1, <2>2, <2>3 DEF Next
<1> QED
  BY <1>1, <1>2, PTL DEF Spec

-----------------------------------------------------------------------------
(***************************************************************************)
(* Theorems                                                                *)
(***************************************************************************)
\* The invariant has the types.
LEMMA InvTypes == Inv => TypeOK
<1> SUFFICES ASSUME Inv PROVE TypeOK
  OBVIOUS
<1> DEFINE T == [kind : Kind, first : Nat, last : Nat]
           U == [kind : Kind, first : 1 .. Len(input), last : 1 .. Len(input)]
<1>1. out \in Seq(T) /\ Len(input) \in Nat
  BY LenProperties DEF Inv, Types
<1>2. ASSUME NEW i \in 1 .. Len(out) PROVE out[i] \in U
  <2>1. out[i] \in T
    BY <1>1, ElementOfSeq
  <2>2. i \in DOMAIN out
    BY <1>1, SeqEntries
  <2>3. out[i].first \in 1 .. Len(input) /\ out[i].last \in out[i].first .. Len(input)
    BY <2>2 DEF Inv, TokensInv, TokenIs
  <2>4. out[i].last \in 1 .. Len(input)
    BY <2>3, <1>1
  <2> QED
    BY <2>1, <2>3, <2>4
<1>3. out \in Seq(U)
  <2>1. Len(out) \in Nat /\ DOMAIN out = 1 .. Len(out) /\ out \in [1 .. Len(out) -> T]
    BY <1>1, LenProperties
  <2> HIDE DEF U, T
  <2>2. out \in [1 .. Len(out) -> U]
    BY <2>1, <1>2
  <2> QED
    BY <2>1, <2>2
<1> QED
  BY <1>3 DEF Inv, Types, TypeOK, Chars

\* Type correctness of the lexer; each token is a place in the source.
THEOREM LexerTypes == Spec => []TypeOK
BY InvTypes, Invariant, PTL

\* get() reads one character further than the token it returns, and nothing after the
\* end of the stream.
THEOREM LexerReadsAhead == Spec => []OneCharacterAhead
BY Invariant, PTL DEF Inv

\* Each token get() returns is spelled by the characters it took, and no kind of token
\* is spelled by them and the next one.
THEOREM LexerMatchesLongest == Spec => []LongestMatch
<1>1. Inv => LongestMatch
  BY DEF Inv, TokensInv, TokenIs, LongestMatch
<1> QED
  BY <1>1, Invariant, PTL
-----------------------------------------------------------------------------
(***************************************************************************)
(* The lexer implements the stream of tokens the parser relies on.         *)
(***************************************************************************)
Longest == Max(Range(MaxChars))

NoEof == \A i \in DOMAIN out : out[i].kind # "eof"

\* What ties the tokens returned to the calls: the token get() remembers is the last
\* one; after the end of file nothing is begun any more; and each token before it has a
\* character of its own, in a source that is no longer than the longest.
Counted ==
  /\ out # <<>> => cur_tok = Last(out).kind
  /\ NoEof \/ pc \in {"Idle", "Get"}
  /\ NoEof => Len(out) <= Len(input)
  /\ NoEof /\ pc \notin {"Idle", "Get"} => Len(out) < Len(input)
  /\ Len(input) <= Longest + 1
  /\ last_char # "EOF" => Len(input) <= Longest

\* There is a longest source.
LEMMA LongestIs ==
  Longest \in Nat /\ \A alphabet \in DOMAIN MaxChars : MaxChars[alphabet] <= Longest
<1>1. PICK longest \in DOMAIN MaxChars :
        \A alphabet \in DOMAIN MaxChars : MaxChars[alphabet] <= MaxChars[longest]
  BY MaxCharsBound
<1>2. Range(MaxChars) \subseteq Nat
  BY MaxCharsAssumption DEF Range
<1>3. MaxChars[longest] \in Range(MaxChars) /\ \A y \in Range(MaxChars) : MaxChars[longest] >= y
  BY <1>1, <1>2, MaxCharsAssumption DEF Range
<1>4. Longest \in Range(MaxChars) /\ \A y \in Range(MaxChars) : Longest >= y
  BY <1>3 DEF Longest, Max
<1> QED
  BY <1>2, <1>4 DEF Range

\* The three ways a step of get() can go: a character is read and no token returned; a
\* token is returned, after its last character or the one after it was read; the end of
\* the file is.
Continuing ==
  /\ Read /\ last_char # "EOF"
  /\ cur_tok' = cur_tok /\ out' = out

Returning(kind) ==
  /\ \E first, last : Return(kind, first, last)
  /\ kind = "line_break" => cur_tok # "line_break"
  /\ \/ Read /\ last_char # "EOF"
     \/ input' = input /\ pc \notin {"Idle", "Get"}

Ending ==
  /\ \E first, last : Return("eof", first, last)
  /\ last_char = "EOF" /\ input' = input

LEMMA ThreeWays ==
  ASSUME Inv, get
  PROVE  Continuing \/ Ending \/ \E kind \in Kind \ {"eof"} : Returning(kind)
<1> USE DEF Continuing, Returning
<1>1. CASE SkipSpace
  BY <1>1, Classes DEF SkipSpace
<1>2. CASE Begin
  BY <1>2, Classes DEF Begin
<1>3. CASE More
  <2>1. Read /\ out' = out /\ cur_tok' = cur_tok
    BY <1>3 DEF More
  <2>2. last_char # "EOF"
    BY <1>3, Classes DEF More, GoesOn, NumberGoesOn, Digit
  <2> QED
    BY <2>1, <2>2
<1>4. CASE IdentifierEnd
  <2> DEFINE kind == IF text = Extern THEN "extern" ELSE "identifier"
  <2>1. kind \in Kind \ {"eof"} /\ kind # "line_break"
    BY DEF Kind
  <2>2. Returning(kind)
    BY <1>4, <2>1 DEF IdentifierEnd, End
  <2> QED
    BY <2>1, <2>2
<1>5. CASE NumberEnd
  <2> DEFINE kind == IF hadDot THEN "real_number" ELSE "relative_number"
  <2>1. kind \in Kind \ {"eof"} /\ kind # "line_break"
    BY DEF Kind
  <2>2. Returning(kind)
    BY <1>5, <2>1 DEF NumberEnd, End
  <2> QED
    BY <2>1, <2>2
<1>6. CASE OperatorSingle
  <2>1. pc = "Operator" /\ input' = input /\ Return(input[start], start, Len(input) - 1)
    BY <1>6 DEF OperatorSingle, End
  <2>2. input[start] \in {">", "<", ":", "="}
    BY <2>1, Classes DEF Inv, Reading
  <2>3. input[start] \in Kind \ {"eof"} /\ input[start] # "line_break"
    BY <2>2 DEF Kind
  <2> QED
    BY <2>1, <2>3
<1>7. CASE OperatorPair
  <2>1. PICK kind \in DOMAIN Pair : IsPair(kind) /\ Read /\ Return(kind, start, Len(input))
    BY <1>7 DEF OperatorPair
  <2>2. kind \in Kind \ {"eof"} /\ kind # "line_break"
    BY DEF Pair, Kind
  <2>3. last_char # "EOF"
    BY <2>1, Pairs DEF IsPair
  <2> QED
    BY <2>1, <2>2, <2>3
<1>8. CASE CommentEnd
  BY <1>8 DEF CommentEnd, CommentStops
<1>9. CASE LineBreak
  <2>1. last_char # "EOF"
    BY <1>9, Classes DEF LineBreak
  <2>2. "line_break" \in Kind \ {"eof"}
    BY DEF Kind
  <2> QED
    BY <1>9, <2>1, <2>2 DEF LineBreak, ReturnChar
<1>10. CASE EndOfFile
  BY <1>10 DEF EndOfFile, EofToken, Ending
<1>11. CASE OtherChar
  <2>1. last_char # "EOF"
    BY <1>11, Classes DEF OtherChar
  <2>2. last_char \in Kind \ {"eof"} /\ last_char # "line_break"
    BY <1>11 DEF OtherChar, Kind, Single
  <2> QED
    BY <1>11, <2>1, <2>2 DEF OtherChar, ReturnChar
<1> QED
  BY <1>1, <1>2, <1>3, <1>4, <1>5, <1>6, <1>7, <1>8, <1>9, <1>10, <1>11 DEF get
\* Another character is read of a source that is not longer than the longest.
LEMMA ReadBound ==
  ASSUME Inv, Counted, Read, last_char # "EOF"
  PROVE  /\ Len(input) \in Nat /\ Len(input') = Len(input) + 1
         /\ Len(input') <= Longest + 1
         /\ last_char' # "EOF" => Len(input') <= Longest
<1>1. Len(input) \in Nat /\ Len(input') = Len(input) + 1 /\ input \in Seq(Chars)
  BY Advance, LenProperties DEF Inv, Types
<1>2. Longest \in Nat /\ Len(input) <= Longest
  BY LongestIs DEF Counted
<1>3. PICK c \in Chars : /\ input' = Append(input, c)
                         /\ c # "EOF" => \E alphabet \in DOMAIN MaxChars : Len(input) < MaxChars[alphabet]
  BY DEF Read, Chars, SourceChars
<1>4. last_char' = c
  BY <1>1, <1>3, AppendLast DEF last_char
<1>5. c # "EOF" => Len(input) + 1 <= Longest
  <2> SUFFICES ASSUME c # "EOF" PROVE Len(input) + 1 <= Longest
    OBVIOUS
  <2>1. PICK alphabet \in DOMAIN MaxChars : Len(input) < MaxChars[alphabet]
    BY <1>3
  <2>2. MaxChars[alphabet] \in Nat /\ MaxChars[alphabet] <= Longest
    BY LongestIs, MaxCharsAssumption
  <2> QED
    BY <1>1, <1>2, <2>1, <2>2
<1> QED
  BY <1>1, <1>2, <1>4, <1>5

\* Before the end of the file is read there is no token for it.
LEMMA NoEofBefore == ASSUME Inv, last_char # "EOF" PROVE NoEof
<1> SUFFICES ASSUME NEW i \in DOMAIN out, out[i].kind = "eof" PROVE FALSE
  BY DEF NoEof
<1>1. TokenIs(out[i], input)
  BY DEF Inv, TokensInv
<1>2. Types /\ Len(input) \in Nat
  BY Lookahead DEF Inv
<1>3. input[Len(input)] = "EOF" /\ Len(input) # 0
  BY <1>1, <1>2 DEF TokenIs
<1> QED
  BY <1>2, <1>3, Lookahead

\* What a token returned does to the tokens
LEMMA OneMore ==
  ASSUME Inv, NEW kind \in Kind, \E first, last : Return(kind, first, last), Inv'
  PROVE  /\ Len(out) \in Nat /\ Len(out') = Len(out) + 1
         /\ DOMAIN out = 1 .. Len(out) /\ DOMAIN out' = 1 .. Len(out) + 1
         /\ \A i \in 1 .. Len(out) : out'[i] = out[i]
         /\ out'[Len(out) + 1].kind = kind
         /\ out' # <<>> /\ Last(out').kind = kind
         /\ cur_tok' = kind /\ pc' = "Idle"
<1> DEFINE T == [kind : {kind} \cup Kind, first : Nat, last : Nat]
<1>1. PICK first, last : Return(kind, first, last)
  OBVIOUS
<1> DEFINE t == [kind |-> kind, first |-> first, last |-> last]
<1>2. out' = Append(out, t) /\ cur_tok' = kind /\ pc' = "Idle" /\ t.kind = kind
  BY <1>1 DEF Return
<1>3. Len(out) \in Nat /\ DOMAIN out = 1 .. Len(out) /\ out \in Seq(Range(out))
  BY LenProperties, SeqEntries DEF Inv, Types, Range
<1> HIDE DEF t
<1>4. out \in Seq(Range(out) \cup {t}) /\ t \in Range(out) \cup {t}
  BY <1>3
<1>5. /\ Append(out, t) # <<>> /\ Len(Append(out, t)) = Len(out) + 1
      /\ \A i \in 1 .. Len(out) : Append(out, t)[i] = out[i]
      /\ Append(out, t)[Len(out) + 1] = t /\ Last(Append(out, t)) = t
      /\ Append(out, t) \in Seq(Range(out) \cup {t})
  BY <1>4, AppendLast
<1>6. DOMAIN out' = 1 .. Len(out) + 1
  BY <1>2, <1>5, SeqEntries
<1> QED
  BY <1>2, <1>3, <1>5, <1>6

\* Counted goes through every step.
LEMMA CountedStep == ASSUME Inv, Counted, [Next]_vars, Inv' PROVE Counted'
<1>t. Len(out) \in Nat /\ Len(input) \in Nat /\ Types
  BY LenProperties DEF Inv, Types
<1>1. CASE UNCHANGED vars
  BY <1>1 DEF vars, Counted, NoEof, last_char
<1>2. CASE Call
  BY <1>2 DEF Call, Counted, NoEof, last_char
<1>3. CASE Continuing
  <2>1. Len(input') = Len(input) + 1 /\ Len(input') <= Longest + 1
        /\ (last_char' # "EOF" => Len(input') <= Longest)
    BY <1>3, ReadBound DEF Continuing
  <2>2. NoEof /\ NoEof'
    BY <1>3, NoEofBefore DEF Continuing, NoEof
  <2>3. Len(out) <= Len(input)
    BY <2>2 DEF Counted
  <2>4. Len(out') < Len(input') /\ Len(out') <= Len(input')
    BY <1>3, <1>t, <2>1, <2>3 DEF Continuing
  <2>5. (out # <<>> => cur_tok = Last(out).kind)'
    BY <1>3 DEF Continuing, Counted
  <2> QED
    BY <2>1, <2>2, <2>4, <2>5 DEF Counted
<1>4. CASE \E kind \in Kind \ {"eof"} : Returning(kind)
  <2>1. PICK kind \in Kind \ {"eof"} : Returning(kind)
    BY <1>4
  <2>2. /\ Len(out') = Len(out) + 1 /\ out' # <<>> /\ Last(out').kind = kind
        /\ cur_tok' = kind /\ pc' = "Idle"
    BY <2>1, OneMore DEF Returning
  <2>3. CASE Read /\ last_char # "EOF"
    <3>1. Len(input') = Len(input) + 1 /\ Len(input') <= Longest + 1
          /\ (last_char' # "EOF" => Len(input') <= Longest)
      BY <2>3, ReadBound
    <3>2. Len(out) <= Len(input)
      BY <2>3, NoEofBefore DEF Counted
    <3>3. Len(out') <= Len(input')
      BY <1>t, <2>2, <3>1, <3>2
    <3> QED
      BY <2>2, <3>1, <3>3 DEF Counted
  <2>4. CASE input' = input /\ pc \notin {"Idle", "Get"}
    <3>1. Len(out) < Len(input)
      BY <2>4 DEF Counted
    <3>2. Len(out') <= Len(input')
      BY <1>t, <2>2, <2>4, <3>1
    <3>3. (Len(input) <= Longest + 1)' /\ (last_char # "EOF" => Len(input) <= Longest)'
      BY <2>4 DEF Counted, last_char
    <3> QED
      BY <2>2, <3>2, <3>3 DEF Counted
  <2> QED
    BY <2>1, <2>3, <2>4 DEF Returning
<1>5. CASE Ending
  <2>1. "eof" \in Kind /\ \E first, last : Return("eof", first, last)
    BY <1>5 DEF Kind, Ending
  <2>2. /\ Len(out') = Len(out) + 1 /\ out' # <<>> /\ Last(out').kind = "eof"
        /\ cur_tok' = "eof" /\ pc' = "Idle"
        /\ DOMAIN out' = 1 .. Len(out) + 1 /\ out'[Len(out) + 1].kind = "eof"
    BY <2>1, OneMore
  <2>3. ~NoEof'
    BY <2>2, <1>t DEF NoEof
  <2>4. (Len(input) <= Longest + 1)' /\ (last_char # "EOF" => Len(input) <= Longest)'
    BY <1>5 DEF Ending, Counted, last_char
  <2> QED
    BY <2>2, <2>3, <2>4 DEF Counted
<1> QED
  BY <1>1, <1>2, <1>3, <1>4, <1>5, ThreeWays DEF Next
\* There are never more tokens than Counted allows.
LEMMA CountedHolds == Spec => []Counted
<1>1. Init => Counted
  <2>1. ASSUME Init PROVE Counted
    <3>1. out = <<>> /\ input = <<>> /\ pc = "Idle" /\ Len(out) = 0 /\ Len(input) = 0
      BY <2>1 DEF Init
    <3> QED
      BY <3>1, LongestIs DEF Counted, NoEof
  <2> QED
    BY <2>1
<1>2. Inv /\ Inv' /\ Counted /\ [Next]_vars => Counted'
  BY CountedStep
<1> QED
  BY <1>1, <1>2, Invariant, PTL DEF Spec

\* The stream of tokens, of those returned
Stream == [kind : Kind, text : {"name", "extern", "number", ""}]

LEMMA TokenOfKind == ASSUME NEW k \in Kind PROVE TokenOf(k) \in Stream /\ TokenOf(k).kind = k
<1> DEFINE txt == IF k \in DOMAIN Texts THEN Texts[k] ELSE ""
<1>1. \A x \in DOMAIN Texts : Texts[x] \in {"name", "extern", "number"}
  BY DEF Texts
<1>2. txt \in {"name", "extern", "number", ""}
  BY <1>1
<1>3. TokenOf(k) = [kind |-> k, text |-> txt]
  BY DEF TokenOf
<1> HIDE DEF txt
<1>4. TokenOf(k) \in Stream
  <2>1. [kind |-> k, text |-> txt] \in Stream
    BY <1>2 DEF Stream
  <2> QED
    BY <2>1, <1>3
<1>5. TokenOf(k).kind = k
  BY <1>3
<1> QED
  BY <1>4, <1>5

LEMMA KindsOf ==
  ASSUME NEW s \in Seq([kind : Kind, first : Nat, last : Nat])
  PROVE  \A i \in 1 .. Len(s) : s[i].kind \in Kind
<1> DEFINE Rec == [kind : Kind, first : Nat, last : Nat]
<1> HIDE DEF Rec
<1>1. \A i \in 1 .. Len(s) : s[i] \in Rec
  BY ElementOfSeq DEF Rec
<1> QED
  BY <1>1 DEF Rec

LEMMA StreamIs ==
  ASSUME NEW s \in Seq([kind : Kind, first : Nat, last : Nat])
  PROVE  LET ts == [i \in DOMAIN s |-> TokenOf(s[i].kind)]
         IN  ts \in Seq(Stream) /\ Len(ts) = Len(s) /\ \A i \in 1 .. Len(s) : ts[i] = TokenOf(s[i].kind)
<1> DEFINE ts == [i \in DOMAIN s |-> TokenOf(s[i].kind)]
           n == Len(s)
<1>1. n \in Nat /\ DOMAIN s = 1 .. n
  BY LenProperties
<1>k. \A i \in 1 .. n : s[i].kind \in Kind
  BY KindsOf
<1>2. \A k \in Kind : TokenOf(k) \in Stream
  BY TokenOfKind
<1>3. ts = [i \in 1 .. n |-> TokenOf(s[i].kind)]
  BY <1>1
<1> HIDE DEF ts, n
<1>4. ts \in [1 .. n -> Stream]
  BY <1>1, <1>k, <1>2, <1>3
<1>5. ts \in Seq(Stream) /\ Len(ts) = n
  BY <1>1, <1>4
<1> QED
  BY <1>3, <1>5 DEF ts, n

\* The texts a token may have in the abstract stream
LEMMA TextsAllowed == ASSUME NEW k \in Kind PROVE TokenOf(k) \in [kind : {k}, text : Promise!TextsOf(k)]
<1>1. TokenOf(k).kind = k /\ TokenOf(k) = [kind |-> k, text |-> TokenOf(k).text]
  BY DEF TokenOf
<1>2. CASE k = "identifier"
  <2>1. Promise!TextsOf(k) = {"name"}
    BY <1>2, Zenon DEF Promise!TextsOf
  <2>2. TokenOf(k).text = "name"
    BY <1>2 DEF TokenOf, Texts
  <2> QED
    BY <1>1, <2>1, <2>2
<1>3. CASE k = "extern"
  <2>1. Promise!TextsOf(k) = {"extern"}
    BY <1>3, Zenon DEF Promise!TextsOf
  <2>2. TokenOf(k).text = "extern"
    BY <1>3 DEF TokenOf, Texts
  <2> QED
    BY <1>1, <2>1, <2>2
<1>4. CASE k \in {"real_number", "relative_number"}
  <2>1. Promise!TextsOf(k) = {"number"}
    <3>1. k # "identifier" /\ k # "extern"
      BY <1>4
    <3> QED
      BY <1>4, <3>1, Zenon DEF Promise!TextsOf
  <2>2. TokenOf(k).text = "number"
    BY <1>4 DEF TokenOf, Texts
  <2> QED
    BY <1>1, <2>1, <2>2
<1>5. CASE k \notin {"identifier", "extern", "real_number", "relative_number"}
  <2>1. Promise!TextsOf(k) = {""}
    BY <1>5, Zenon DEF Promise!TextsOf
  <2>2. TokenOf(k).text = ""
    BY <1>5 DEF TokenOf, Texts
  <2> QED
    BY <1>1, <2>1, <2>2
<1> QED
  BY <1>2, <1>3, <1>4, <1>5

\* A token returned is one that the abstract stream may have next.
LEMMA StreamStep ==
  ASSUME Inv, Counted, Inv', NEW kind \in Kind, \E first, last : Return(kind, first, last),
         kind # "eof" => Returning(kind)
  PROVE  Promise!Next
<1> DEFINE t == TokenOf(kind)
           n == Len(out)
<1>1. /\ n \in Nat /\ Len(out') = n + 1
      /\ DOMAIN out = 1 .. n /\ DOMAIN out' = 1 .. n + 1
      /\ \A i \in 1 .. n : out'[i] = out[i]
      /\ out'[n + 1].kind = kind
  BY OneMore
<1>2. /\ toks \in Seq(Stream) /\ Len(toks) = n
      /\ \A i \in 1 .. n : toks[i] = TokenOf(out[i].kind)
  BY StreamIs DEF toks, Inv, Types
<1>3. /\ toks' \in Seq(Stream) /\ Len(toks') = Len(out')
      /\ \A i \in 1 .. Len(out') : toks'[i] = TokenOf(out'[i].kind)
  BY StreamIs DEF toks, Inv, Types
<1> HIDE DEF n
<1>4. t \in Stream /\ t.kind = kind
  BY TokenOfKind
<1>7. \A i \in 1 .. n : toks[i].kind = out[i].kind
  <2>1. \A i \in 1 .. n : out[i].kind \in Kind
    BY KindsOf DEF Inv, Types, n
  <2> QED
    BY <1>2, <2>1, TokenOfKind
<1> HIDE DEF t
<1>8. toks' = Append(toks, t)
  <2>1. /\ Append(toks, t) \in Seq(Stream) /\ Len(Append(toks, t)) = n + 1
        /\ \A i \in 1 .. n : Append(toks, t)[i] = toks[i]
        /\ Append(toks, t)[n + 1] = t
    BY <1>2, <1>4, AppendLast
  <2>2. \A i \in 1 .. n + 1 : i \in 1 .. n \/ i = n + 1
    BY <1>1
  <2>3. \A i \in 1 .. n + 1 : toks'[i] = Append(toks, t)[i]
    BY <1>1, <1>2, <1>3, <2>1, <2>2 DEF t
  <2>4. Len(toks') = n + 1
    BY <1>1, <1>3
  <2> QED
    BY <1>3, <2>1, <2>3, <2>4, SeqEqual
<1>9. kind # "eof" => /\ n <= Longest + 1
                      /\ n # 0 => out[n].kind # "eof" /\ cur_tok = out[n].kind
                      /\ kind = "line_break" => cur_tok # "line_break"
  <2> SUFFICES ASSUME kind # "eof"
               PROVE  /\ n <= Longest + 1
                      /\ n # 0 => out[n].kind # "eof" /\ cur_tok = out[n].kind
                      /\ kind = "line_break" => cur_tok # "line_break"
    OBVIOUS
  <2>1. NoEof
    BY NoEofBefore DEF Returning, Counted
  <2>2. Len(input) \in Nat /\ Len(input) <= Longest + 1 /\ n <= Len(input)
    BY <2>1, LenProperties DEF Counted, n, Inv, Types
  <2>3. n # 0 => out # <<>> /\ n \in DOMAIN out /\ Last(out) = out[n]
    BY <1>1 DEF n, Last
  <2> QED
    BY <2>1, <2>2, <2>3, <1>1, LongestIs DEF NoEof, Counted, Returning
<1> DEFINE Ended == n >= Longest + 2 \/ (toks # <<>> /\ Last(toks).kind = "eof")
           Broken == toks # <<>> /\ Last(toks).kind = "line_break"
           Allowed == (IF Ended THEN {} ELSE IF Broken THEN (Kind \ {"eof"}) \ {"line_break"} ELSE Kind \ {"eof"})
                        \cup {"eof"}
<1>10. kind \in Allowed
  <2>1. toks # <<>> => n # 0 /\ Last(toks).kind = out[n].kind
    <3>1. toks # <<>> => Len(toks) \in Nat \ {0} /\ Last(toks) = toks[Len(toks)]
      BY <1>2, FrontLast
    <3>2. toks # <<>> => n # 0 /\ n \in 1 .. n /\ Last(toks) = toks[n]
      BY <1>1, <1>2, <3>1
    <3> QED
      BY <1>7, <3>2
  <2>2. kind # "eof" => ~Ended /\ (kind = "line_break" => ~Broken)
    BY <1>1, <1>9, <2>1, LongestIs
  <2> HIDE DEF Ended, Broken
  <2> QED
    BY <2>2
<1>11. t \in Promise!NextTokens(toks)
  <2> HIDE DEF Allowed
  <2>1. t \in UNION {[kind : {k}, text : Promise!TextsOf(k)] : k \in Allowed}
    BY <1>10, TextsAllowed DEF t
  <2> QED
    BY <1>2, <2>1 DEF Promise!NextTokens, Promise!Last, Last, Allowed, Longest
<1> QED
  BY <1>8, <1>11 DEF Promise!Next

\* The tokens get() returns are a stream as the parser relies on it: Lexer implements
\* TokenStream.  No line break comes after a line break, only the end of file after the
\* end of file, and there are no more tokens than characters and two.
THEOREM LexerKeepsPromise == Spec => PromiseKept
<1>1. Spec => []Inv
  BY Invariant
<1>2. Spec => []Counted
  BY CountedHolds
<1>3. Init => Promise!Init
  <2>1. ASSUME Init PROVE toks = <<>>
    <3>1. DOMAIN out = {}
      BY <2>1 DEF Init
    <3> QED
      BY <3>1 DEF toks
  <2> QED
    BY <2>1 DEF Promise!Init
<1>4. Inv /\ Inv' /\ Counted /\ [Next]_vars => [Promise!Next]_toks
  <2> SUFFICES ASSUME Inv, Inv', Counted, [Next]_vars PROVE [Promise!Next]_toks
    OBVIOUS
  <2>1. CASE UNCHANGED vars \/ Call \/ Continuing
    BY <2>1 DEF vars, Call, Continuing, toks
  <2>2. CASE \E kind \in Kind \ {"eof"} : Returning(kind)
    <3>1. PICK kind \in Kind \ {"eof"} : Returning(kind)
      BY <2>2
    <3> QED
      BY <3>1, StreamStep DEF Returning
  <2>3. CASE Ending
    <3>1. "eof" \in Kind /\ \E first, last : Return("eof", first, last)
      BY <2>3 DEF Kind, Ending
    <3> QED
      BY <3>1, StreamStep
  <2> QED
    BY <2>1, <2>2, <2>3, ThreeWays DEF Next
<1> QED
  BY <1>1, <1>2, <1>3, <1>4, PTL DEF Spec, PromiseKept, Promise!Spec

-----------------------------------------------------------------------------
(***************************************************************************)
(* Every character once                                                    *)
(***************************************************************************)
\* Where comments are open, as the recursion has it
LEMMA OpenIs ==
  ASSUME input \in Seq(Chars)
  PROVE  /\ ~open[0]
         /\ \A i \in 1 .. Len(input) : /\ open[i - 1] => (open[i] <=> input[i] \notin {"LF", "CR", "$"})
                                       /\ ~open[i - 1] => (open[i] <=> input[i] = "$")
<1> DEFINE N == Len(input)
           After(i, was) == IF was THEN input[i] \notin {"LF", "CR", "$"} ELSE input[i] = "$"
           Value(n, g) == IF n = 1 THEN FALSE ELSE After(n - 1, g[n - 1])
           step == [n \in 1 .. N + 1 |-> [g \in [1 .. N + 1 -> BOOLEAN] |-> Value(n, g)]]
<1>0. N \in Nat
  BY LenProperties
<1> HIDE DEF N
<1>1. /\ \A i : \A was \in BOOLEAN : After(i, was) \in BOOLEAN
      /\ \A i : \A was \in BOOLEAN : /\ was => (After(i, was) <=> input[i] \notin {"LF", "CR", "$"})
                                     /\ ~was => (After(i, was) <=> input[i] = "$")
  BY Zenon
<1> HIDE DEF After
<1>2. ASSUME NEW n \in 1 .. N + 1, NEW g \in [1 .. N + 1 -> BOOLEAN] PROVE Value(n, g) \in BOOLEAN
  <2>1. CASE n = 1
    BY <2>1, Zenon
  <2>2. CASE n # 1
    <3>1. n - 1 \in 1 .. N + 1
      BY <1>0, <2>2
    <3>2. After(n - 1, g[n - 1]) \in BOOLEAN
      BY <1>1, <3>1
    <3> QED
      BY <2>2, <3>2, Zenon
  <2> QED
    BY <2>1, <2>2
<1>3. ASSUME NEW n \in 1 .. N + 1, NEW g, NEW h, \A k \in 1 .. n - 1 : g[k] = h[k]
      PROVE  Value(n, g) = Value(n, h)
  <2>1. n # 1 => n - 1 \in 1 .. n - 1
    BY <1>0
  <2>2. n # 1 => g[n - 1] = h[n - 1]
    BY <1>3, <2>1
  <2> QED
    BY <2>2, Zenon
<1> HIDE DEF Value
<1>4. step \in Steps(N + 1, BOOLEAN)
  <2>1. step \in [1 .. N + 1 -> [[1 .. N + 1 -> BOOLEAN] -> BOOLEAN]]
    BY <1>2
  <2>2. \A n \in 1 .. N + 1 : \A g \in [1 .. N + 1 -> BOOLEAN] : step[n][g] = Value(n, g)
    OBVIOUS
  <2> HIDE DEF step
  <2>3. ASSUME NEW n \in 1 .. N + 1, NEW g \in [1 .. N + 1 -> BOOLEAN], NEW h \in [1 .. N + 1 -> BOOLEAN],
               \A k \in 1 .. n - 1 : g[k] = h[k]
        PROVE  step[n][g] = step[n][h]
    BY <1>3, <2>2, <2>3
  <2> QED
    BY <2>1, <2>3 DEF Steps
<1>5. PICK g \in [1 .. N + 1 -> BOOLEAN] : \A n \in 1 .. N + 1 : g[n] = step[n][g]
  <2> DEFINE M == N + 1
             S == BOOLEAN
             no == FALSE
  <2>1. M \in Nat /\ no \in S /\ step \in Steps(M, S)
    BY <1>0, <1>4
  <2> HIDE DEF step, M, S, no
  <2>2. \E g \in [1 .. M -> S] : \A n \in 1 .. M : g[n] = step[n][g]
    BY <2>1, Recursion
  <2> QED
    BY <2>2 DEF M, S
<1>6. \A n \in 1 .. N + 1 : g[n] = Value(n, g)
  BY <1>5
<1> DEFINE f == [i \in 0 .. N |-> g[i + 1]]
           Step(o) == [i \in 0 .. N |-> IF i = 0 THEN FALSE
                                        ELSE IF o[i - 1] THEN input[i] \notin {"LF", "CR", "$"} ELSE input[i] = "$"]
<1>7. \A i \in 0 .. N : f[i] = Step(f)[i]
  <2> SUFFICES ASSUME NEW i \in 0 .. N PROVE f[i] = Step(f)[i]
    OBVIOUS
  <2>1. i + 1 \in 1 .. N + 1 /\ f[i] = g[i + 1] /\ (i + 1 = 1 <=> i = 0) /\ (i + 1) - 1 = i
    BY <1>0
  <2>2. i # 0 => i - 1 \in 0 .. N /\ (i - 1) + 1 = i
    BY <1>0
  <2>3. i # 0 => f[i - 1] = g[i]
    BY <2>2
  <2>4. f[i] = IF i = 0 THEN FALSE ELSE After(i, g[i])
    <3>1. f[i] = Value(i + 1, g)
      BY <1>6, <2>1
    <3> QED
      BY <2>1, <3>1, Zenon DEF Value
  <2>5. Step(f)[i] = IF i = 0 THEN FALSE ELSE After(i, f[i - 1])
    BY Zenon DEF After
  <2> HIDE DEF f, Step
  <2> QED
    BY <2>3, <2>4, <2>5, Zenon
<1>8. f = Step(f)
  <2>1. DOMAIN f = 0 .. N /\ DOMAIN Step(f) = 0 .. N
    OBVIOUS
  <2>2. f = [i \in 0 .. N |-> f[i]] /\ Step(f) = [i \in 0 .. N |-> Step(f)[i]]
    OBVIOUS
  <2> HIDE DEF f, Step
  <2> QED
    BY <1>7, <2>2
<1> HIDE DEF f
<1>9. open = CHOOSE o : o = Step(o)
  BY Zenon DEF open, N
<1>10. open = Step(open)
  BY <1>8, <1>9, Zenon
<1>11. \A i \in 0 .. N : open[i] = Step(open)[i]
  BY <1>10, Zenon
<1>12. open[0] = FALSE
  <2>1. 0 \in 0 .. N
    BY <1>0
  <2> QED
    BY <1>11, <2>1, Zenon
<1>13. ASSUME NEW i \in 1 .. N
       PROVE  open[i] = IF open[i - 1] THEN input[i] \notin {"LF", "CR", "$"} ELSE input[i] = "$"
  <2>1. i \in 0 .. N /\ i # 0
    BY <1>0
  <2> QED
    BY <1>11, <2>1, Zenon
<1> QED
  BY <1>12, <1>13, Zenon DEF N

\* What is read later does not open or close a comment before.
LEMMA OpenStays ==
  ASSUME input \in Seq(Chars), input' \in Seq(Chars), Len(input) <= Len(input'),
         \A i \in 1 .. Len(input) : input'[i] = input[i]
  PROVE  \A i \in 0 .. Len(input) : open'[i] <=> open[i]
<1> DEFINE o == open
           p == open'
           n == Len(input)
           m == Len(input')
           s == input
           r == input'
<1>1. /\ ~o[0]
      /\ \A i \in 1 .. n : /\ o[i - 1] => (o[i] <=> s[i] \notin {"LF", "CR", "$"})
                           /\ ~o[i - 1] => (o[i] <=> s[i] = "$")
  BY OpenIs
<1>2. /\ ~p[0]
      /\ \A i \in 1 .. m : /\ p[i - 1] => (p[i] <=> r[i] \notin {"LF", "CR", "$"})
                           /\ ~p[i - 1] => (p[i] <=> r[i] = "$")
  <2>1. (input \in Seq(Chars))'
    OBVIOUS
  <2>2. (/\ ~open[0]
         /\ \A i \in 1 .. Len(input) : /\ open[i - 1] => (open[i] <=> input[i] \notin {"LF", "CR", "$"})
                                       /\ ~open[i - 1] => (open[i] <=> input[i] = "$"))'
    BY <2>1, OpenIs, PTL
  <2> QED
    BY <2>2
<1>3. n \in Nat /\ m \in Nat /\ n <= m /\ \A i \in 1 .. n : r[i] = s[i]
  BY LenProperties
<1> HIDE DEF o, p, n, m, s, r
<1> DEFINE T == {k \in Nat : k <= n => (p[k] <=> o[k])}
<1>4. 0 \in T
  BY <1>1, <1>2
<1>5. \A k \in Nat : k \in T => k + 1 \in T
  <2> SUFFICES ASSUME NEW k \in Nat, k \in T, k + 1 <= n PROVE p[k + 1] <=> o[k + 1]
    OBVIOUS
  <2>1. k + 1 \in 1 .. n /\ k + 1 \in 1 .. m /\ (k + 1) - 1 = k /\ k <= n
    BY <1>3
  <2> QED
    BY <1>1, <1>2, <1>3, <2>1
<1> HIDE DEF T
<1>6. Nat \subseteq T
  BY <1>4, <1>5, SetInduction
<1>7. \A k \in 0 .. n : p[k] <=> o[k]
  <2>1. \A k \in 0 .. n : k \in Nat /\ k <= n
    BY <1>3
  <2> QED
    BY <1>6, <2>1 DEF T
<1> QED
  BY <1>7 DEF o, p, n

\* What becomes of the i-th character of a source s, when o says where comments are open and
\* ts are the tokens: it is layout or in a token, or a line break that was dropped, which
\* comes after the k-th token, another line break, and before the next.
Laid(s, o, i) == s[i] \in Space \/ o[i - 1] \/ o[i]
Taken(ts, i) == \E j \in DOMAIN ts : i \in ts[j].first .. ts[j].last
Dropped(s, ts, i) ==
  /\ s[i] \in Break
  /\ \E k \in 0 .. Len(ts) : /\ \A j \in 1 .. Len(ts) : ts[j].last < i <=> j <= k
                             /\ k # 0 => ts[k].kind = "line_break"
Answered(s, o, ts, i) ==
  /\ Laid(s, o, i) => ~Taken(ts, i)
  /\ ~Laid(s, o, i) => Taken(ts, i) \/ Dropped(s, ts, i)

\* Where that begins which get() has not dealt with yet
Cut == IF pc \in {"Idle", "Get"} THEN Len(input) ELSE start

\* No comment is open there, unless the file ended in one; and what is being read is a
\* comment or has none in it.
Commented ==
  /\ Cut >= 1 => ~open[Cut - 1] \/ (pc \in {"Idle", "Get"} /\ last_char = "EOF")
  /\ pc \notin {"Idle", "Get"} => \A i \in start .. Len(input) - 1 : open[i] <=> pc = "Comment"

\* The tokens lie one after the other.
Ordered ==
  /\ \A j, k \in DOMAIN out : j < k /\ out[j].kind # "eof" => out[j].last < out[k].first
  /\ \A j \in DOMAIN out : out[j].kind # "eof" => out[j].last < Cut

CharactersInv ==
  /\ \A i \in 1 .. Cut - 1 : Answered(input, open, out, i)
  /\ Commented /\ Ordered

\* Another token after a character changes nothing for it.
LEMMA AnsweredStays ==
  ASSUME NEW s, NEW o, NEW r, NEW p, NEW T, NEW ts \in Seq(T), NEW us \in Seq(T), NEW i \in Nat \ {0},
         Answered(s, o, ts, i), r[i] = s[i], p[i] <=> o[i], p[i - 1] <=> o[i - 1],
         \/ us = ts
         \/ \E t \in T : us = Append(ts, t) /\ t.first \in Nat /\ t.last \in Nat /\ t.first > i /\ t.last >= i
  PROVE  Answered(r, p, us, i)
<1>1. Laid(r, p, i) <=> Laid(s, o, i)
  BY DEF Laid
<1>2. CASE us = ts
  BY <1>1, <1>2 DEF Answered, Dropped
<1>3. CASE us # ts
  <2>1. PICK t \in T : us = Append(ts, t) /\ t.first \in Nat /\ t.last \in Nat /\ t.first > i /\ t.last >= i
    BY <1>3
  <2> DEFINE n == Len(ts)
  <2>2. /\ n \in Nat /\ DOMAIN ts = 1 .. n /\ DOMAIN us = 1 .. n + 1 /\ Len(us) = n + 1
        /\ us[n + 1] = t /\ \A j \in 1 .. n : us[j] = ts[j]
    BY <2>1, AppendLast, SeqEntries, LenProperties
  <2> HIDE DEF n
  <2>3. ~(i \in t.first .. t.last) /\ ~(t.last < i)
    BY <2>1
  <2>4. Taken(us, i) <=> Taken(ts, i)
    <3>1. \A j \in 1 .. n + 1 : j \in 1 .. n \/ j = n + 1
      BY <2>2
    <3>2. \A j \in 1 .. n : j \in 1 .. n + 1
      BY <2>2
    <3> QED
      BY <2>2, <2>3, <3>1, <3>2 DEF Taken
  <2>5. Dropped(s, ts, i) => Dropped(r, us, i)
    <3> SUFFICES ASSUME Dropped(s, ts, i) PROVE Dropped(r, us, i)
      OBVIOUS
    <3>1. PICK k \in 0 .. n : /\ \A j \in 1 .. n : ts[j].last < i <=> j <= k
                              /\ k # 0 => ts[k].kind = "line_break"
      BY DEF Dropped, n
    <3>2. k \in 0 .. n + 1 /\ (k # 0 => us[k].kind = "line_break")
      BY <2>2, <3>1
    <3>3. ASSUME NEW j \in 1 .. n + 1 PROVE us[j].last < i <=> j <= k
      <4>1. CASE j \in 1 .. n
        BY <2>2, <3>1, <4>1
      <4>2. CASE j = n + 1
        BY <2>2, <2>3, <3>1, <4>2
      <4> QED
        BY <2>2, <4>1, <4>2
    <3> QED
      BY <2>2, <3>2, <3>3 DEF Dropped
  <2> QED
    BY <1>1, <2>4, <2>5 DEF Answered
<1> QED
  BY <1>2, <1>3

\* The token for the end of the file is behind all others.
LEMMA EofAtEnd ==
  ASSUME Inv, NEW j \in DOMAIN out, out[j].kind = "eof"
  PROVE  out[j].first = Len(input) /\ out[j].last = Len(input)
<1> DEFINE a == out[j].first
           b == out[j].last
           n == Len(input)
<1>1. input \in Seq(Chars) /\ n \in Nat
  BY LenProperties DEF Inv, Types
<1>2. a \in 1 .. n /\ b \in a .. n /\ Spells(SubSeq(input, a, b), "eof")
  BY DEF Inv, TokensInv, TokenIs
<1>3. SubSeq(input, a, b) = <<"EOF">>
  BY <1>2 DEF Spells
<1>4. Len(SubSeq(input, a, b)) = b - a + 1 /\ \A i \in 1 .. b - a + 1 : SubSeq(input, a, b)[i] = input[a + i - 1]
  BY <1>1, <1>2, Part
<1>5. \A i \in 1 .. n - 1 : input[i] # "EOF"
  BY DEF Inv, EofIsLast
<1>6. Len(<<"EOF">>) = 1 /\ <<"EOF">>[1] = "EOF"
  OBVIOUS
<1> HIDE DEF a, b, n
<1>7. a \in Nat /\ b \in Nat /\ b - a + 1 = 1
  BY <1>1, <1>2, <1>3, <1>4, <1>6
<1>8. a = b /\ input[a + 1 - 1] = "EOF" /\ a + 1 - 1 = a
  BY <1>3, <1>4, <1>6, <1>7
<1>9. a = n
  BY <1>1, <1>2, <1>5, <1>8
<1> QED
  BY <1>8, <1>9 DEF a, b, n

\* The invariant says what the property does.
LEMMA AnsweredOnce == Inv /\ CharactersInv => EveryCharacterOnce
<1> SUFFICES ASSUME Inv, CharactersInv, pc = "Idle", NEW i \in 1 .. Len(input) - 1
             PROVE  LET tokens == Cardinality({j \in DOMAIN out : i \in out[j].first .. out[j].last})
                    IN  IF Layout(i) THEN tokens = 0 ELSE tokens = 1 \/ (tokens = 0 /\ Redundant(i))
  BY DEF EveryCharacterOnce
<1> DEFINE K == {j \in DOMAIN out : i \in out[j].first .. out[j].last}
           n == Len(out)
<1>t. /\ Len(input) \in Nat /\ n \in Nat /\ DOMAIN out = 1 .. n
      /\ \A j \in 1 .. n : out[j].first \in Nat /\ out[j].last \in Nat /\ out[j].first <= out[j].last
  <2>1. Len(input) \in Nat /\ Len(out) \in Nat /\ DOMAIN out = 1 .. Len(out)
    BY LenProperties, SeqEntries DEF Inv, Types
  <2>2. \A j \in DOMAIN out : out[j].first \in 1 .. Len(input) /\ out[j].last \in out[j].first .. Len(input)
    BY DEF Inv, TokensInv, TokenIs
  <2> QED
    BY <2>1, <2>2
<1> HIDE DEF n
<1>1. Answered(input, open, out, i)
  BY DEF CharactersInv, Cut
<1>2. Layout(i) <=> Laid(input, open, i)
  BY DEF Layout, Laid
<1>3. Taken(out, i) <=> K # {}
  BY DEF Taken
<1>4. K = {} => Cardinality(K) = 0
  BY FS_EmptySet
<1>5. ASSUME NEW j \in K, NEW k \in K, j < k PROVE FALSE
  <2>1. j \in 1 .. n /\ k \in 1 .. n /\ i <= out[j].last /\ out[k].first <= i
    BY <1>t
  <2>2. out[j].kind # "eof"
    <3>1. out[j].kind = "eof" => out[j].first = Len(input)
      BY EofAtEnd
    <3> QED
      BY <1>t, <3>1
  <2>3. out[j].last < out[k].first
    BY <1>t, <1>5, <2>1, <2>2 DEF CharactersInv, Ordered
  <2> QED
    BY <1>t, <2>1, <2>3
<1>6. K # {} => Cardinality(K) = 1
  <2> SUFFICES ASSUME NEW j \in K PROVE Cardinality(K) = 1
    OBVIOUS
  <2>1. \A k \in K : k = j
    BY <1>5, <1>t
  <2>2. K = {j}
    BY <2>1
  <2> HIDE DEF K
  <2> QED
    BY <2>2, FS_Singleton
<1>7. Dropped(input, out, i) => Redundant(i)
  <2> SUFFICES ASSUME Dropped(input, out, i) PROVE Redundant(i)
    OBVIOUS
  <2>1. PICK k \in 0 .. n : /\ \A j \in 1 .. n : out[j].last < i <=> j <= k
                            /\ k # 0 => out[k].kind = "line_break"
    BY DEF Dropped, n
  <2>2. Before(i) = 1 .. k
    BY <1>t, <2>1 DEF Before
  <2>3. Cardinality(1 .. k) = k
    <3>1. 1 \in Int /\ k \in Int /\ Cardinality(1 .. k) = IF 1 > k THEN 0 ELSE k - 1 + 1
      BY <1>t, FS_Interval
    <3> QED
      BY <1>t, <3>1
  <2>4. Before(i) # {} => k # 0
    BY <1>t, <2>2
  <2> QED
    BY <2>1, <2>2, <2>3, <2>4 DEF Dropped, Redundant
<1> HIDE DEF K
<1> QED
  BY <1>1, <1>2, <1>3, <1>4, <1>6, <1>7 DEF Answered, K

\* What get() has dealt with stays so; a step has to say what it does with the characters
\* that it deals with.
LEMMA Deals ==
  ASSUME Inv, Inv', CharactersInv, Cut <= Cut', Len(input) <= Len(input'),
         \A i \in 1 .. Len(input) : input'[i] = input[i],
         \/ out' = out
         \/ \E t \in [kind : Kind, first : Nat, last : Nat] :
              /\ out' = Append(out, t)
              /\ t.first >= Cut /\ t.last >= t.first /\ (t.kind # "eof" => t.last < Cut'),
         \A i \in Cut .. Cut' - 1 : i >= 1 => Answered(input', open', out', i),
         Commented'
  PROVE  CharactersInv'
<1> DEFINE T == [kind : Kind, first : Nat, last : Nat]
           c == Cut
           d == Cut'
           s == input
           r == input'
           o == open
           p == open'
           ts == out
           us == out'
           m == Len(input)
<1>1. /\ input \in Seq(Chars) /\ input' \in Seq(Chars) /\ m \in Nat /\ ts \in Seq(T)
      /\ start \in 0 .. m
  BY LenProperties DEF Inv, Types
<1>1p. us \in Seq(T) /\ Len(input') \in Nat /\ start' \in 0 .. Len(input')
  BY LenProperties DEF Inv, Types
<1>2. \A i \in 0 .. m : p[i] <=> o[i]
  BY <1>1, OpenStays
<1>3. c \in 0 .. m
  BY <1>1 DEF Cut
<1>3p. d \in Nat
  BY <1>1, <1>1p DEF Cut
<1>4. \A i \in 1 .. c - 1 : Answered(s, o, ts, i)
  BY DEF CharactersInv
<1>5. \/ us = ts
      \/ \E t \in T : /\ us = Append(ts, t)
                      /\ t.first >= c /\ t.last >= t.first /\ (t.kind # "eof" => t.last < d)
  OBVIOUS
<1>6. c <= d /\ \A i \in 1 .. m : r[i] = s[i]
  OBVIOUS
<1>7. \A i \in c .. d - 1 : i >= 1 => Answered(r, p, us, i)
  OBVIOUS
<1>8. /\ \A j, k \in DOMAIN ts : j < k /\ ts[j].kind # "eof" => ts[j].last < ts[k].first
      /\ \A j \in DOMAIN ts : ts[j].kind # "eof" => ts[j].last < c
  BY DEF CharactersInv, Ordered
<1> HIDE DEF c, d, s, r, o, p, ts, us, m, T
<1>t. \A t \in T : t.first \in Nat /\ t.last \in Nat
  BY DEF T
<1>9. ASSUME NEW i \in 1 .. d - 1 PROVE Answered(r, p, us, i)
  <2>1. CASE i >= c
    <3>1. i \in c .. d - 1 /\ i >= 1
      BY <1>3, <1>3p, <2>1
    <3> QED
      BY <1>7, <3>1
  <2>2. CASE i < c
    <3>1. i \in 1 .. c - 1 /\ i \in 1 .. m /\ i \in 0 .. m /\ i - 1 \in 0 .. m /\ i \in Nat \ {0}
      BY <1>3, <1>3p, <2>2, <1>1
    <3>2. Answered(s, o, ts, i) /\ r[i] = s[i] /\ (p[i] <=> o[i]) /\ (p[i - 1] <=> o[i - 1])
      BY <1>2, <1>4, <1>6, <3>1
    <3>3. \/ us = ts
          \/ \E t \in T : us = Append(ts, t) /\ t.first \in Nat /\ t.last \in Nat /\ t.first > i /\ t.last >= i
      BY <1>3, <1>5, <1>t, <2>2, <3>1
    <3> QED
      BY <1>1, <1>1p, <3>1, <3>2, <3>3, AnsweredStays
  <2> QED
    BY <1>3, <1>3p, <2>1, <2>2
<1>10. /\ \A j, k \in DOMAIN us : j < k /\ us[j].kind # "eof" => us[j].last < us[k].first
       /\ \A j \in DOMAIN us : us[j].kind # "eof" => us[j].last < d
  <2>0. \A j \in DOMAIN ts : ts[j].last \in Nat
    BY <1>1, <1>t, SeqEntries
  <2>1. CASE us = ts
    BY <1>3, <1>3p, <1>6, <1>8, <2>0, <2>1
  <2>2. CASE us # ts
    <3>1. PICK t \in T : /\ us = Append(ts, t)
                         /\ t.first >= c /\ t.last >= t.first /\ (t.kind # "eof" => t.last < d)
      BY <1>5, <2>2
    <3> DEFINE n == Len(ts)
    <3>2. /\ n \in Nat /\ DOMAIN ts = 1 .. n /\ DOMAIN us = 1 .. n + 1
          /\ us[n + 1] = t /\ \A j \in 1 .. n : us[j] = ts[j]
      BY <1>1, <3>1, AppendLast, SeqEntries, LenProperties
    <3> HIDE DEF n
    <3>3. t.first \in Nat /\ t.last \in Nat
      BY <1>t
    <3>4. ASSUME NEW j \in DOMAIN us, us[j].kind # "eof" PROVE us[j].last < d
      <4>1. CASE j \in 1 .. n
        BY <1>3, <1>3p, <1>6, <1>8, <2>0, <3>2, <3>4, <4>1
      <4>2. CASE j = n + 1
        BY <3>1, <3>2, <3>4, <4>2
      <4> QED
        BY <3>2, <4>1, <4>2
    <3>5. ASSUME NEW j \in DOMAIN us, NEW k \in DOMAIN us, j < k, us[j].kind # "eof"
          PROVE  us[j].last < us[k].first
      <4>1. j \in 1 .. n
        BY <3>2, <3>5
      <4>2. CASE k \in 1 .. n
        BY <1>8, <3>2, <3>5, <4>1, <4>2
      <4>3. CASE k = n + 1
        BY <1>3, <1>8, <2>0, <3>1, <3>2, <3>3, <3>5, <4>1, <4>3
      <4> QED
        BY <3>2, <4>2, <4>3
    <3> QED
      BY <3>4, <3>5
  <2> QED
    BY <2>1, <2>2
<1>11. Ordered'
  BY <1>10 DEF Ordered, us, d
<1>12. (\A i \in 1 .. Cut - 1 : Answered(input, open, out, i))'
  BY <1>9 DEF r, p, us, d
<1> QED
  BY <1>11, <1>12 DEF CharactersInv

\* What is known when get() reads another character
LEMMA Reads ==
  ASSUME Inv, CharactersInv, Read, last_char # "EOF"
  PROVE  /\ Len(input) \in Nat /\ Len(input') = Len(input) + 1
         /\ input \in Seq(Chars) /\ input' \in Seq(Chars)
         /\ \A i \in 1 .. Len(input) : input'[i] = input[i]
         /\ \A i \in 0 .. Len(input) : open'[i] <=> open[i]
         /\ start \in 0 .. Len(input)
<1>1. /\ input \in Seq(Chars) /\ Len(input) \in Nat /\ start \in 0 .. Len(input)
      /\ input' \in Seq(Chars) /\ Len(input') = Len(input) + 1
      /\ \A i \in 1 .. Len(input) : input'[i] = input[i]
  BY Advance, LenProperties DEF Inv, Types
<1>2. Len(input) <= Len(input')
  BY <1>1
<1> QED
  BY <1>1, <1>2, OpenStays

\* Nothing has taken the characters from Cut on.
LEMMA NotTaken ==
  ASSUME Inv, CharactersInv, NoEof, NEW i \in Nat, i >= Cut
  PROVE  /\ ~Taken(out, i)
         /\ \A j \in 1 .. Len(out) : out[j].last < i
<1>1. /\ DOMAIN out = 1 .. Len(out)
      /\ \A j \in 1 .. Len(out) : out[j].last \in Nat /\ out[j].first \in Nat
  <2> DEFINE T == [kind : Kind, first : Nat, last : Nat]
  <2>1. out \in Seq(T) /\ \A t \in T : t.last \in Nat /\ t.first \in Nat
    BY DEF Inv, Types
  <2> HIDE DEF T
  <2> QED
    BY <2>1, SeqEntries
<1>2. \A j \in 1 .. Len(out) : out[j].last < Cut
  BY <1>1 DEF NoEof, CharactersInv, Ordered
<1>3. Cut \in Nat
  BY LenProperties DEF Inv, Types, Cut
<1>4. \A j \in 1 .. Len(out) : out[j].last < i
  BY <1>1, <1>2, <1>3
<1> QED
  BY <1>1, <1>4 DEF Taken

\* White space, the end of a comment, and a line break after a line break are dropped: the
\* characters from Cut to last_char are.
LEMMA DropsStep ==
  ASSUME Inv, Inv', Counted, CharactersInv,
         SkipSpace \/ CommentEnd \/ (LineBreak /\ cur_tok = "line_break")
  PROVE  CharactersInv'
<1> DEFINE n == Len(input)
           c == Cut
           s == input
           r == input'
           o == open
           p == open'
<1>1. Read /\ out' = out /\ pc' = "Get" /\ last_char # "EOF"
  <2>1. Read /\ out' = out /\ pc' = "Get"
    BY DEF SkipSpace, CommentEnd, LineBreak
  <2>2. last_char # "EOF"
    BY Classes DEF SkipSpace, CommentEnd, CommentStops, LineBreak
  <2> QED
    BY <2>1, <2>2
<1>2. /\ n \in Nat /\ Len(r) = n + 1
      /\ \A i \in 1 .. n : r[i] = s[i]
      /\ \A i \in 0 .. n : p[i] <=> o[i]
      /\ start \in 0 .. n
  BY <1>1, Reads
<1>3. NoEof
  BY <1>1, NoEofBefore
<1>4. Cut' = n + 1 /\ c \in 0 .. n /\ (pc = "Get" => c = n) /\ (pc = "Comment" => c = start /\ start \in 1 .. n - 1)
  <2>1. pc = "Comment" => start \in 1 .. Len(input) - 1
    BY DEF Inv, Reading
  <2> QED
    BY <1>1, <1>2, <2>1 DEF Cut
<1>5. n # 0 => last_char = s[n]
  BY Lookahead DEF Inv
<1>6. /\ ~o[0]
      /\ \A i \in 1 .. n : /\ o[i - 1] => (o[i] <=> s[i] \notin {"LF", "CR", "$"})
                           /\ ~o[i - 1] => (o[i] <=> s[i] = "$")
  BY OpenIs DEF Inv, Types
<1>7. /\ c >= 1 => ~o[c - 1]
      /\ pc = "Comment" => \A i \in start .. n - 1 : o[i]
  <2>1. c >= 1 => ~o[c - 1]
    BY <1>1 DEF CharactersInv, Commented
  <2>2. pc = "Comment" => \A i \in start .. n - 1 : o[i]
    BY DEF CharactersInv, Commented
  <2> QED
    BY <2>1, <2>2
<1>8. \A i \in Nat : i >= c => ~Taken(out, i) /\ \A j \in 1 .. Len(out) : out[j].last < i
  BY <1>3, NotTaken
<1>9. ASSUME n >= 1 PROVE ~p[n]
  <2>1. CASE pc = "Get"
    <3>1. last_char # "$"
      BY <2>1 DEF SkipSpace, Space, CommentEnd, LineBreak, Break
    <3> QED
      BY <1>2, <1>4, <1>5, <1>6, <1>7, <1>9, <2>1, <3>1
  <2>2. CASE pc = "Comment"
    <3>1. last_char \in {"LF", "CR", "$"}
      BY <2>2 DEF SkipSpace, CommentEnd, LineBreak, CommentStops
    <3>2. o[n - 1]
      BY <1>2, <1>4, <1>7, <2>2
    <3> QED
      BY <1>2, <1>4, <1>5, <1>6, <2>2, <3>1, <3>2
  <2> QED
    BY <2>1, <2>2 DEF SkipSpace, CommentEnd, LineBreak
<1>10. ASSUME NEW i \in c .. n, i >= 1 PROVE Answered(r, p, out, i)
  <2>0. i \in Nat /\ i \in 1 .. n /\ i - 1 \in 0 .. n /\ i \in 0 .. n
    BY <1>2, <1>4, <1>10
  <2>1. CASE SkipSpace
    <3>1. i = n /\ r[i] \in Space
      BY <1>2, <1>4, <1>5, <1>10, <2>1 DEF SkipSpace
    <3> QED
      BY <1>8, <2>0, <3>1 DEF Answered, Laid
  <2>2. CASE CommentEnd
    <3>1. i = n => o[i - 1]
      BY <1>2, <1>4, <1>7, <1>10, <2>2 DEF CommentEnd
    <3>2. i # n => o[i]
      BY <1>2, <1>4, <1>7, <1>10, <2>2 DEF CommentEnd
    <3> QED
      BY <1>2, <1>8, <2>0, <3>1, <3>2 DEF Answered, Laid
  <2>3. CASE LineBreak /\ cur_tok = "line_break"
    <3>1. i = n /\ r[i] \in Break
      BY <1>2, <1>4, <1>5, <1>10, <2>3 DEF LineBreak
    <3> DEFINE k == Len(out)
    <3>2. k \in Nat /\ (k # 0 => out[k].kind = "line_break")
      <4>1. k \in Nat
        BY LenProperties DEF Inv, Types
      <4>2. k # 0 => out # <<>> /\ Last(out) = out[k]
        BY DEF Last
      <4> QED
        BY <2>3, <4>1, <4>2 DEF Counted
    <3>3. \A j \in 1 .. k : out[j].last < i
      BY <1>8, <2>0, <1>10
    <3>4. Dropped(r, out, i)
      <4>1. \A j \in 1 .. k : out[j].last < i <=> j <= k
        BY <3>2, <3>3
      <4>2. k \in 0 .. k
        BY <3>2
      <4> QED
        BY <3>1, <3>2, <4>1, <4>2 DEF Dropped
    <3>5. ~Taken(out, i)
      BY <1>8, <2>0, <1>10
    <3>6. ~Laid(r, p, i)
      <4>1. r[i] \notin Space
        BY <3>1 DEF Break, Space
      <4>2. ~p[i]
        BY <1>9, <1>10, <3>1
      <4>3. ~p[i - 1]
        BY <1>2, <1>4, <1>7, <1>10, <2>0, <2>3, <3>1 DEF LineBreak
      <4> QED
        BY <4>1, <4>2, <4>3 DEF Laid
    <3> QED
      BY <3>4, <3>5, <3>6 DEF Answered
  <2> QED
    BY <2>1, <2>2, <2>3
<1>11. Commented'
  <2>1. n = 0 => ~p[0]
    BY <1>2, <1>6
  <2>2. ~p[n]
    BY <1>2, <1>9, <2>1
  <2>3. Cut' - 1 = n
    BY <1>2, <1>4
  <2> QED
    BY <1>1, <2>2, <2>3 DEF Commented
<1>12. /\ c <= Cut' /\ n <= Len(r)
       /\ \A i \in c .. Cut' - 1 : i >= 1 => Answered(r, p, out', i)
  <2>1. Cut' - 1 = n /\ out' = out
    BY <1>1, <1>2, <1>4
  <2> HIDE DEF p, r, c, n
  <2> QED
    BY <1>2, <1>4, <1>10, <2>1
<1> HIDE DEF c, n, p, r, s, o
<1> QED
  BY <1>1, <1>2, <1>11, <1>12, Deals DEF c, n, p, r, s, o

\* The first character of a token, or of a comment, is read, ...
LEMMA BeginsStep == ASSUME Inv, Inv', CharactersInv, Begin PROVE CharactersInv'
<1> DEFINE n == Len(input)
           s == input
           r == input'
           o == open
           p == open'
<1>0. PICK state \in DOMAIN Begins : last_char \in Begins[state] /\ pc' = state
  BY DEF Begin
<1>1. Read /\ out' = out /\ last_char # "EOF" /\ last_char # " " /\ pc = "Get" /\ start' = n
  BY <1>0, Classes DEF Begin
<1>2. /\ n \in Nat /\ Len(r) = n + 1
      /\ \A i \in 1 .. n : r[i] = s[i]
      /\ \A i \in 0 .. n : p[i] <=> o[i]
  BY <1>1, Reads
<1>3. n >= 1 /\ last_char = s[n]
  BY <1>1, Lookahead DEF Inv
<1>4. Cut = n /\ Cut' = n /\ pc' \notin {"Idle", "Get"}
  BY <1>0, <1>1, Classes DEF Cut
<1>5. ~o[n - 1]
  BY <1>1, <1>3, <1>4 DEF CharactersInv, Commented
<1>6. o[n] <=> s[n] = "$"
  <2>1. \A i \in 1 .. n : ~o[i - 1] => (o[i] <=> s[i] = "$")
    BY OpenIs DEF Inv, Types
  <2> QED
    BY <1>2, <1>3, <1>5, <2>1
<1>7. s[n] = "$" <=> state = "Comment"
  <2>1. "$" \notin Alpha /\ "$" \notin Digit \cup {"."} /\ "$" \notin {">", "<", ":", "="}
    BY DEF Alpha, Digit
  <2> QED
    BY <1>0, <1>3, <2>1, Classes
<1>8. Commented'
  <2>0. start' = n /\ Len(r) - 1 = n
    <3> DEFINE m == Len(r)
    <3>1. n \in Nat /\ m = n + 1 /\ start' = n
      BY <1>1, <1>2
    <3> HIDE DEF m, n
    <3>2. m - 1 = n
      BY <3>1
    <3> QED
      BY <3>1, <3>2 DEF m
  <2>1. \A i \in start' .. Len(r) - 1 : i = n
    <3>1. \A i \in n .. n : i = n
      BY <1>2
    <3> QED
      BY <2>0, <3>1
  <2>2. p[n] <=> pc' = "Comment"
    BY <1>0, <1>2, <1>3, <1>6, <1>7
  <2>3. ~p[n - 1]
    BY <1>2, <1>3, <1>5
  <2> QED
    BY <1>4, <2>1, <2>2, <2>3 DEF Commented
<1>9. Cut <= Cut' /\ n <= Len(r) /\ \A i \in Cut .. Cut' - 1 : FALSE
  BY <1>2, <1>4
<1> QED
  BY <1>1, <1>2, <1>8, <1>9, Deals

\* ... and the others.
LEMMA MoresStep == ASSUME Inv, Inv', CharactersInv, More PROVE CharactersInv'
<1> DEFINE n == Len(input)
           s == input
           r == input'
           o == open
           p == open'
<1>1. Read /\ out' = out /\ GoesOn /\ pc' = pc /\ start' = start
  BY DEF More
<1>0. last_char # "EOF" /\ pc \in {"Identifier", "Number", "Comment"}
  BY <1>1, Classes DEF GoesOn, NumberGoesOn, Digit
<1>2. /\ n \in Nat /\ Len(r) = n + 1
      /\ \A i \in 1 .. n : r[i] = s[i]
      /\ \A i \in 0 .. n : p[i] <=> o[i]
  BY <1>0, <1>1, Reads
<1>3. start \in 1 .. n - 1
  BY <1>0 DEF Inv, Reading
<1>4. last_char = s[n]
  <2>1. n # 0
    BY <1>2, <1>3
  <2> QED
    BY <2>1, Lookahead DEF Inv
<1>5. Cut = start /\ Cut' = start
  BY <1>0, <1>1 DEF Cut
<1>6. ~o[start - 1] /\ \A i \in start .. n - 1 : o[i] <=> pc = "Comment"
  <2>1. start >= 1 => ~o[start - 1]
    BY <1>0, <1>5 DEF CharactersInv, Commented
  <2>2. \A i \in start .. n - 1 : o[i] <=> pc = "Comment"
    BY <1>0 DEF CharactersInv, Commented
  <2> QED
    BY <1>3, <2>1, <2>2
<1>7. o[n] <=> pc = "Comment"
  <2>1. n \in 1 .. n /\ n - 1 \in start .. n - 1
    BY <1>2, <1>3
  <2>2. /\ o[n - 1] => (o[n] <=> s[n] \notin {"LF", "CR", "$"})
        /\ ~o[n - 1] => (o[n] <=> s[n] = "$")
    BY <2>1, OpenIs DEF Inv, Types
  <2>3. CASE pc = "Comment"
    <3>1. last_char \notin {"LF", "CR", "$"}
      BY <1>1, <2>3 DEF GoesOn, CommentStops
    <3> QED
      BY <1>4, <1>6, <2>1, <2>2, <2>3, <3>1
  <2>4. CASE pc # "Comment"
    <3>1. last_char # "$"
      BY <1>1, <2>4 DEF GoesOn, NumberGoesOn, Alnum, Alpha, Digit
    <3> QED
      BY <1>4, <1>6, <2>1, <2>2, <2>4, <3>1
  <2> QED
    BY <2>3, <2>4
<1>8. Commented'
  <2>1. ASSUME NEW i \in start .. n PROVE p[i] <=> pc = "Comment"
    <3>1. i \in 0 .. n /\ (i = n \/ i \in start .. n - 1)
      BY <1>2, <1>3
    <3> QED
      BY <1>2, <1>6, <1>7, <3>1
  <2>2. ~p[start - 1]
    <3>1. start - 1 \in 0 .. n
      BY <1>2, <1>3
    <3> QED
      BY <1>2, <1>6, <3>1
  <2>3. Len(r) - 1 = n
    BY <1>2
  <2> QED
    BY <1>0, <1>1, <1>5, <2>1, <2>2, <2>3 DEF Commented
<1>9. Cut <= Cut' /\ n <= Len(r) /\ \A i \in Cut .. Cut' - 1 : FALSE
  BY <1>2, <1>3, <1>5
<1> QED
  BY <1>1, <1>2, <1>8, <1>9, Deals

\* One token more
LEMMA TokenAdded ==
  ASSUME Inv, NEW kind \in Kind, NEW first \in Nat, NEW last \in Int,
         out' = Append(out, [kind |-> kind, first |-> first, last |-> last])
  PROVE  /\ Len(out) \in Nat /\ DOMAIN out = 1 .. Len(out)
         /\ DOMAIN out' = 1 .. Len(out) + 1 /\ out' # <<>>
         /\ out'[Len(out) + 1] = [kind |-> kind, first |-> first, last |-> last]
         /\ \A j \in 1 .. Len(out) : out'[j] = out[j]
<1> DEFINE t == [kind |-> kind, first |-> first, last |-> last]
           T == [kind : Kind, first : Nat, last : Int]
           U == [kind : Kind, first : Nat, last : Nat]
<1>1. t \in T /\ out \in Seq(U) /\ U \subseteq T
  BY DEF Inv, Types
<1>2. out' = Append(out, t)
  OBVIOUS
<1> HIDE DEF t, T, U
<1>3. out \in Seq(T)
  BY <1>1, SeqMonotonic
<1>4. /\ out' \in Seq(T) /\ Len(out') = Len(out) + 1 /\ out' # <<>>
      /\ \A i \in 1 .. Len(out) : out'[i] = out[i]
      /\ out'[Len(out) + 1] = t
  BY <1>1, <1>2, <1>3, AppendLast
<1> QED
  BY <1>3, <1>4, LenProperties, SeqEntries DEF t

\* A token of one character or more ends before last_char.
LEMMA EndsStep ==
  ASSUME Inv, Inv', Counted, CharactersInv, NEW state \in {"Identifier", "Number", "Operator"},
         NEW kind \in Kind \ {"eof"}, End(state, kind)
  PROVE  CharactersInv'
<1> DEFINE n == Len(input)
           s == input
           o == open
           p == open'
           t == [kind |-> kind, first |-> start, last |-> n - 1]
           c == Cut
<1>1. /\ pc = state /\ out' = Append(out, t) /\ input' = input
      /\ pc' = "Idle"
  BY DEF End, Return
<1>2. n \in Nat /\ start \in 1 .. n - 1
  BY <1>1, LenProperties DEF Inv, Types, Reading
<1>3. c = start /\ Cut' = n
  BY <1>1 DEF Cut
<1>4. \A i \in 0 .. n : p[i] <=> o[i]
  <2>1. input \in Seq(Chars) /\ input' \in Seq(Chars) /\ Len(input) <= Len(input')
    BY <1>1, <1>2 DEF Inv, Types
  <2> QED
    BY <1>1, <2>1, OpenStays
<1>5. ~o[start - 1] /\ \A i \in start .. n - 1 : ~o[i]
  <2>1. start >= 1 => ~o[start - 1]
    BY <1>1, <1>3 DEF CharactersInv, Commented
  <2>2. \A i \in start .. n - 1 : ~o[i]
    BY <1>1 DEF CharactersInv, Commented
  <2> QED
    BY <1>2, <2>1, <2>2
<1>6. \A i \in start .. n - 1 : s[i] \notin Space
  <2>1. CASE state = "Operator"
    <3>1. start = n - 1 /\ s[start] \in {">", "<", ":", "="}
      BY <1>1, <2>1, Classes DEF Inv, Reading
    <3>2. \A i \in start .. n - 1 : i = start
      BY <1>2, <3>1
    <3> QED
      BY <3>1, <3>2 DEF Space
  <2>2. CASE state \in {"Identifier", "Number"}
    <3>1. \A i \in start .. n - 1 : s[i] \in Alnum \cup Digit \cup {"."}
      BY <1>1, <2>2 DEF Inv, Reading
    <3> QED
      BY <3>1 DEF Space, Alnum, Alpha, Digit
  <2> QED
    BY <2>1, <2>2
<1>7. ASSUME NEW i \in start .. n - 1 PROVE Answered(s, p, out', i)
  <2>1. ~Laid(s, p, i)
    <3>1. i \in 0 .. n /\ i - 1 \in 0 .. n /\ (i = start \/ i - 1 \in start .. n - 1)
      BY <1>2
    <3>2. ~o[i - 1] /\ ~o[i] /\ s[i] \notin Space
      BY <1>5, <1>6, <3>1
    <3> QED
      BY <1>4, <3>1, <3>2 DEF Laid
  <2>2. Taken(out', i)
    <3> DEFINE m == Len(out)
    <3>1. m \in Nat /\ out' # <<>> /\ DOMAIN out' = 1 .. m + 1 /\ out'[m + 1] = t
      BY <1>1, <1>2, TokenAdded
    <3>2. m + 1 \in DOMAIN out'
      BY <3>1
    <3>3. out'[m + 1].first = start /\ out'[m + 1].last = n - 1
      BY <3>1
    <3> HIDE DEF m
    <3> QED
      BY <3>2, <3>3 DEF Taken
  <2> QED
    BY <2>1, <2>2 DEF Answered
<1>8. Commented'
  <2>1. ~p[n - 1]
    <3>1. n - 1 \in start .. n - 1 /\ n - 1 \in 0 .. n
      BY <1>2
    <3> QED
      BY <1>4, <1>5, <3>1
  <2> QED
    BY <1>1, <1>3, <2>1 DEF Commented
<1>9. /\ t \in [kind : Kind, first : Nat, last : Nat]
      /\ t.first >= Cut /\ t.last >= t.first /\ t.last < Cut'
  BY <1>2, <1>3
<1>10. Cut <= Cut' /\ Len(input) <= Len(input')
  BY <1>1, <1>2, <1>3
<1>11. \A i \in Cut .. Cut' - 1 : i >= 1 => Answered(input', p, out', i)
  BY <1>1, <1>3, <1>7
<1> HIDE DEF c, n, p, o, t
<1> QED
  BY <1>1, <1>8, <1>9, <1>10, <1>11, Deals DEF p

\* A token that has last_char for its last character, whether it is all of it or not.
LEMMA TakesStep ==
  ASSUME Inv, Inv', CharactersInv, NEW kind \in Kind \ {"eof"}, NEW first \in Nat,
         Read, Return(kind, first, Len(input)),
         first = Cut, pc \in {"Get", "Operator"}, Len(input) >= 1,
         last_char \notin Space \cup {"$", "EOF"}
  PROVE  CharactersInv'
<1> DEFINE n == Len(input)
           s == input
           r == input'
           o == open
           p == open'
           t == [kind |-> kind, first |-> first, last |-> n]
           c == Cut
<1>1. out' = Append(out, t) /\ pc' = "Idle"
  BY DEF Return
<1>2. /\ n \in Nat /\ Len(r) = n + 1
      /\ \A i \in 1 .. n : r[i] = s[i]
      /\ \A i \in 0 .. n : p[i] <=> o[i]
  BY Reads
<1>3. /\ Cut' = n + 1
      /\ pc = "Get" => c = n
      /\ pc = "Operator" => c = n - 1 /\ c = start /\ c >= 1 /\ s[c] \in {">", "<", ":", "="}
  <2>1. pc = "Operator" => start = n - 1 /\ start \in 1 .. n - 1 /\ s[start] \in {">", "<", ":", "="}
    BY Classes DEF Inv, Reading
  <2>2. Cut' = n + 1
    BY <1>1, <1>2 DEF Cut
  <2> QED
    BY <1>2, <2>1, <2>2 DEF Cut
<1>4. last_char = s[n]
  <2>1. n # 0
    BY <1>2
  <2> QED
    BY <2>1, Lookahead DEF Inv
<1>5. ~o[c - 1] /\ (pc = "Operator" => ~o[c])
  <2>1. ~o[c - 1]
    BY <1>2, <1>3 DEF CharactersInv, Commented
  <2>2. pc = "Operator" => \A i \in start .. n - 1 : ~o[i]
    BY DEF CharactersInv, Commented
  <2> QED
    BY <1>2, <1>3, <2>1, <2>2
<1>6. ~o[n - 1] /\ ~o[n]
  <2>1. ~o[n - 1]
    BY <1>2, <1>3, <1>5
  <2>2. n \in 1 .. n
    BY <1>2
  <2>3. ~o[n - 1] => (o[n] <=> s[n] = "$")
    BY <2>2, OpenIs DEF Inv, Types
  <2> QED
    BY <1>4, <2>1, <2>3
<1>7. ASSUME NEW i \in c .. n, i >= 1 PROVE Answered(r, p, out', i)
  <2>0. i = n \/ (pc = "Operator" /\ i = c)
    BY <1>2, <1>3, <1>7
  <2>1. ~Laid(r, p, i)
    <3>1. i \in 1 .. n /\ i \in 0 .. n /\ i - 1 \in 0 .. n
      BY <1>2, <1>3, <1>7
    <3>2. ~o[i - 1] /\ ~o[i] /\ s[i] \notin Space
      BY <1>3, <1>4, <1>5, <1>6, <2>0 DEF Space
    <3> QED
      BY <1>2, <3>1, <3>2 DEF Laid
  <2>2. Taken(out', i)
    <3> DEFINE m == Len(out)
    <3>1. m \in Nat /\ out' # <<>> /\ DOMAIN out' = 1 .. m + 1 /\ out'[m + 1] = t
      BY <1>1, <1>2, TokenAdded
    <3>2. m + 1 \in DOMAIN out'
      BY <3>1
    <3>3. out'[m + 1].first = c /\ out'[m + 1].last = n
      BY <3>1
    <3> HIDE DEF m, c
    <3> QED
      BY <3>2, <3>3 DEF Taken
  <2> QED
    BY <2>1, <2>2 DEF Answered
<1>8. Commented'
  <2>1. ~p[n] /\ Cut' - 1 = n
    BY <1>2, <1>3, <1>6
  <2> QED
    BY <1>1, <2>1 DEF Commented
<1>9. /\ t \in [kind : Kind, first : Nat, last : Nat]
      /\ t.first >= Cut /\ t.last >= t.first /\ t.last < Cut'
  BY <1>2, <1>3
<1>10. Cut <= Cut' /\ Len(input) <= Len(input')
  BY <1>2, <1>3
<1>11. \A i \in Cut .. Cut' - 1 : i >= 1 => Answered(r, p, out', i)
  <2>1. Cut' - 1 = n
    BY <1>2, <1>3
  <2> QED
    BY <1>7, <2>1
<1> HIDE DEF c, n, p, r, s, o, t
<1> QED
  BY <1>1, <1>2, <1>8, <1>9, <1>10, <1>11, Deals DEF p, r, s, n

\* The end of the file
LEMMA FileEndsStep == ASSUME Inv, Inv', Counted, CharactersInv, EndOfFile PROVE CharactersInv'
<1> DEFINE n == Len(input)
           s == input
           o == open
           p == open'
           t == [kind |-> "eof", first |-> n, last |-> n]
           c == Cut
<1>1. /\ out' = Append(out, t) /\ input' = input /\ pc' = "Idle"
      /\ last_char = "EOF" /\ pc \in {"Get", "Comment"}
  BY DEF EndOfFile, EofToken, EofEnds, Return
<1>2. n \in Nat
  BY LenProperties DEF Inv, Types
<1>3. /\ Cut' = n /\ (pc = "Get" => c = n)
      /\ pc = "Comment" => start \in 1 .. n - 1 /\ c = start
  <2>1. pc = "Comment" => start \in 1 .. n - 1
    BY DEF Inv, Reading
  <2> QED
    BY <1>1, <2>1 DEF Cut
<1>4. \A i \in 0 .. n : p[i] <=> o[i]
  <2>1. input \in Seq(Chars) /\ input' \in Seq(Chars) /\ Len(input) <= Len(input')
    BY <1>1, <1>2 DEF Inv, Types
  <2> QED
    BY <1>1, <2>1, OpenStays
<1>5. pc = "Comment" => \A i \in start .. n - 1 : o[i]
  BY DEF CharactersInv, Commented
<1>6. ASSUME NEW i \in c .. n - 1, i >= 1 PROVE Answered(s, p, out', i)
  <2>0. pc = "Comment" /\ i \in start .. n - 1 /\ i \in 0 .. n /\ i \in Nat
    BY <1>1, <1>2, <1>3, <1>6
  <2>1. Laid(s, p, i)
    BY <1>4, <1>5, <2>0 DEF Laid
  <2>2. ~Taken(out', i)
    <3> DEFINE m == Len(out)
    <3>1. /\ m \in Nat /\ DOMAIN out' = 1 .. m + 1 /\ out'[m + 1] = t
          /\ DOMAIN out = 1 .. m /\ \A j \in 1 .. m : out'[j] = out[j]
      BY <1>1, <1>2, TokenAdded DEF Kind
    <3>2. NoEof
      BY <2>0 DEF Counted
    <3>3. ~Taken(out, i)
      BY <1>6, <2>0, <3>2, NotTaken
    <3>4. out'[m + 1].first = n
      BY <3>1
    <3> HIDE DEF m
    <3>5. \A j \in 1 .. m + 1 : j \in 1 .. m \/ j = m + 1
      BY <3>1
    <3>6. \A k : i \notin n .. k
      BY <1>2, <2>0
    <3> QED
      BY <3>1, <3>3, <3>4, <3>5, <3>6 DEF Taken
  <2> QED
    BY <2>1, <2>2 DEF Answered
<1>7. Commented'
  BY <1>1 DEF Commented, last_char
<1>8. /\ t \in [kind : Kind, first : Nat, last : Nat]
      /\ t.first >= Cut /\ t.last >= t.first /\ t.kind = "eof"
  BY <1>1, <1>2, <1>3 DEF Kind
<1>9. Cut <= Cut' /\ Len(input) <= Len(input')
  BY <1>1, <1>2, <1>3
<1>10. \A i \in Cut .. Cut' - 1 : i >= 1 => Answered(input', p, out', i)
  BY <1>1, <1>3, <1>6
<1> HIDE DEF c, n, p, o, t
<1> QED
  BY <1>1, <1>7, <1>8, <1>9, <1>10, Deals DEF p

\* Every step of get() keeps the invariant.
LEMMA CharactersStep == Inv /\ Inv' /\ Counted /\ CharactersInv /\ [Next]_vars => CharactersInv'
<1> SUFFICES ASSUME Inv, Inv', Counted, CharactersInv, [Next]_vars PROVE CharactersInv'
  OBVIOUS
<1>1. CASE Call \/ UNCHANGED vars
  <2>1. UNCHANGED <<input, start, out>>
    BY <1>1 DEF Call, vars
  <2>2. pc' = pc \/ (pc = "Idle" /\ pc' = "Get")
    BY <1>1 DEF Call, vars
  <2>3. Cut' = Cut /\ (pc' \in {"Idle", "Get"} <=> pc \in {"Idle", "Get"}) /\ (pc' = "Comment" <=> pc = "Comment")
    BY <2>1, <2>2 DEF Cut
  <2>4. open' = open /\ last_char' = last_char
    BY <2>1, Zenon DEF open, last_char
  <2> QED
    BY <2>1, <2>3, <2>4 DEF CharactersInv, Commented, Ordered
<1>2. CASE SkipSpace \/ CommentEnd
  BY <1>2, DropsStep
<1>3. CASE LineBreak
  <2>1. CASE cur_tok = "line_break"
    BY <1>3, <2>1, DropsStep
  <2>2. CASE cur_tok # "line_break"
    <3>1. /\ last_char \in Break /\ pc = "Get" /\ Read /\ Return("line_break", Len(input), Len(input))
      BY <1>3, <2>2 DEF LineBreak, ReturnChar
    <3>2. last_char \notin Space \cup {"$", "EOF", " "}
      BY <3>1 DEF Break, Space
    <3>3. Len(input) \in Nat /\ Len(input) >= 1
      BY <3>2, Lookahead DEF Inv
    <3>4. "line_break" \in Kind \ {"eof"} /\ Cut = Len(input)
      BY <3>1 DEF Kind, Cut
    <3> QED
      BY <3>1, <3>2, <3>3, <3>4, TakesStep
  <2> QED
    BY <2>1, <2>2
<1>4. CASE OtherChar
  <2>1. /\ last_char \in Single /\ pc = "Get" /\ Read /\ Return(last_char, Len(input), Len(input))
    BY <1>4 DEF OtherChar, ReturnChar
  <2>2. last_char \notin Space \cup {"$", "EOF", " "}
    BY <2>1 DEF Single, Space
  <2>3. Len(input) \in Nat /\ Len(input) >= 1
    BY <2>2, Lookahead DEF Inv
  <2>4. last_char \in Kind \ {"eof"} /\ Cut = Len(input)
    <3>1. \A c \in Single : c \in Kind \ {"eof"}
      BY DEF Kind, Single
    <3>2. Cut = Len(input)
      BY <2>1 DEF Cut
    <3> QED
      BY <2>1, <3>1, <3>2
  <2> QED
    BY <2>1, <2>2, <2>3, <2>4, TakesStep
<1>5. CASE Begin
  BY <1>5, BeginsStep
<1>6. CASE More
  BY <1>6, MoresStep
<1>7. CASE IdentifierEnd
  <2> DEFINE kind == IF text = Extern THEN "extern" ELSE "identifier"
  <2>1. kind \in Kind \ {"eof"} /\ End("Identifier", kind)
    BY <1>7 DEF IdentifierEnd, Kind
  <2> HIDE DEF kind
  <2> QED
    BY <2>1, EndsStep
<1>8. CASE NumberEnd
  <2> DEFINE kind == IF hadDot THEN "real_number" ELSE "relative_number"
  <2>1. kind \in Kind \ {"eof"} /\ End("Number", kind)
    BY <1>8 DEF NumberEnd, Kind
  <2> HIDE DEF kind
  <2> QED
    BY <2>1, EndsStep
<1>9. CASE OperatorSingle
  <2>1. pc = "Operator" /\ End("Operator", input[start])
    BY <1>9 DEF OperatorSingle
  <2>2. input[start] \in {">", "<", ":", "="}
    BY <2>1, Classes DEF Inv, Reading
  <2>3. input[start] \in Kind \ {"eof"}
    BY <2>2 DEF Kind
  <2> QED
    BY <2>1, <2>3, EndsStep
<1>10. CASE OperatorPair
  <2>1. PICK kind \in DOMAIN Pair : IsPair(kind) /\ Read /\ Return(kind, start, Len(input))
    BY <1>10 DEF OperatorPair
  <2>2. kind \in Kind \ {"eof"} /\ pc = "Operator" /\ last_char = Pair[kind][2]
    BY <2>1, Pairs DEF IsPair
  <2>3. last_char \notin Space \cup {"$", "EOF"}
    BY <2>2, Pairs DEF Space
  <2>4. start \in Nat /\ start = Cut /\ Len(input) >= 1
    <3>1. Len(input) \in Nat /\ start \in 1 .. Len(input) - 1
      BY <2>2, LenProperties DEF Inv, Types, Reading
    <3> QED
      BY <2>2, <3>1 DEF Cut
  <2> QED
    BY <2>1, <2>2, <2>3, <2>4, TakesStep
<1>11. CASE EndOfFile
  BY <1>11, FileEndsStep
<1> QED
  BY <1>1, <1>2, <1>3, <1>4, <1>5, <1>6, <1>7, <1>8, <1>9, <1>10, <1>11 DEF Next, get

\* After the end of the file no other token is begun.
EofRests == (\E j \in DOMAIN out : out[j].kind = "eof") => pc \in {"Idle", "Get"}

LEMMA EofRestsStep == Inv /\ EofRests /\ [Next]_vars => EofRests'
<1> SUFFICES ASSUME Inv, EofRests, [Next]_vars PROVE EofRests'
  OBVIOUS
<1>1. CASE pc' \in {"Idle", "Get"}
  BY <1>1 DEF EofRests
<1>2. CASE pc' = pc /\ out' = out
  BY <1>2 DEF EofRests
<1>3. CASE Begin
  <2> SUFFICES ASSUME NEW j \in DOMAIN out, out[j].kind = "eof" PROVE FALSE
    BY <1>3 DEF Begin, EofRests
  <2>1. TokenIs(out[j], input) /\ Types
    BY DEF Inv, TokensInv
  <2> DEFINE n == Len(input)
  <2>a. n \in Nat /\ (n # 0 => last_char = input[n])
    BY <2>1, Lookahead
  <2>b. out[j].first \in 1 .. n /\ input[n] = "EOF"
    BY <2>1 DEF TokenIs
  <2> HIDE DEF n
  <2>2. last_char = "EOF"
    BY <2>a, <2>b
  <2>3. \E state \in DOMAIN Begins : last_char \in Begins[state]
    BY <1>3 DEF Begin
  <2> QED
    BY <2>2, <2>3, Classes
<1> QED
  BY <1>1, <1>2, <1>3 DEF Next, vars, Call, get, SkipSpace, More, IdentifierEnd, NumberEnd, OperatorSingle, End,
     OperatorPair, CommentEnd, LineBreak, EndOfFile, OtherChar, ReturnChar, Return

LEMMA CharactersHold == Spec => [](CharactersInv /\ EofRests)
<1>1. Init => CharactersInv /\ EofRests
  <2> SUFFICES ASSUME Init PROVE CharactersInv /\ EofRests
    OBVIOUS
  <2>1. Len(input) = 0 /\ DOMAIN out = {} /\ pc = "Idle"
    BY DEF Init
  <2>2. Cut = 0
    BY <2>1 DEF Cut
  <2> QED
    BY <2>1, <2>2 DEF CharactersInv, Commented, Ordered, EofRests
<1> QED
  BY <1>1, CharactersStep, EofRestsStep, Invariant, CountedHolds, PTL DEF Spec

\* Whatever is in the file: every character that get() has read, but the one it looks ahead
\* to, is layout, or in one token, or a line break after a line break.
THEOREM LexerLosesNothing == Spec => []EveryCharacterOnce
BY CharactersHold, AnsweredOnce, Invariant, PTL

\* The tokens lie in the file in their order, ...
LEMMA TokensInOrder ==
  ASSUME Inv, CharactersInv
  PROVE  /\ Len(input) \in Nat /\ Len(out) \in Nat /\ DOMAIN out = 1 .. Len(out)
         /\ \A j \in DOMAIN out : /\ out[j].first \in Nat /\ out[j].last \in Nat
                                  /\ out[j].first <= out[j].last /\ out[j].last <= Len(input)
         /\ \A j, k \in DOMAIN out : j < k /\ out[j].kind # "eof" => out[j].last < out[k].first
<1>1. Len(input) \in Nat /\ Len(out) \in Nat /\ DOMAIN out = 1 .. Len(out)
  BY LenProperties, SeqEntries DEF Inv, Types
<1>2. \A j \in DOMAIN out : out[j].first \in 1 .. Len(input) /\ out[j].last \in out[j].first .. Len(input)
  BY DEF Inv, TokensInv, TokenIs
<1> DEFINE n == Len(input)
<1>3. \A a \in 1 .. n : \A b \in a .. n : a \in Nat /\ b \in Nat /\ a <= b /\ b <= n
  BY <1>1
<1> HIDE DEF n
<1> QED
  BY <1>1, <1>2, <1>3 DEF CharactersInv, Ordered, n

\* ... and once the end of the file is among them, every character but layout and line
\* breaks is in one that is no line break.
LEMMA CharacterTaken ==
  ASSUME Inv, CharactersInv, EofRests, NEW e \in DOMAIN out, out[e].kind = "eof",
         NEW c \in 1 .. Len(input) - 1, ~Layout(c), input[c] \notin Break
  PROVE  \E j \in DOMAIN out : out[j].kind \notin {"line_break", "eof"} /\ c \in out[j].first .. out[j].last
<1>1. Cut = Len(input)
  BY DEF EofRests, Cut
<1>2. Answered(input, open, out, c) /\ ~Laid(input, open, c)
  BY <1>1 DEF CharactersInv, Layout, Laid
<1>3. PICK j \in DOMAIN out : c \in out[j].first .. out[j].last
  BY <1>2 DEF Answered, Dropped, Taken
<1> DEFINE n == Len(input)
           a == out[j].first
           b == out[j].last
<1>4. n \in Nat /\ input \in Seq(Chars) /\ a \in 1 .. n /\ b \in a .. n /\ c \in 1 .. n - 1
  BY LenProperties DEF Inv, Types, TokensInv, TokenIs
<1>5. out[j].kind # "eof"
  <2>1. out[j].kind = "eof" => a = n
    BY EofAtEnd
  <2> HIDE DEF n, a, b
  <2> QED
    BY <1>3, <1>4, <2>1 DEF a, b
<1>6. out[j].kind # "line_break"
  <2> SUFFICES ASSUME out[j].kind = "line_break" PROVE FALSE
    OBVIOUS
  <2>1. SubSeq(input, a, b)[1] \in Break /\ Len(SubSeq(input, a, b)) = 1
    BY DEF Inv, TokensInv, TokenIs, Spells
  <2>2. Len(SubSeq(input, a, b)) = b - a + 1 /\ \A i \in 1 .. b - a + 1 : SubSeq(input, a, b)[i] = input[a + i - 1]
    BY <1>4, Part
  <2> HIDE DEF n, a, b
  <2>3. a \in Nat /\ b \in Nat /\ c \in Nat /\ b - a + 1 = 1
    BY <1>4, <2>1, <2>2
  <2>4. a = b /\ a + 1 - 1 = a
    BY <2>3
  <2>5. c = a
    BY <1>3, <2>3, <2>4 DEF a, b
  <2>6. input[a] \in Break
    BY <2>1, <2>2, <2>3, <2>4
  <2> QED
    BY <2>5, <2>6
<1> QED
  BY <1>3, <1>5, <1>6
==============================================================================
