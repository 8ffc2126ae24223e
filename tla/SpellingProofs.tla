--------------------------- MODULE SpellingProofs ---------------------------
(***************************************************************************)
(* Proofs that the AST spells the source.  The parser keeps no positions:  *)
(* where a node begins and ends follows from what each active call has     *)
(* eaten, so the invariant places every frame of the stack in the source.  *)
(* The places give what else there is to say of the source: that the       *)
(* definitions tile it, and how deep the recursion is in it.               *)
(***************************************************************************)
EXTENDS ParserProofs

-----------------------------------------------------------------------------
(***************************************************************************)
(* The inductive invariant.                                                *)
(***************************************************************************)
\* The current token's text is in the lexer's registers.
Registers ==
  toks # <<>> =>
    /\ CurTok = "identifier" => Is(Len(toks), "identifier", identifier_str)
    /\ CurTok = "real_number" => Is(Len(toks), "real_number", real_num_value)

\* Frames and definitions that hold none but older nodes than the newest
Older(s) ==
  /\ s \in Seq(Frame(1 .. Len(nodes) - 1))
  /\ lines \in Seq(Definition(1 .. Len(nodes) - 1))

\* What a call returns, and the operand of the loop, is the node made last. Nobody else
\* holds it, so nobody notices when it gets parentheses.
Newest ==
  /\ pc = "Return" /\ err = "none" => ret = Len(nodes) /\ Older(stack)
  /\ pc = "Loop" => Top.kids[1] = Len(nodes) /\ Older(Front(stack))

IsComma(i) == IsPunct(i, ",")

\* The arguments that a call of ParseIdentifierExpr has, each with the comma after it,
\* from token own on; the next one is to begin at token next.
ArgsPlaced(kids, own, next) ==
  LET n == Len(kids)
  IN  /\ n = 0 => next = own
      /\ n > 0 => FirstOf(kids[1]) = own /\ next = LastOf(kids[n]) + 2
      /\ \A i \in 1 .. n : IsComma(LastOf(kids[i]) + 1)
      /\ \A i \in 1 .. n - 1 : FirstOf(kids[i + 1]) = LastOf(kids[i]) + 2

\* ... or, with the ')' that ends the list at token close, all of them
ArgsClosed(kids, own, close) ==
  LET n == Len(kids)
  IN  /\ n \in Nat /\ n > 0
      /\ FirstOf(kids[1]) = own /\ LastOf(kids[n]) = close - 1
      /\ \A i \in 1 .. n - 1 : /\ IsComma(LastOf(kids[i]) + 1)
                              /\ FirstOf(kids[i + 1]) = LastOf(kids[i]) + 2

\* The frame f has eaten the tokens from own on; what it waits for begins at next.
FramePlaced(f, own, next) ==
  /\ f.fn = "Expression" => next = own
  /\ f.fn \in {"RHS", "Merge"} =>
       /\ own = FirstOf(f.kids[1])
       /\ IsPunct(LastOf(f.kids[1]) + 1, f.val)
       /\ next = LastOf(f.kids[1]) + 2
  /\ f.fn = "Paren" => IsPunct(own, "(") /\ next = own + 1
  /\ f.fn = "Call" =>
       /\ own = f.first
       /\ Is(own, "identifier", f.val) /\ IsPunct(own + 1, "(")
       /\ ArgsPlaced(f.kids, own + 2, next)

BodyStart == proto.first + 3 * Len(proto.Args) + 2

\* The frames of s lie one after the other from the beginning of the body, and what
\* the last one waits for begins at here.
Placed(s, here) ==
  \E starts \in [1 .. Len(s) + 1 -> Int] :
    /\ starts[1] = BodyStart /\ starts[Len(s) + 1] = here
    /\ \A i \in 1 .. Len(s) : FramePlaced(s[i], starts[i], starts[i + 1])

\* The tokens of the prototype p, as far as token upto
SpellsProto(p, upto) ==
  LET a == Len(p.Args)
      f == p.first
  IN  /\ Is(f, "identifier", p.Name)
      /\ \A i \in 1 .. a : /\ f + 3 * i - 2 <= upto => Is(f + 3 * i - 2, "identifier", p.Args[i])
                           /\ f + 3 * i - 1 <= upto => IsPunct(f + 3 * i - 1, ":")
                           /\ f + 3 * i <= upto => IsPunct(f + 3 * i, "identifier")
      /\ f + 3 * a + 1 <= upto => IsPunct(f + 3 * a + 1, "func_arrow")

ProtoPlaced ==
  LET next == proto.first + 3 * Len(proto.Args)
  IN  /\ pc \in {"Arg", "Delimiter", "Type"} => SpellsProto(proto, Len(toks) - 1)
      /\ pc = "Arg" => Len(toks) = next + 1
      /\ pc = "Delimiter" => Len(toks) = next - 1
      /\ pc = "Type" => Len(toks) = next
      /\ pc \in {"Primary", "Identifier", "Args", "Loop"} \/ (pc = "Return" /\ err = "none") =>
           SpellsProto(proto, next + 1)

\* An operand, or an argument list, begins at the current token, or ends before it.
OperandPlaced ==
  LET here == Len(toks)
  IN  /\ pc = "Primary" => Placed(stack, here)
      /\ pc = "Identifier" =>
           /\ Top.kids = <<>> /\ Top.first = here - 1
           /\ Is(here - 1, "identifier", Top.val)
           /\ Placed(Front(stack), here - 1)
      /\ pc = "Args" =>
           /\ Top.kids = <<>> /\ Top.first = here - 2
           /\ Is(here - 2, "identifier", Top.val) /\ IsPunct(here - 1, "(")
           /\ Placed(Front(stack), here - 2)
      /\ pc = "Loop" =>
           /\ LastOf(Top.kids[1]) = here - 1
           /\ Placed(Front(stack), FirstOf(Top.kids[1]))
      /\ pc = "Return" /\ err = "none" =>
           /\ LastOf(ret) = here - 1
           /\ Placed(stack, FirstOf(ret))

SpellingInv == ASTSpellsSource /\ Registers /\ Newest /\ ProtoPlaced /\ OperandPlaced

-----------------------------------------------------------------------------
(***************************************************************************)
(* What is known of a token or a node stays true while tokens and nodes    *)
(* are added.                                                              *)
(***************************************************************************)
ReadsOn == \A i \in DOMAIN toks : i \in DOMAIN toks' /\ toks'[i] = toks[i]
StayPut(ids) == \A n \in ids : FirstOf(n)' = FirstOf(n) /\ LastOf(n)' = LastOf(n)

LEMMA TokensStay ==
  ASSUME ReadsOn
  PROVE  /\ \A i, k, text : (Is(i, k, text) => Is(i, k, text)') /\ (IsPunct(i, k) => IsPunct(i, k)')
         /\ \A i : IsComma(i) => IsComma(i)'
<1>1. \A i, k, text : (Is(i, k, text) => Is(i, k, text)') /\ (IsPunct(i, k) => IsPunct(i, k)')
  BY DEF ReadsOn, Is, IsPunct
<1>2. ASSUME NEW i, IsComma(i) PROVE IsComma(i)'
  <2>1. \E k : k = ","
    BY Zenon
  <2> QED
    BY <1>1, <1>2, Zenon DEF IsComma
<1> QED
  BY <1>1, <1>2

LEMMA SpellsNodeStays ==
  ASSUME ReadsOn, NEW ids, StayPut(ids), NEW e, e.kids \in Seq(ids),
         e.kind = "Binary" => Len(e.kids) = 2, SpellsNode(e)
  PROVE  SpellsNode(e)'
<1> DEFINE n == Len(e.kids)
<1>1. n \in Nat /\ \A i \in 1 .. n : e.kids[i] \in ids
  BY LenProperties, ElementOfSeq
<1>2. \A i \in 1 .. n : FirstOf(e.kids[i])' = FirstOf(e.kids[i]) /\ LastOf(e.kids[i])' = LastOf(e.kids[i])
  BY <1>1 DEF StayPut, FirstOf, LastOf
<1>3. \A i \in 1 .. e.paren : IsPunct(e.first - i, "(")' /\ IsPunct(e.last + i, ")")'
  BY TokensStay DEF SpellsNode
<1>4. e.kind \in {"Number", "Variable"} =>
        (e.kind = "Number" => Is(e.first, "real_number", e.val)' /\ e.last = e.first)
        /\ (e.kind = "Variable" => Is(e.first, "identifier", e.val)' /\ e.last = e.first)
  BY TokensStay DEF SpellsNode
<1>5. ASSUME e.kind = "Binary"
      PROVE  LET op == LastOf(e.kids[1])' + 1
             IN  /\ e.first = FirstOf(e.kids[1])' /\ e.last = LastOf(e.kids[2])'
                 /\ IsPunct(LastOf(e.kids[1]) + 1, e.val)' /\ FirstOf(e.kids[2])' = op + 1
  <2>1. 1 \in 1 .. n /\ 2 \in 1 .. n
    BY <1>1, <1>5
  <2>2. LET op == LastOf(e.kids[1]) + 1
        IN  /\ e.first = FirstOf(e.kids[1]) /\ e.last = LastOf(e.kids[2])
            /\ IsPunct(op, e.val) /\ FirstOf(e.kids[2]) = op + 1
    BY <1>5 DEF SpellsNode
  <2>3. IsPunct(LastOf(e.kids[1]) + 1, e.val)'
    BY <1>2, <2>1, <2>2 DEF ReadsOn, IsPunct
  <2> QED
    BY <1>2, <2>1, <2>2, <2>3
<1>6. ASSUME e.kind = "Call"
      PROVE  /\ Is(e.first, "identifier", e.val)' /\ IsPunct(e.first + 1, "(")' /\ IsPunct(e.last, ")")'
             /\ n = 0 => e.last = e.first + 2
             /\ n > 0 => FirstOf(e.kids[1])' = e.first + 2 /\ LastOf(e.kids[n])' = e.last - 1
             /\ \A i \in 1 .. n - 1 : /\ IsPunct(LastOf(e.kids[i]) + 1, ",")'
                                      /\ FirstOf(e.kids[i + 1])' = LastOf(e.kids[i])' + 2
  <2>1. /\ Is(e.first, "identifier", e.val) /\ IsPunct(e.first + 1, "(") /\ IsPunct(e.last, ")")
        /\ n = 0 => e.last = e.first + 2
        /\ n > 0 => FirstOf(e.kids[1]) = e.first + 2 /\ LastOf(e.kids[n]) = e.last - 1
        /\ \A i \in 1 .. n - 1 : /\ IsPunct(LastOf(e.kids[i]) + 1, ",")
                                 /\ FirstOf(e.kids[i + 1]) = LastOf(e.kids[i]) + 2
    BY <1>6 DEF SpellsNode
  <2>2. Is(e.first, "identifier", e.val)' /\ IsPunct(e.first + 1, "(")' /\ IsPunct(e.last, ")")'
    BY <2>1, TokensStay
  <2> HIDE DEF n
  <2>3. n > 0 => FirstOf(e.kids[1])' = e.first + 2 /\ LastOf(e.kids[n])' = e.last - 1
    <3>1. n > 0 => 1 \in 1 .. n /\ n \in 1 .. n
      BY <1>1
    <3>2. n > 0 => LastOf(e.kids[n])' = LastOf(e.kids[n]) /\ FirstOf(e.kids[1])' = FirstOf(e.kids[1])
      BY <1>2, <3>1
    <3> QED
      BY <2>1, <3>2
  <2>4. ASSUME NEW i \in 1 .. n - 1
        PROVE  /\ IsPunct(LastOf(e.kids[i]) + 1, ",")'
               /\ FirstOf(e.kids[i + 1])' = LastOf(e.kids[i])' + 2
    <3>1. i \in 1 .. n /\ i + 1 \in 1 .. n
      BY <1>1
    <3>2. FirstOf(e.kids[i + 1])' = FirstOf(e.kids[i + 1]) /\ LastOf(e.kids[i])' = LastOf(e.kids[i])
      BY <1>2, <3>1
    <3>3. IsPunct(LastOf(e.kids[i]) + 1, ",") /\ FirstOf(e.kids[i + 1]) = LastOf(e.kids[i]) + 2
      BY <2>1
    <3>4. IsPunct(LastOf(e.kids[i]) + 1, ",")'
      BY <3>2, <3>3 DEF ReadsOn, IsPunct
    <3> QED
      BY <3>2, <3>3, <3>4
  <2> QED
    BY <2>1, <2>2, <2>3, <2>4
<1> QED
  BY <1>3, <1>4, <1>5, <1>6 DEF SpellsNode

LEMMA ArgsPlacedStay ==
  ASSUME ReadsOn, NEW ids, StayPut(ids), NEW kids \in Seq(ids), NEW own, NEW next,
         ArgsPlaced(kids, own, next)
  PROVE  ArgsPlaced(kids, own, next)'
<1> DEFINE n == Len(kids)
<1>1. n \in Nat /\ \A i \in 1 .. n : kids[i] \in ids
  BY LenProperties, ElementOfSeq
<1>2. \A i \in 1 .. n : FirstOf(kids[i])' = FirstOf(kids[i]) /\ LastOf(kids[i])' = LastOf(kids[i])
  BY <1>1 DEF StayPut, FirstOf, LastOf
<1>3. /\ n = 0 => next = own
      /\ n > 0 => FirstOf(kids[1]) = own /\ next = LastOf(kids[n]) + 2
      /\ \A i \in 1 .. n : IsComma(LastOf(kids[i]) + 1)
      /\ \A i \in 1 .. n - 1 : FirstOf(kids[i + 1]) = LastOf(kids[i]) + 2
  BY DEF ArgsPlaced
<1> HIDE DEF n
<1>4. n > 0 => FirstOf(kids[1])' = own /\ next = LastOf(kids[n])' + 2
  <2>1. n > 0 => 1 \in 1 .. n /\ n \in 1 .. n
    BY <1>1
  <2> QED
    BY <1>2, <1>3, <2>1
<1>5. \A i \in 1 .. n : IsComma(LastOf(kids[i]) + 1)'
  <2> TAKE i \in 1 .. n
  <2>1. IsComma(LastOf(kids[i]) + 1) /\ LastOf(kids[i])' = LastOf(kids[i])
    BY <1>2, <1>3
  <2> QED
    BY <2>1, TokensStay
<1>6. \A i \in 1 .. n - 1 : FirstOf(kids[i + 1])' = LastOf(kids[i])' + 2
  <2> TAKE i \in 1 .. n - 1
  <2>1. i \in 1 .. n /\ i + 1 \in 1 .. n
    BY <1>1
  <2>2. FirstOf(kids[i + 1])' = FirstOf(kids[i + 1]) /\ LastOf(kids[i])' = LastOf(kids[i])
    BY <1>2, <2>1
  <2> QED
    BY <1>3, <2>2
<1> QED
  BY <1>3, <1>4, <1>5, <1>6 DEF ArgsPlaced, n

LEMMA FramePlacedStays ==
  ASSUME ReadsOn, NEW ids, StayPut(ids), NEW f \in Frame(ids), Shape(f), NEW own, NEW next,
         FramePlaced(f, own, next)
  PROVE  FramePlaced(f, own, next)'
<1>1. f.kids \in Seq(ids)
  BY DEF Frame
<1>2. f.fn = "Expression" => next = own
  BY DEF FramePlaced
<1>3. ASSUME f.fn \in {"RHS", "Merge"}
      PROVE  /\ own = FirstOf(f.kids[1])'
             /\ IsPunct(LastOf(f.kids[1]) + 1, f.val)'
             /\ next = LastOf(f.kids[1])' + 2
  <2>1. f.kids[1] \in ids
    BY <1>1, <1>3, ElementOfSeq DEF Shape, Climbing
  <2>2. FirstOf(f.kids[1])' = FirstOf(f.kids[1]) /\ LastOf(f.kids[1])' = LastOf(f.kids[1])
    BY <2>1 DEF StayPut, FirstOf, LastOf
  <2>3. /\ own = FirstOf(f.kids[1]) /\ IsPunct(LastOf(f.kids[1]) + 1, f.val)
        /\ next = LastOf(f.kids[1]) + 2
    BY <1>3 DEF FramePlaced
  <2>4. IsPunct(LastOf(f.kids[1]) + 1, f.val)'
    BY <2>2, <2>3 DEF ReadsOn, IsPunct
  <2> QED
    BY <2>2, <2>3, <2>4
<1>4. f.fn = "Paren" => IsPunct(own, "(")' /\ next = own + 1
  BY TokensStay DEF FramePlaced
<1>5. f.fn = "Call" => /\ own = f.first
                       /\ Is(own, "identifier", f.val)' /\ IsPunct(own + 1, "(")'
                       /\ ArgsPlaced(f.kids, own + 2, next)'
  <2>1. f.fn = "Call" => /\ own = f.first
                         /\ Is(own, "identifier", f.val) /\ IsPunct(own + 1, "(")
                         /\ ArgsPlaced(f.kids, own + 2, next)
    BY DEF FramePlaced
  <2> QED
    BY <1>1, <2>1, TokensStay, ArgsPlacedStay
<1> QED
  BY <1>2, <1>3, <1>4, <1>5 DEF FramePlaced

LEMMA PlacedStays ==
  ASSUME ReadsOn, NEW ids, StayPut(ids), NEW s, StackOK(s, NodeIds), s \in Seq(Frame(ids)),
         proto' = proto, NEW here, Placed(s, here)
  PROVE  Placed(s, here)'
<1>1. PICK starts \in [1 .. Len(s) + 1 -> Int] :
        /\ starts[1] = BodyStart /\ starts[Len(s) + 1] = here
        /\ \A i \in 1 .. Len(s) : FramePlaced(s[i], starts[i], starts[i + 1])
  BY DEF Placed
<1>2. starts[1] = BodyStart'
  BY <1>1 DEF BodyStart
<1>3. ASSUME NEW i \in 1 .. Len(s) PROVE FramePlaced(s[i], starts[i], starts[i + 1])'
  <2>1. s[i] \in Frame(ids) /\ Shape(s[i])
    BY ElementOfSeq DEF StackOK
  <2>2. FramePlaced(s[i], starts[i], starts[i + 1])
    BY <1>1
  <2> DEFINE f == s[i]
             a == starts[i]
             b == starts[i + 1]
  <2> HIDE DEF f, a, b
  <2>3. FramePlaced(f, a, b)'
    BY <2>1, <2>2, FramePlacedStays DEF f, a, b
  <2> QED
    BY <2>3 DEF f, a, b
<1> QED
  BY <1>1, <1>2, <1>3 DEF Placed

\* The bottom of the stack waits for the body.
LEMMA PlacedEmpty ==
  ASSUME NEW here
  PROVE  /\ Placed(<<>>, here) => here = BodyStart
         /\ here = BodyStart' /\ here \in Int => Placed(<<>>, here)'
<1>1. Len(<<>>) = 0 /\ 1 .. 0 = {} /\ 1 \in 1 .. 1
  BY EmptySeq
<1>2. Placed(<<>>, here) => here = BodyStart
  BY <1>1 DEF Placed
<1>3. ASSUME here = BodyStart', here \in Int PROVE Placed(<<>>, here)'
  <2> DEFINE starts == [i \in 1 .. 1 |-> here]
  <2>1. starts \in [1 .. 1 -> Int] /\ starts[1] = here
    BY <1>3
  <2> HIDE DEF starts
  <2> DEFINE none == <<>>
  <2>2. Len(none) = 0
    BY <1>1
  <2> HIDE DEF none
  <2>3. Placed(none, here)'
    BY <1>3, <2>1, <2>2 DEF Placed
  <2> QED
    BY <2>3 DEF none
<1> QED
  BY <1>2, <1>3

LEMMA PlacedPush ==
  ASSUME NEW S, NEW s \in Seq(S), NEW f \in S, NEW here, NEW next \in Int,
         Placed(s, here)', FramePlaced(f, here, next)'
  PROVE  Placed(Append(s, f), next)'
<1> DEFINE n == Len(s)
           t == Append(s, f)
<1>1. PICK starts \in [1 .. n + 1 -> Int] :
        /\ starts[1] = BodyStart' /\ starts[n + 1] = here
        /\ \A i \in 1 .. n : FramePlaced(s[i], starts[i], starts[i + 1])'
  BY DEF Placed
<1>2. /\ n \in Nat /\ Len(t) = n + 1
      /\ \A i \in 1 .. n : t[i] = s[i]
      /\ t[n + 1] = f
  BY AppendLast, LenProperties
<1> HIDE DEF n, t
<1> DEFINE more == [i \in 1 .. n + 2 |-> IF i = n + 2 THEN next ELSE starts[i]]
<1>3. /\ more \in [1 .. n + 2 -> Int]
      /\ \A i \in 1 .. n + 1 : more[i] = starts[i]
      /\ more[n + 2] = next
  BY <1>2
<1> HIDE DEF more
<1>4. ASSUME NEW i \in 1 .. n + 1 PROVE FramePlaced(t[i], more[i], more[i + 1])'
  <2>1. CASE i \in 1 .. n
    <3>1. /\ t[i] = s[i] /\ more[i] = starts[i] /\ more[i + 1] = starts[i + 1]
      BY <1>2, <1>3, <2>1
    <3>2. FramePlaced(s[i], starts[i], starts[i + 1])'
      BY <1>1, <2>1
    <3> QED
      BY <3>1, <3>2
  <2>2. CASE i = n + 1
    <3>1. t[i] = f /\ more[i] = here /\ more[i + 1] = next
      BY <1>1, <1>2, <1>3, <2>2
    <3> QED
      BY <3>1
  <2> QED
    BY <1>2, <2>1, <2>2
<1>5. /\ more[1] = BodyStart' /\ more[Len(t) + 1] = next /\ more \in [1 .. Len(t) + 1 -> Int]
      /\ \A i \in 1 .. Len(t) : FramePlaced(t[i], more[i], more[i + 1])'
  <2>1. Len(t) + 1 = n + 2 /\ 1 \in 1 .. n + 1
    BY <1>2
  <2> QED
    BY <1>1, <1>2, <1>3, <1>4, <2>1
<1>6. Placed(t, next)'
  BY <1>5 DEF Placed
<1> QED
  BY <1>6 DEF t

LEMMA PlacedPop ==
  ASSUME NEW S, NEW s \in Seq(S), s # <<>>, NEW next, Placed(s, next)
  PROVE  \E here \in Int : Placed(Front(s), here) /\ FramePlaced(Last(s), here, next)
<1> DEFINE n == Len(s)
           t == Front(s)
<1>1. PICK starts \in [1 .. n + 1 -> Int] :
        /\ starts[1] = BodyStart /\ starts[n + 1] = next
        /\ \A i \in 1 .. n : FramePlaced(s[i], starts[i], starts[i + 1])
  BY DEF Placed
<1>2. /\ n \in Nat \ {0} /\ Len(t) = n - 1
      /\ \A i \in 1 .. n - 1 : t[i] = s[i]
      /\ Last(s) = s[n]
  BY FrontLast
<1> HIDE DEF n, t
<1> DEFINE less == [i \in 1 .. n |-> starts[i]]
<1>3. /\ less \in [1 .. n -> Int]
      /\ \A i \in 1 .. n : less[i] = starts[i]
  BY <1>2
<1> HIDE DEF less
<1>4. ASSUME NEW i \in 1 .. n - 1 PROVE FramePlaced(t[i], less[i], less[i + 1])
  <2>1. /\ t[i] = s[i] /\ less[i] = starts[i] /\ less[i + 1] = starts[i + 1] /\ i \in 1 .. n
    BY <1>2, <1>3
  <2>2. FramePlaced(s[i], starts[i], starts[i + 1])
    BY <1>1, <2>1
  <2> QED
    BY <2>1, <2>2
<1>5. /\ less[1] = BodyStart /\ Len(t) + 1 = n /\ n \in 1 .. n
  BY <1>1, <1>2, <1>3
<1>6. Placed(t, less[n])
  BY <1>2, <1>3, <1>4, <1>5 DEF Placed
<1>7. FramePlaced(Last(s), less[n], next) /\ less[n] \in Int
  BY <1>1, <1>2, <1>3, <1>5
<1> QED
  BY <1>6, <1>7 DEF t

-----------------------------------------------------------------------------
(***************************************************************************)
(* One step of the parser.                                                 *)
(***************************************************************************)
LEMMA CurrentToken ==
  ASSUME TypeInv, toks # <<>>
  PROVE  Len(toks) \in Nat \ {0} /\ IsPunct(Len(toks), CurTok)
<1>1. toks \in Seq(Token)
  BY DEF TypeInv, TypeOK
<1>2. Len(toks) \in Nat \ {0} /\ Last(toks) = toks[Len(toks)]
  BY <1>1, FrontLast
<1> QED
  BY <1>1, <1>2 DEF IsPunct, CurTok

LEMMA OneTokenOn ==
  ASSUME TypeInv, GetTok
  PROVE  Len(toks) \in Nat /\ Len(toks') = Len(toks) + 1 /\ ReadsOn
<1>1. PICK t : toks' = Append(toks, t)
  BY DEF GetTok
<1>2. toks \in Seq(Token) /\ toks' \in Seq(Token) /\ Len(toks) \in Nat /\ Len(toks') = Len(toks) + 1
  BY TokensDelivered, LenProperties DEF TypeInv, TypeOK
<1>3. \A i \in 1 .. Len(toks) : i \in 1 .. Len(toks') /\ toks'[i] = toks[i]
  BY <1>1, <1>2
<1>4. DOMAIN toks = 1 .. Len(toks) /\ DOMAIN toks' = 1 .. Len(toks')
  BY <1>2
<1> QED
  BY <1>2, <1>3, <1>4 DEF ReadsOn

LEMMA StepReadsOn ==
  ASSUME TypeInv, [Next]_vars
  PROVE  ReadsOn
<1>1. CASE UNCHANGED lexVars
  BY <1>1 DEF lexVars, ReadsOn
<1>2. CASE GetTok
  BY <1>2, OneTokenOn
<1> QED
  BY <1>1, <1>2, ReadsOrNot

LEMMA SameNodesStay ==
  ASSUME nodes' = nodes
  PROVE  \A ids : StayPut(ids)
BY DEF StayPut, FirstOf, LastOf

\* A node more: where it begins and ends, and that the others stay where they are.
LEMMA NodePlaced ==
  ASSUME TypeInv, NEW e, e.paren = 0, e.first \in Int, e.last \in Int, nodes' = Append(nodes, e)
  PROVE  /\ Len(nodes) \in Nat /\ Len(nodes') = Len(nodes) + 1
         /\ nodes'[Len(nodes')] = e
         /\ \A n : n = Len(nodes) + 1 => FirstOf(n)' = e.first /\ LastOf(n)' = e.last
         /\ \A n \in NodeIds : nodes'[n] = nodes[n]
         /\ StayPut(NodeIds)
<1> DEFINE N == Node(NodeIds)
           m == Len(nodes)
<1>1. nodes \in Seq(N)
  BY DEF TypeInv, TypeOK
<1> HIDE DEF N
<1>2. nodes \in Seq(N \cup {e}) /\ e \in N \cup {e}
  BY <1>1, SeqMonotonic
<1>3. /\ m \in Nat /\ Len(nodes') = m + 1
      /\ \A i \in 1 .. m : nodes'[i] = nodes[i]
      /\ nodes'[m + 1] = e
  BY <1>2, AppendLast, LenProperties
<1>4. \A n \in NodeIds : nodes'[n] = nodes[n]
  BY <1>3 DEF NodeIds
<1>5. StayPut(NodeIds)
  BY <1>4 DEF StayPut, FirstOf, LastOf
<1>6. \A n : n = m + 1 => FirstOf(n)' = e.first /\ LastOf(n)' = e.last
  BY <1>3 DEF FirstOf, LastOf
<1> QED
  BY <1>3, <1>4, <1>5, <1>6

\* The frames that stay on the stack stay in their places.
LEMMA FramesStay ==
  ASSUME TypeInv, ReadsOn, StayPut(NodeIds), proto' = proto,
         NEW s, s = stack \/ (stack # <<>> /\ s = Front(stack)), NEW here, Placed(s, here)
  PROVE  Placed(s, here)'
<1>1. StackOK(s, NodeIds)
  BY StackPop DEF TypeInv
<1> QED
  BY <1>1, PlacedStays DEF StackOK

LEMMA TopPlaced ==
  ASSUME TypeInv, stack # <<>>, NEW next, Placed(stack, next)
  PROVE  /\ \E here \in Int : Placed(Front(stack), here) /\ FramePlaced(Top, here, next)
         /\ Front(stack) \in Seq(Frame(NodeIds)) /\ Top \in Frame(NodeIds) /\ Shape(Top)
<1>1. stack \in Seq(Frame(NodeIds)) /\ StackOK(stack, NodeIds)
  BY DEF TypeInv, StackOK
<1>2. Front(stack) \in Seq(Frame(NodeIds)) /\ Top \in Frame(NodeIds) /\ Shape(Top)
  BY <1>1, StackPop DEF StackOK, Top
<1>3. \E here \in Int : Placed(Front(stack), here) /\ FramePlaced(Last(stack), here, next)
  BY <1>1, PlacedPop
<1> QED
  BY <1>2, <1>3 DEF Top

LEMMA TopFrame ==
  ASSUME TypeInv, stack # <<>>
  PROVE  Front(stack) \in Seq(Frame(NodeIds)) /\ Top \in Frame(NodeIds) /\ Shape(Top)
BY StackPop DEF TypeInv, StackOK, Top

\* The node a call returns, or that the loop has, has a place.
LEMMA NodeHasPlace ==
  ASSUME TypeInv, NEW n \in NodeIds
  PROVE  FirstOf(n) \in Int /\ LastOf(n) \in Int
<1>1. nodes[n] \in Node(NodeIds)
  BY ElementOfSeq DEF TypeInv, TypeOK, NodeIds
<1>2. nodes[n].first \in Int /\ nodes[n].last \in Int /\ nodes[n].paren \in Nat
  BY <1>1 DEF Node
<1> QED
  BY <1>2 DEF FirstOf, LastOf

\* The ways to a state in which OperandPlaced says something
LEMMA ToPrimary ==
  ASSUME pc' = "Primary", NEW s, s = stack', NEW here, here = Len(toks'), Placed(s, here)'
  PROVE  OperandPlaced'
BY DEF OperandPlaced

LEMMA ToReturn ==
  ASSUME pc' = "Return", NEW s, s = stack', NEW here, FirstOf(ret)' = here,
         LastOf(ret)' = Len(toks') - 1, Placed(s, here)'
  PROVE  OperandPlaced'
BY DEF OperandPlaced

LEMMA ToLoop ==
  ASSUME pc' = "Loop", NEW s, s = Front(stack'), NEW n, n = Last(stack').kids[1],
         NEW here, FirstOf(n)' = here, LastOf(n)' = Len(toks') - 1, Placed(s, here)'
  PROVE  OperandPlaced'
BY DEF OperandPlaced, Top

LEMMA ToElsewhere ==
  ASSUME \/ pc' \notin {"Primary", "Identifier", "Args", "Loop", "Return"}
         \/ pc' = "Return" /\ err' # "none"
  PROVE  OperandPlaced'
BY DEF OperandPlaced

\* The node made last spells its tokens.
LastSpelled == Len(nodes) > 0 => SpellsNode(nodes[Len(nodes)])

LEMMA FrontOfAppend ==
  ASSUME NEW S, NEW s \in Seq(S), NEW e \in S
  PROVE  Front(Append(s, e)) = s
<1> DEFINE t == Append(s, e)
           u == Front(t)
<1>1. /\ t \in Seq(S) /\ t # <<>> /\ Len(t) = Len(s) + 1 /\ Len(s) \in Nat
      /\ \A i \in 1 .. Len(s) : t[i] = s[i]
  BY AppendLast, LenProperties
<1> HIDE DEF t
<1>2. /\ u \in Seq(S) /\ Len(u) = Len(t) - 1
      /\ \A i \in 1 .. Len(t) - 1 : u[i] = t[i]
  BY <1>1, FrontLast
<1>3. Len(t) - 1 = Len(s)
  BY <1>1
<1>4. Len(u) = Len(s) /\ \A i \in 1 .. Len(s) : u[i] = s[i]
  BY <1>1, <1>2, <1>3
<1> HIDE DEF u
<1>5. u = s
  BY <1>2, <1>4, SeqEqual
<1> QED
  BY <1>5 DEF t, u

LEMMA AppendFront ==
  ASSUME NEW S, NEW s \in Seq(S), s # <<>>
  PROVE  s = Append(Front(s), Last(s))
<1> DEFINE u == Front(s)
           t == Append(u, Last(s))
<1>1. /\ u \in Seq(S) /\ Last(s) \in S /\ Last(s) = s[Len(s)] /\ Len(s) \in Nat \ {0}
      /\ Len(u) = Len(s) - 1
      /\ \A i \in 1 .. Len(s) - 1 : u[i] = s[i]
  BY FrontLast
<1> HIDE DEF u
<1>2. /\ t \in Seq(S) /\ Len(t) = Len(u) + 1 /\ t[Len(u) + 1] = Last(s)
      /\ \A i \in 1 .. Len(u) : t[i] = u[i]
  BY <1>1, AppendLast
<1> HIDE DEF t
<1>3. Len(t) = Len(s) /\ \A i \in 1 .. Len(s) : t[i] = s[i]
  BY <1>1, <1>2
<1>4. s = t
  BY <1>2, <1>3, SeqEqual
<1> QED
  BY <1>4 DEF t, u

-----------------------------------------------------------------------------
(***************************************************************************)
(* Operands.                                                               *)
(***************************************************************************)
\* A number
LEMMA NumberPlaced ==
  ASSUME TypeInv, SpellingInv, NumberExpr
  PROVE  OperandPlaced' /\ LastSpelled'
<1>0. \E s, here, v, none : s = stack /\ here = Len(toks) /\ v = real_num_value /\ none = <<>>
  OBVIOUS
<1> PICK s, here, v, none : s = stack /\ here = Len(toks) /\ v = real_num_value /\ none = <<>>
  BY <1>0
<1> DEFINE e == NewNode("Number", v, none, here, here)
<1>1. /\ pc = "Primary" /\ CurTok = "real_number" /\ GetTok /\ pc' = "Return"
      /\ nodes' = Append(nodes, e) /\ ret' = Len(nodes) + 1 /\ stack' = s /\ proto' = proto
  BY DEF NumberExpr, ReturnNew, defVars
<1>2. toks # <<>> /\ Placed(s, here) /\ Is(here, "real_number", v)
  BY <1>1 DEF TypeInv, TypeOK, SpellingInv, OperandPlaced, Registers
<1>3. here \in Nat \ {0} /\ Len(toks') = here + 1 /\ ReadsOn
  BY <1>1, <1>2, CurrentToken, OneTokenOn
<1>e. /\ e.kind = "Number" /\ e.val = v /\ e.first = here /\ e.last = here /\ e.paren = 0
  BY DEF NewNode
<1> HIDE DEF e
<1>4. /\ StayPut(NodeIds) /\ FirstOf(ret)' = here /\ LastOf(ret)' = here
      /\ nodes'[Len(nodes')] = e
  BY <1>1, <1>3, <1>e, NodePlaced
<1>5. Placed(s, here)' /\ Is(here, "real_number", v)'
  BY <1>1, <1>2, <1>3, <1>4, FramesStay, TokensStay
<1>6. OperandPlaced'
  BY <1>1, <1>3, <1>4, <1>5, ToReturn
<1>7. SpellsNode(e)'
  BY <1>5, <1>e DEF SpellsNode
<1> QED
  BY <1>4, <1>6, <1>7 DEF LastSpelled

LEMMA ParenPlaced ==
  ASSUME TypeInv, SpellingInv, ParenExpr
  PROVE  OperandPlaced'
<1>0. \E s, here, f, g : s = stack /\ here = Len(toks) /\ f = NewFrame("Paren") /\ g = NewFrame("Expression")
  OBVIOUS
<1> PICK s, here, f, g : s = stack /\ here = Len(toks) /\ f = NewFrame("Paren") /\ g = NewFrame("Expression")
  BY <1>0
<1>1. /\ pc = "Primary" /\ CurTok = "(" /\ GetTok /\ pc' = "Primary"
      /\ nodes' = nodes /\ stack' = Append(Append(s, f), g) /\ proto' = proto
  BY DEF ParenExpr, defVars
<1>2. toks # <<>> /\ Placed(s, here) /\ s \in Seq(Frame(NodeIds))
  BY <1>1 DEF TypeInv, TypeOK, SpellingInv, OperandPlaced
<1>3. here \in Nat \ {0} /\ Len(toks') = here + 1 /\ ReadsOn /\ IsPunct(here, "(")
  BY <1>1, <1>2, CurrentToken, OneTokenOn
<1>4. Placed(s, here)' /\ IsPunct(here, "(")'
  BY <1>1, <1>2, <1>3, SameNodesStay, FramesStay, TokensStay
<1>5. /\ f \in Frame(NodeIds) /\ f.fn = "Paren" /\ g \in Frame(NodeIds) /\ g.fn = "Expression"
  BY NewFrameType
<1>6. FramePlaced(f, here, here + 1)' /\ FramePlaced(g, here + 1, here + 1)'
  BY <1>4, <1>5 DEF FramePlaced
<1>7. Append(s, f) \in Seq(Frame(NodeIds)) /\ here + 1 \in Int
  BY <1>2, <1>3, <1>5, AppendLast
<1>8. Placed(Append(s, f), here + 1)'
  BY <1>2, <1>4, <1>5, <1>6, <1>7, PlacedPush
<1>9. Placed(Append(Append(s, f), g), here + 1)'
  BY <1>5, <1>6, <1>7, <1>8, PlacedPush
<1> QED
  BY <1>1, <1>3, <1>9, ToPrimary

LEMMA IdentifierPlaced ==
  ASSUME TypeInv, SpellingInv, IdentifierExpr
  PROVE  OperandPlaced'
<1>0. \E s, here, v : s = stack /\ here = Len(toks) /\ v = identifier_str
  OBVIOUS
<1> PICK s, here, v : s = stack /\ here = Len(toks) /\ v = identifier_str
  BY <1>0
<1> DEFINE f == [NewFrame("Call") EXCEPT !.val = v, !.first = here]
<1>1. /\ pc = "Primary" /\ CurTok = "identifier" /\ GetTok /\ pc' = "Identifier"
      /\ nodes' = nodes /\ stack' = Append(s, f) /\ proto' = proto
  BY DEF IdentifierExpr, Push, defVars
<1>2. toks # <<>> /\ Placed(s, here) /\ s \in Seq(Frame(NodeIds)) /\ Is(here, "identifier", v)
  BY <1>1 DEF TypeInv, TypeOK, SpellingInv, OperandPlaced, Registers
<1>3. here \in Nat \ {0} /\ Len(toks') = here + 1 /\ ReadsOn
  BY <1>1, <1>2, CurrentToken, OneTokenOn
<1>4. Placed(s, here)' /\ Is(here, "identifier", v)'
  BY <1>1, <1>2, <1>3, SameNodesStay, FramesStay, TokensStay
<1>5. f.val = v /\ f.first = here /\ f.kids = <<>>
  BY DEF NewFrame
<1> HIDE DEF f
<1>6. Front(stack') = s /\ Last(stack') = f
  <2> DEFINE F == Frame(NodeIds)
  <2>1. s \in Seq(F \cup {f}) /\ f \in F \cup {f}
    BY <1>2, SeqMonotonic
  <2> HIDE DEF F
  <2> QED
    BY <1>1, <2>1, AppendLast, FrontOfAppend
<1>7. Len(toks') - 1 = here
  BY <1>3
<1> QED
  BY <1>1, <1>4, <1>5, <1>6, <1>7 DEF OperandPlaced, Top

\* A variable: the name was eaten before.
LEMMA VariablePlaced ==
  ASSUME TypeInv, SpellingInv, IdentifierVariable
  PROVE  OperandPlaced' /\ LastSpelled'
<1>0. \E s, here, top, none : s = Front(stack) /\ here = Len(toks) - 1 /\ top = Top /\ none = <<>>
  OBVIOUS
<1> PICK s, here, top, none : s = Front(stack) /\ here = Len(toks) - 1 /\ top = Top /\ none = <<>>
  BY <1>0
<1> DEFINE e == NewNode("Variable", top.val, none, here, here)
<1>1. /\ pc = "Identifier" /\ pc' = "Return" /\ toks' = toks /\ ret' = Len(nodes) + 1
      /\ stack' = s /\ proto' = proto
      /\ nodes' = Append(nodes, NewNode("Variable", Top.val, <<>>, Top.first, Top.first))
  BY DEF IdentifierVariable, ReturnNew, Pop, lexVars, defVars
<1>2. /\ stack # <<>> /\ toks # <<>> /\ Placed(s, here) /\ Is(here, "identifier", top.val)
      /\ top.first = here
  BY <1>1 DEF TypeInv, TypeOK, TopOK, SpellingInv, OperandPlaced
<1>3. here \in Int /\ ReadsOn /\ here = Len(toks') - 1
  BY <1>1, <1>2, CurrentToken DEF ReadsOn
<1>e. /\ e.kind = "Variable" /\ e.val = top.val /\ e.first = here /\ e.last = here /\ e.paren = 0
      /\ nodes' = Append(nodes, e)
  BY <1>1, <1>2 DEF NewNode
<1> HIDE DEF e
<1>4. /\ StayPut(NodeIds) /\ FirstOf(ret)' = here /\ LastOf(ret)' = here
      /\ nodes'[Len(nodes')] = e
  BY <1>1, <1>3, <1>e, NodePlaced
<1>5. Placed(s, here)' /\ Is(here, "identifier", top.val)'
  BY <1>1, <1>2, <1>3, <1>4, FramesStay, TokensStay
<1>6. OperandPlaced'
  BY <1>1, <1>3, <1>4, <1>5, ToReturn
<1>7. SpellsNode(e)'
  BY <1>5, <1>e DEF SpellsNode
<1> QED
  BY <1>4, <1>6, <1>7 DEF LastSpelled

LEMMA CallPlaced ==
  ASSUME TypeInv, SpellingInv, IdentifierCall
  PROVE  OperandPlaced'
<1>0. \E s, here, top : s = Front(stack) /\ here = Len(toks) /\ top = Top
  OBVIOUS
<1> PICK s, here, top : s = Front(stack) /\ here = Len(toks) /\ top = Top
  BY <1>0
<1>1. /\ pc = "Identifier" /\ CurTok = "(" /\ GetTok /\ pc' = "Args"
      /\ nodes' = nodes /\ stack' = stack /\ proto' = proto
  BY DEF IdentifierCall, defVars
<1>2. /\ stack # <<>> /\ toks # <<>> /\ Placed(s, here - 1) /\ Is(here - 1, "identifier", top.val)
      /\ top.first = here - 1 /\ top.kids = <<>>
  BY <1>1 DEF TypeInv, TypeOK, TopOK, SpellingInv, OperandPlaced
<1>3. here \in Nat \ {0} /\ Len(toks') = here + 1 /\ ReadsOn /\ IsPunct(here, "(")
  BY <1>1, <1>2, CurrentToken, OneTokenOn
<1>4. Placed(s, here - 1)' /\ Is(here - 1, "identifier", top.val)' /\ IsPunct(here, "(")'
  BY <1>1, <1>2, <1>3, SameNodesStay, FramesStay, TokensStay
<1>5. Len(toks') - 2 = here - 1 /\ Len(toks') - 1 = here /\ Top' = top /\ Front(stack') = s
  BY <1>1, <1>3 DEF Top
<1> QED
  BY <1>1, <1>2, <1>4, <1>5 DEF OperandPlaced

\* The Call frame, before its first argument
LEMMA NoArgsPlaced ==
  ASSUME TypeInv, SpellingInv, pc = "Args", NEW here, here = Len(toks)
  PROVE  FramePlaced(Top, here - 2, here)
<1>0. \E none : none = <<>>
  OBVIOUS
<1> PICK none : none = <<>>
  BY <1>0
<1>1. /\ toks # <<>> /\ Is(here - 2, "identifier", Top.val) /\ IsPunct(here - 1, "(")
      /\ Top.first = here - 2 /\ Top.kids = none /\ Top.fn = "Call"
  BY DEF TypeInv, TypeOK, TopOK, SpellingInv, OperandPlaced
<1>2. here \in Nat \ {0} /\ here - 2 + 1 = here - 1 /\ here - 2 + 2 = here
  BY <1>1, CurrentToken
<1>3. Len(none) = 0
  BY EmptySeq
<1>4. ArgsPlaced(none, here, here)
  BY <1>3 DEF ArgsPlaced
<1> QED
  BY <1>1, <1>2, <1>4 DEF FramePlaced

LEMMA FirstArgPlaced ==
  ASSUME TypeInv, SpellingInv, CallFirstArg
  PROVE  OperandPlaced'
<1>0. \E s, here, top, f : s = Front(stack) /\ here = Len(toks) /\ top = Top /\ f = NewFrame("Expression")
  OBVIOUS
<1> PICK s, here, top, f : s = Front(stack) /\ here = Len(toks) /\ top = Top /\ f = NewFrame("Expression")
  BY <1>0
<1>1. /\ pc = "Args" /\ toks' = toks /\ pc' = "Primary"
      /\ nodes' = nodes /\ stack' = Append(stack, f) /\ proto' = proto
  BY DEF CallFirstArg, CallExpression, Push, lexVars, defVars
<1>2. /\ stack # <<>> /\ toks # <<>> /\ Placed(s, here - 2)
  BY <1>1 DEF TypeInv, TypeOK, TopOK, SpellingInv, OperandPlaced
<1>3. here \in Nat \ {0} /\ Len(toks') = here /\ ReadsOn
  BY <1>1, <1>2, CurrentToken DEF ReadsOn
<1>4. /\ s \in Seq(Frame(NodeIds)) /\ top \in Frame(NodeIds) /\ Shape(top)
      /\ stack \in Seq(Frame(NodeIds)) /\ stack = Append(s, top)
  BY <1>2, TopFrame, AppendFront DEF TypeInv, TypeOK, Top
<1>5. FramePlaced(top, here - 2, here)
  BY <1>1, NoArgsPlaced
<1>6. Placed(s, here - 2)' /\ FramePlaced(top, here - 2, here)'
  BY <1>1, <1>2, <1>3, <1>4, <1>5, SameNodesStay, FramesStay, FramePlacedStays
<1>7. f \in Frame(NodeIds) /\ f.fn = "Expression"
  BY NewFrameType
<1>8. FramePlaced(f, here, here)' /\ here \in Int
  BY <1>3, <1>7 DEF FramePlaced
<1>9. Placed(Append(s, top), here)'
  BY <1>4, <1>6, <1>8, PlacedPush
<1>10. Append(s, top) \in Seq(Frame(NodeIds))
  BY <1>4
<1>11. Placed(Append(Append(s, top), f), here)'
  BY <1>7, <1>8, <1>9, <1>10, PlacedPush
<1> QED
  BY <1>1, <1>3, <1>4, <1>11, ToPrimary

\* The end of an argument list
LEMMA ClosedPlaced ==
  ASSUME TypeInv, NEW args, CloseCall(args), stack # <<>>, toks # <<>>, ReadsOn,
         NEW here, here = Len(toks), NEW own \in Int, own = Top.first, Placed(Front(stack), own),
         \A e : e.kind = "Call" /\ e.val = Top.val /\ e.kids = args /\ e.first = own /\ e.last = here
                /\ e.paren = 0 /\ StayPut(NodeIds)
                => SpellsNode(e)'
  PROVE  OperandPlaced' /\ LastSpelled'
<1>0. \E s, top : s = Front(stack) /\ top = Top
  OBVIOUS
<1> PICK s, top : s = Front(stack) /\ top = Top
  BY <1>0
<1> DEFINE e == NewNode("Call", top.val, args, own, here)
<1>1. /\ GetTok /\ pc' = "Return" /\ nodes' = Append(nodes, e) /\ ret' = Len(nodes) + 1
      /\ stack' = s /\ proto' = proto
  BY DEF CloseCall, ReturnNew, Pop, defVars
<1>2. here \in Nat \ {0} /\ Len(toks') = here + 1
  BY <1>1, CurrentToken, OneTokenOn
<1>e. /\ e.kind = "Call" /\ e.val = top.val /\ e.kids = args
      /\ e.first = own /\ e.last = here /\ e.paren = 0
  BY DEF NewNode
<1> HIDE DEF e
<1>3. /\ StayPut(NodeIds) /\ FirstOf(ret)' = own /\ LastOf(ret)' = here
      /\ nodes'[Len(nodes')] = e
  BY <1>1, <1>2, <1>e, NodePlaced
<1>4. Placed(s, own)'
  BY <1>1, <1>3, FramesStay
<1>5. SpellsNode(e)'
  BY <1>3, <1>e
<1>6. OperandPlaced'
  BY <1>1, <1>2, <1>3, <1>4, ToReturn
<1> QED
  BY <1>3, <1>5, <1>6 DEF LastSpelled

LEMMA EmptyCallPlaced ==
  ASSUME TypeInv, SpellingInv, CallNoArgs
  PROVE  OperandPlaced' /\ LastSpelled'
<1>0. \E here, top, none : here = Len(toks) /\ top = Top /\ none = <<>>
  OBVIOUS
<1> PICK here, top, none : here = Len(toks) /\ top = Top /\ none = <<>>
  BY <1>0
<1>1. pc = "Args" /\ CurTok = ")" /\ GetTok /\ CloseCall(none)
  BY DEF CallNoArgs, CloseCall
<1>2. /\ stack # <<>> /\ toks # <<>> /\ Placed(Front(stack), here - 2)
      /\ Is(here - 2, "identifier", top.val) /\ IsPunct(here - 1, "(") /\ Top.first = here - 2
  BY <1>1 DEF TypeInv, TypeOK, TopOK, SpellingInv, OperandPlaced
<1>3. here \in Nat \ {0} /\ ReadsOn /\ IsPunct(here, ")")
  BY <1>1, <1>2, CurrentToken, OneTokenOn
<1>4. /\ Is(here - 2, "identifier", top.val)' /\ IsPunct(here - 1, "(")' /\ IsPunct(here, ")")'
  BY <1>2, <1>3, TokensStay
<1>5. Len(none) = 0 /\ here - 2 + 1 = here - 1 /\ here - 2 + 2 = here /\ here - 2 \in Int
  BY <1>3, EmptySeq
<1>6. ASSUME NEW e, e.kind = "Call", e.val = Top.val, e.kids = none,
             e.first = here - 2, e.last = here, e.paren = 0
      PROVE  SpellsNode(e)'
  BY <1>4, <1>5, <1>6 DEF SpellsNode
<1>7. \E own : own = here - 2
  OBVIOUS
<1> PICK own : own = here - 2
  BY <1>7
<1>8. \A e : e.kind = "Call" /\ e.val = Top.val /\ e.kids = none /\ e.first = own /\ e.last = here
             /\ e.paren = 0 /\ StayPut(NodeIds)
             => SpellsNode(e)'
  BY <1>6
<1>9. own \in Int /\ own = Top.first /\ Placed(Front(stack), own)
  BY <1>2, <1>5
<1> QED
  BY <1>1, <1>2, <1>3, <1>8, <1>9, ClosedPlaced

\* One argument more, with the comma after it, or with the ')' that ends the list
LEMMA OneArgMore ==
  ASSUME NEW ids, NEW kids \in Seq(ids), NEW r \in ids, NEW own, NEW here \in Int, NEW more,
         ArgsPlaced(kids, own, FirstOf(r)), LastOf(r) = here - 1, more = Append(kids, r)
  PROVE  (IsComma(here) => ArgsPlaced(more, own, here + 1)) /\ ArgsClosed(more, own, here)
<1> DEFINE m == Len(kids)
<1>1. /\ m \in Nat /\ Len(more) = m + 1 /\ more[m + 1] = r
      /\ \A i \in 1 .. m : more[i] = kids[i]
  BY AppendLast, LenProperties
<1>2. /\ m = 0 => FirstOf(r) = own
      /\ m > 0 => FirstOf(kids[1]) = own /\ FirstOf(r) = LastOf(kids[m]) + 2
      /\ \A i \in 1 .. m : IsComma(LastOf(kids[i]) + 1)
      /\ \A i \in 1 .. m - 1 : FirstOf(kids[i + 1]) = LastOf(kids[i]) + 2
  BY DEF ArgsPlaced
<1> HIDE DEF m
<1>3. FirstOf(more[1]) = own
  <2>1. CASE m = 0
    BY <1>1, <1>2, <2>1
  <2>2. CASE m > 0
    <3>1. more[1] = kids[1]
      BY <1>1, <2>2
    <3> QED
      BY <1>2, <2>2, <3>1
  <2> QED
    BY <1>1, <2>1, <2>2
<1>4. LastOf(more[m + 1]) = here - 1
  BY <1>1
<1>5. \A i \in 1 .. m : IsComma(LastOf(more[i]) + 1)
  <2> TAKE i \in 1 .. m
  <2>1. more[i] = kids[i] /\ IsComma(LastOf(kids[i]) + 1)
    BY <1>1, <1>2
  <2> QED
    BY <2>1
<1>6. \A i \in 1 .. m : FirstOf(more[i + 1]) = LastOf(more[i]) + 2
  <2> TAKE i \in 1 .. m
  <2>1. CASE i = m
    <3>1. more[i] = kids[m] /\ more[i + 1] = r /\ m > 0
      BY <1>1, <2>1
    <3> QED
      BY <1>2, <3>1
  <2>2. CASE i \in 1 .. m - 1
    <3>1. more[i] = kids[i] /\ more[i + 1] = kids[i + 1]
      BY <1>1, <2>2
    <3>2. FirstOf(kids[i + 1]) = LastOf(kids[i]) + 2
      BY <1>2, <2>2
    <3> QED
      BY <3>1, <3>2
  <2> QED
    BY <1>1, <2>1, <2>2
<1>7. ASSUME IsComma(here) PROVE ArgsPlaced(more, own, here + 1)
  <2>1. LastOf(more[m + 1]) + 2 = here + 1 /\ LastOf(more[m + 1]) + 1 = here
    BY <1>4
  <2>2. \A i \in 1 .. m + 1 : IsComma(LastOf(more[i]) + 1)
    <3> TAKE i \in 1 .. m + 1
    <3>1. i \in 1 .. m \/ i = m + 1
      BY <1>1
    <3> QED
      BY <1>5, <1>7, <2>1, <3>1
  <2> DEFINE n == Len(more)
  <2>3. n # 0 /\ n - 1 = m /\ n = m + 1
    BY <1>1
  <2>4. here + 1 = LastOf(more[n]) + 2
    BY <2>1, <2>3
  <2>5. \A i \in 1 .. n : IsComma(LastOf(more[i]) + 1)
    BY <2>2, <2>3
  <2>6. \A i \in 1 .. n - 1 : FirstOf(more[i + 1]) = LastOf(more[i]) + 2
    BY <1>6, <2>3
  <2> QED
    BY <1>3, <2>3, <2>4, <2>5, <2>6 DEF ArgsPlaced
<1>8. ArgsClosed(more, own, here)
  <2> DEFINE n == Len(more)
  <2>1. n \in Nat /\ n > 0 /\ n - 1 = m /\ n = m + 1
    BY <1>1
  <2> HIDE DEF n
  <2>2. LastOf(more[n]) = here - 1
    BY <1>4, <2>1
  <2>3. \A i \in 1 .. n - 1 : /\ IsComma(LastOf(more[i]) + 1)
                              /\ FirstOf(more[i + 1]) = LastOf(more[i]) + 2
    BY <1>5, <1>6, <2>1
  <2> QED
    BY <1>3, <2>1, <2>2, <2>3 DEF ArgsClosed, n
<1> QED
  BY <1>7, <1>8

LEMMA CallArgPlaced ==
  ASSUME TypeInv, SpellingInv, CallArg
  PROVE  OperandPlaced' /\ (CurTok = ")" => LastSpelled')
<1>0. \E s, here, top, r : s = Front(stack) /\ here = Len(toks) /\ top = Top /\ r = ret
  OBVIOUS
<1> PICK s, here, top, r : s = Front(stack) /\ here = Len(toks) /\ top = Top /\ r = ret
  BY <1>0
<1> DEFINE more == Append(top.kids, r)
<1> HIDE DEF more
<1>1. /\ pc = "Return" /\ err = "none" /\ stack # <<>> /\ top.fn = "Call"
  BY DEF CallArg, Returning
<1>2. /\ toks # <<>> /\ r \in NodeIds /\ LastOf(r) = here - 1 /\ Placed(stack, FirstOf(r))
  BY <1>1, LenProperties DEF TypeInv, TypeOK, SpellingInv, OperandPlaced, NodeIds
<1>3. here \in Nat \ {0} /\ IsPunct(here, CurTok)
  BY <1>2, CurrentToken
<1>4. PICK own \in Int : Placed(s, own) /\ FramePlaced(top, own, FirstOf(r))
  BY <1>1, <1>2, TopPlaced
<1>5. /\ s \in Seq(Frame(NodeIds)) /\ top \in Frame(NodeIds) /\ Shape(top) /\ top.kids \in Seq(NodeIds)
  BY <1>1, TopFrame DEF Frame
<1>6. /\ own = top.first /\ Is(own, "identifier", top.val) /\ IsPunct(own + 1, "(")
      /\ ArgsPlaced(top.kids, own + 2, FirstOf(r))
  BY <1>1, <1>4 DEF FramePlaced
<1> DEFINE n == Len(more)
<1>7. (IsComma(here) => ArgsPlaced(more, own + 2, here + 1)) /\ ArgsClosed(more, own + 2, here)
  <2>1. /\ top.kids \in Seq(NodeIds) /\ r \in NodeIds /\ here \in Int
        /\ ArgsPlaced(top.kids, own + 2, FirstOf(r)) /\ LastOf(r) = here - 1
        /\ more = Append(top.kids, r)
    BY <1>2, <1>3, <1>5, <1>6 DEF more
  <2> QED
    BY <2>1, OneArgMore
<1> HIDE DEF n
<1>8. more \in Seq(NodeIds)
  BY <1>2, <1>5, AppendLast DEF more
<1>9. CASE CurTok = ")"
  <2>1. CloseCall(more) /\ GetTok
    BY <1>9 DEF CallArg, CloseCall, more
  <2>2. ReadsOn /\ IsPunct(here, ")")
    BY <1>3, <1>9, <2>1, OneTokenOn
  <2>3. ASSUME NEW e, e.kind = "Call", e.val = top.val, e.kids = more,
               e.first = own, e.last = here, e.paren = 0, StayPut(NodeIds)
        PROVE  SpellsNode(e)'
    <3>1. SpellsNode(e)
      <4>1. \A i \in 1 .. e.paren : IsPunct(e.first - i, "(") /\ IsPunct(e.last + i, ")")
        BY <2>3
      <4>2. /\ Is(e.first, "identifier", e.val) /\ IsPunct(e.first + 1, "(") /\ IsPunct(e.last, ")")
        BY <1>6, <2>2, <2>3
      <4>3. /\ n # 0 /\ FirstOf(e.kids[1]) = e.first + 2 /\ LastOf(e.kids[n]) = e.last - 1
            /\ \A i \in 1 .. n - 1 : /\ IsComma(LastOf(e.kids[i]) + 1)
                                     /\ FirstOf(e.kids[i + 1]) = LastOf(e.kids[i]) + 2
        BY <1>7, <2>3 DEF ArgsClosed, n
      <4>4. n = Len(e.kids)
        BY <2>3 DEF n
      <4> QED
        <5>1. /\ (e.kind = "Number") = FALSE /\ (e.kind = "Variable") = FALSE /\ (e.kind = "Binary") = FALSE
              /\ (Len(e.kids) = 0) = FALSE
          BY <2>3, <4>3, <4>4
        <5> QED
          BY <4>1, <4>2, <4>3, <4>4, <5>1, Zenon DEF SpellsNode, IsComma
    <3> QED
      BY <1>8, <2>2, <2>3, <3>1, SpellsNodeStays
  <2>4. \A e : e.kind = "Call" /\ e.val = Top.val /\ e.kids = more /\ e.first = own /\ e.last = here
               /\ e.paren = 0 /\ StayPut(NodeIds)
               => SpellsNode(e)'
    BY <2>3
  <2>5. own = Top.first /\ Placed(Front(stack), own)
    BY <1>4, <1>6
  <2>6. here = Len(toks)
    OBVIOUS
  <2>7. OperandPlaced' /\ LastSpelled'
    BY <1>1, <1>2, <2>1, <2>2, <2>4, <2>5, <2>6, ClosedPlaced
  <2> QED
    BY <2>7
<1> DEFINE f == [top EXCEPT !.kids = more]
           g == NewFrame("Expression")
<1>10. ASSUME IsComma(here), GetTok, pc' = "Primary", nodes' = nodes, proto' = proto,
              stack' = Append(Append(s, f), g)
       PROVE  OperandPlaced'
  <2>2. Len(toks') = here + 1 /\ ReadsOn /\ here \in Int
    BY <1>2, <1>3, <1>10, OneTokenOn
  <2>3. f \in Frame(NodeIds) /\ f.fn = "Call" /\ f.val = top.val /\ f.first = top.first /\ f.kids = more
    BY <1>1, <1>5, <1>8 DEF Frame
  <2> HIDE DEF f
  <2>4. FramePlaced(f, own, here + 1)
    BY <1>6, <1>7, <1>10, <2>3 DEF FramePlaced
  <2>5. Shape(f)
    BY <2>3 DEF Shape, Climbing
  <2>s. StayPut(NodeIds)
    BY <1>10, SameNodesStay
  <2>p. FramePlaced(f, own, here + 1)'
    BY <2>2, <2>3, <2>4, <2>5, <2>s, FramePlacedStays
  <2>6. Placed(s, own)' /\ FramePlaced(f, own, here + 1)'
    <3>1. Placed(s, own)'
      BY <1>1, <1>4, <1>10, <2>2, <2>s, FramesStay
    <3> QED
      BY <2>p, <3>1
  <2>7. g \in Frame(NodeIds) /\ g.fn = "Expression" /\ here + 1 \in Int
    <3>1. here + 1 \in Int
      BY <1>3
    <3>2. "Expression" \in {"Expression", "BinOpRHS", "RHS", "Merge", "Paren", "Call"}
      OBVIOUS
    <3>3. g \in Frame(NodeIds) /\ g.fn = "Expression"
      BY <3>2, NewFrameType, Zenon
    <3> QED
      BY <3>1, <3>3
  <2> HIDE DEF g
  <2>8. FramePlaced(g, here + 1, here + 1)'
    BY <2>7 DEF FramePlaced
  <2>9. Placed(Append(s, f), here + 1)' /\ Append(s, f) \in Seq(Frame(NodeIds))
    BY <1>5, <2>3, <2>6, <2>7, PlacedPush, AppendLast
  <2>10. Placed(Append(Append(s, f), g), here + 1)'
    BY <2>7, <2>8, <2>9, PlacedPush
  <2> QED
    BY <1>10, <2>2, <2>10, ToPrimary
<1>c. CASE CurTok = ","
  <2>1. IsComma(here)
    BY <1>3, <1>c, Zenon DEF IsComma
  <2>2. /\ GetTok /\ pc' = "Primary" /\ nodes' = nodes /\ proto' = proto
        /\ stack' = Append(Append(s, f), g)
    BY <1>5, <1>c DEF CallArg, ReplaceAndPush, Frame, defVars, more
  <2> QED
    BY <1>10, <1>c, <2>1, <2>2, Zenon
<1>11. CASE CurTok \notin {")", ","}
  <2>1. \E e \in Error : Fail(e)
    BY <1>11 DEF CallArg, Error
  <2> QED
    BY <1>11, <2>1, ToElsewhere DEF Fail, Error
<1> QED
  BY <1>9, <1>c, <1>11


-----------------------------------------------------------------------------
(***************************************************************************)
(* ParseBinOpRHS.                                                          *)
(***************************************************************************)
LEMMA ExpressionPlaced ==
  ASSUME TypeInv, SpellingInv, ExpressionOperand
  PROVE  OperandPlaced'
<1>0. \E s, here, r : s = Front(stack) /\ here = Len(toks) /\ r = ret
  OBVIOUS
<1> PICK s, here, r : s = Front(stack) /\ here = Len(toks) /\ r = ret
  BY <1>0
<1> DEFINE f == [NewFrame("BinOpRHS") EXCEPT !.kids = <<r>>]
<1>1. /\ pc = "Return" /\ err = "none" /\ stack # <<>> /\ Top.fn = "Expression"
      /\ stack' = Append(s, f) /\ pc' = "Loop" /\ toks' = toks /\ nodes' = nodes /\ proto' = proto
  BY DEF ExpressionOperand, Returning, Replace, lexVars, defVars
<1>2. /\ LastOf(r) = here - 1 /\ Placed(stack, FirstOf(r))
  BY <1>1 DEF SpellingInv, OperandPlaced
<1>3. PICK own \in Int : Placed(s, own) /\ FramePlaced(Top, own, FirstOf(r))
  BY <1>1, <1>2, TopPlaced
<1>4. own = FirstOf(r)
  BY <1>1, <1>3 DEF FramePlaced
<1>5. f.kids[1] = r
  BY DEF NewFrame
<1> HIDE DEF f
<1>6. Front(stack') = s /\ Last(stack') = f
  <2> DEFINE F == Frame(NodeIds)
  <2>1. s \in Seq(F \cup {f}) /\ f \in F \cup {f}
    BY <1>1, TopFrame, SeqMonotonic
  <2> HIDE DEF F
  <2> QED
    BY <1>1, <2>1, AppendLast, FrontOfAppend
<1>7. ReadsOn /\ StayPut(NodeIds) /\ FirstOf(r)' = FirstOf(r) /\ LastOf(r)' = LastOf(r)
  <2>1. ReadsOn /\ StayPut(NodeIds)
    BY <1>1, SameNodesStay DEF ReadsOn
  <2>2. FirstOf(r)' = FirstOf(r) /\ LastOf(r)' = LastOf(r)
    BY <1>1 DEF FirstOf, LastOf
  <2> QED
    BY <2>1, <2>2
<1>8. Placed(s, own)'
  BY <1>1, <1>3, <1>7, FramesStay
<1>9. LastOf(r)' = Len(toks') - 1 /\ FirstOf(r)' = own
  BY <1>1, <1>2, <1>4, <1>7
<1> QED
  BY <1>1, <1>5, <1>6, <1>8, <1>9, ToLoop

LEMMA BinOpDonePlaced ==
  ASSUME TypeInv, SpellingInv, BinOpDone
  PROVE  OperandPlaced'
<1>0. \E s, here, k, own : s = Front(stack) /\ here = Len(toks) /\ k = Top.kids[1] /\ own = FirstOf(k)
  OBVIOUS
<1> PICK s, here, k, own : s = Front(stack) /\ here = Len(toks) /\ k = Top.kids[1] /\ own = FirstOf(k)
  BY <1>0
<1>1. /\ pc = "Loop" /\ pc' = "Return" /\ ret' = k /\ stack' = s
      /\ toks' = toks /\ nodes' = nodes /\ proto' = proto
  BY DEF BinOpDone, Pop, lexVars, defVars
<1>2. stack # <<>> /\ LastOf(k) = here - 1 /\ Placed(s, own)
  BY <1>1 DEF TypeInv, TopOK, SpellingInv, OperandPlaced
<1>3. ReadsOn /\ StayPut(NodeIds) /\ FirstOf(ret)' = own /\ LastOf(ret)' = LastOf(k)
  <2>1. ReadsOn /\ StayPut(NodeIds)
    BY <1>1, SameNodesStay DEF ReadsOn
  <2>2. FirstOf(ret)' = own /\ LastOf(ret)' = LastOf(k)
    BY <1>1 DEF FirstOf, LastOf
  <2> QED
    BY <2>1, <2>2
<1>4. Placed(s, own)'
  BY <1>1, <1>2, <1>3, FramesStay
<1> QED
  BY <1>1, <1>2, <1>3, <1>4, ToReturn

\* The first operand, and the operator after it
LEMMA OperatorPlaced ==
  ASSUME TypeInv, SpellingInv, BinOpOperator
  PROVE  OperandPlaced'
<1>0. \E s, here, top, k, c, own :
        s = Front(stack) /\ here = Len(toks) /\ top = Top /\ k = Top.kids[1] /\ c = CurTok /\ own = FirstOf(k)
  OBVIOUS
<1> PICK s, here, top, k, c, own :
        s = Front(stack) /\ here = Len(toks) /\ top = Top /\ k = Top.kids[1] /\ c = CurTok /\ own = FirstOf(k)
  BY <1>0
<1> DEFINE f == [top EXCEPT !.fn = "RHS", !.val = c]
<1>1. /\ pc = "Loop" /\ pc' = "Primary" /\ GetTok /\ stack' = Append(s, f)
      /\ nodes' = nodes /\ proto' = proto
  BY DEF BinOpOperator, Replace, defVars
<1>2. stack # <<>> /\ toks # <<>> /\ top.fn = "BinOpRHS" /\ LastOf(k) = here - 1 /\ Placed(s, own)
  BY <1>1 DEF TypeInv, TypeOK, TopOK, SpellingInv, OperandPlaced
<1>3. here \in Nat \ {0} /\ Len(toks') = here + 1 /\ ReadsOn /\ IsPunct(here, c)
  BY <1>1, <1>2, CurrentToken, OneTokenOn
<1>4. Placed(s, own)' /\ IsPunct(here, c)'
  BY <1>1, <1>2, <1>3, SameNodesStay, FramesStay, TokensStay
<1>5. s \in Seq(Frame(NodeIds)) /\ top \in Frame(NodeIds)
  BY <1>2, TopFrame
<1>6. f.fn = "RHS" /\ f.val = c /\ f.kids = top.kids /\ f.kids[1] = k
  BY <1>5 DEF Frame
<1> HIDE DEF f
<1>7. FirstOf(k)' = own /\ LastOf(k)' = here - 1
  BY <1>1, <1>2 DEF FirstOf, LastOf
<1>8. here - 1 + 1 = here /\ here - 1 + 2 = here + 1 /\ here + 1 \in Int
  BY <1>3
<1>9. FramePlaced(f, own, here + 1)'
  BY <1>4, <1>6, <1>7, <1>8 DEF FramePlaced
<1>10. Placed(Append(s, f), here + 1)'
  <2> DEFINE F == Frame(NodeIds)
  <2>1. s \in Seq(F \cup {f}) /\ f \in F \cup {f}
    BY <1>5, SeqMonotonic
  <2> HIDE DEF F
  <2> QED
    BY <1>4, <1>8, <1>9, <2>1, PlacedPush
<1> QED
  BY <1>1, <1>3, <1>10, ToPrimary

\* A tighter operator follows: the operand becomes the first operand of a new call.
LEMMA TighterPlaced ==
  ASSUME TypeInv, SpellingInv, Returning("RHS"),
         stack' = Append(Append(Front(stack), [Top EXCEPT !.fn = "Merge"]),
                         [NewFrame("BinOpRHS") EXCEPT !.prec = RecursionPrec(Top.val),
                                                      !.kids = <<ret>>]),
         pc' = "Loop", toks' = toks, nodes' = nodes, proto' = proto
  PROVE  OperandPlaced'
<1>0. \E s, here, top, r, p :
        s = Front(stack) /\ here = Len(toks) /\ top = Top /\ r = ret /\ p = RecursionPrec(Top.val)
  OBVIOUS
<1> PICK s, here, top, r, p :
        s = Front(stack) /\ here = Len(toks) /\ top = Top /\ r = ret /\ p = RecursionPrec(Top.val)
  BY <1>0
<1> DEFINE f == [top EXCEPT !.fn = "Merge"]
           g == [NewFrame("BinOpRHS") EXCEPT !.prec = p, !.kids = <<r>>]
<1>1. /\ pc = "Return" /\ err = "none" /\ stack # <<>> /\ top.fn = "RHS"
      /\ stack' = Append(Append(s, f), g)
  BY DEF Returning
<1>2. LastOf(r) = here - 1 /\ Placed(stack, FirstOf(r)) /\ r \in NodeIds
  BY <1>1 DEF TypeInv, TypeOK, SpellingInv, OperandPlaced, NodeIds
<1>3. PICK own \in Int : Placed(s, own) /\ FramePlaced(top, own, FirstOf(r))
  BY <1>1, <1>2, TopPlaced
<1>4. s \in Seq(Frame(NodeIds)) /\ top \in Frame(NodeIds) /\ Shape(top)
  BY <1>1, TopFrame
<1>5. f \in Frame(NodeIds) /\ f.fn = "Merge" /\ f.val = top.val /\ f.kids = top.kids
  BY <1>4 DEF Frame
<1>6. g.kids[1] = r
  BY DEF NewFrame
<1> HIDE DEF f, g
<1>7. FramePlaced(f, own, FirstOf(r)) /\ Shape(f)
  BY <1>1, <1>3, <1>4, <1>5 DEF FramePlaced, Shape, Climbing
<1>8. ReadsOn /\ StayPut(NodeIds) /\ FirstOf(r)' = FirstOf(r) /\ LastOf(r)' = LastOf(r)
  <2>1. ReadsOn /\ StayPut(NodeIds)
    BY SameNodesStay DEF ReadsOn
  <2>2. FirstOf(r)' = FirstOf(r) /\ LastOf(r)' = LastOf(r)
    BY DEF FirstOf, LastOf
  <2> QED
    BY <2>1, <2>2
<1>9. \E next : next = FirstOf(r)
  OBVIOUS
<1> PICK next : next = FirstOf(r)
  BY <1>9
<1>10. Placed(s, own)' /\ FramePlaced(f, own, next)' /\ next \in Int
  BY <1>1, <1>2, <1>3, <1>5, <1>7, <1>8, FramesStay, FramePlacedStays, NodeHasPlace
<1>11. Placed(Append(s, f), next)' /\ Append(s, f) \in Seq(Frame(NodeIds))
  BY <1>4, <1>5, <1>10, PlacedPush, AppendLast
<1>12. Front(stack') = Append(s, f) /\ Last(stack') = g
  <2> DEFINE F == Frame(NodeIds)
             t == Append(s, f)
  <2>1. t \in Seq(F \cup {g}) /\ g \in F \cup {g}
    BY <1>11, SeqMonotonic
  <2> HIDE DEF F, t
  <2>2. Front(Append(t, g)) = t /\ Last(Append(t, g)) = g
    BY <2>1, AppendLast, FrontOfAppend
  <2> QED
    BY <1>1, <2>2 DEF t
<1>13. LastOf(r)' = Len(toks') - 1 /\ FirstOf(r)' = next
  BY <1>2, <1>8
<1> QED
  BY <1>6, <1>11, <1>12, <1>13, ToLoop

\* The node made of two operands
LEMMA MergePlaced ==
  ASSUME TypeInv, SpellingInv, pc = "Return", err = "none", stack # <<>>, Top.fn \in {"RHS", "Merge"},
         MergeOperands(ret)
  PROVE  OperandPlaced' /\ LastSpelled'
<1>0. \E s, here, top, r, k, m :
        /\ s = Front(stack) /\ here = Len(toks) /\ top = Top /\ r = ret
        /\ k = Top.kids[1] /\ m = Len(nodes) + 1
  OBVIOUS
<1> PICK s, here, top, r, k, m :
        /\ s = Front(stack) /\ here = Len(toks) /\ top = Top /\ r = ret
        /\ k = Top.kids[1] /\ m = Len(nodes) + 1
  BY <1>0
<1>1. /\ toks # <<>> /\ LastOf(r) = here - 1 /\ Placed(stack, FirstOf(r)) /\ r \in NodeIds
  BY DEF TypeInv, TypeOK, SpellingInv, OperandPlaced, NodeIds
<1>2. PICK own \in Int : Placed(s, own) /\ FramePlaced(top, own, FirstOf(r))
  BY <1>1, TopPlaced
<1>3. s \in Seq(Frame(NodeIds)) /\ top \in Frame(NodeIds) /\ Shape(top) /\ k \in NodeIds
  <2>1. s \in Seq(Frame(NodeIds)) /\ top \in Frame(NodeIds) /\ Shape(top)
    BY TopFrame
  <2>2. top.kids \in Seq(NodeIds) /\ Len(top.kids) = 1
    BY <2>1 DEF Frame, Shape, Climbing
  <2> QED
    BY <2>1, <2>2, ElementOfSeq
<1>4. /\ own = FirstOf(k) /\ IsPunct(LastOf(k) + 1, top.val) /\ FirstOf(r) = LastOf(k) + 2
  BY <1>2 DEF FramePlaced
<1>5. here \in Nat \ {0} /\ LastOf(k) \in Int
  BY <1>1, <1>3, CurrentToken, NodeHasPlace
<1> DEFINE both == <<k, r>>
           e == NewNode("Binary", top.val, both, own, here - 1)
           f == [top EXCEPT !.fn = "BinOpRHS", !.val = "", !.kids = <<m>>]
<1>6. /\ nodes' = Append(nodes, e) /\ stack' = Append(s, f)
      /\ pc' = "Loop" /\ toks' = toks /\ proto' = proto
  BY <1>1, <1>4 DEF MergeOperands, Replace, lexVars, defVars
<1>7. f.kids[1] = m
  BY <1>3 DEF Frame
<1>8. both \in Seq(NodeIds) /\ Len(both) = 2 /\ both[1] = k /\ both[2] = r
  BY <1>1, <1>3
<1> HIDE DEF both
<1>e. /\ e.kind = "Binary" /\ e.val = top.val /\ e.kids = both
      /\ e.first = own /\ e.last = here - 1 /\ e.paren = 0
  BY DEF NewNode
<1> HIDE DEF e, f
<1>9. /\ StayPut(NodeIds) /\ FirstOf(m)' = own /\ LastOf(m)' = here - 1
      /\ nodes'[Len(nodes')] = e
  BY <1>5, <1>6, <1>e, NodePlaced
<1>10. ReadsOn /\ Placed(s, own)'
  BY <1>2, <1>6, <1>9, FramesStay DEF ReadsOn
<1>11. Front(stack') = s /\ Last(stack') = f
  <2> DEFINE F == Frame(NodeIds)
  <2>1. s \in Seq(F \cup {f}) /\ f \in F \cup {f}
    BY <1>3, SeqMonotonic
  <2> HIDE DEF F
  <2> QED
    BY <1>6, <2>1, AppendLast, FrontOfAppend
<1>12. OperandPlaced'
  <2>1. LastOf(m)' = Len(toks') - 1
    BY <1>6, <1>9
  <2> QED
    BY <1>6, <1>7, <1>9, <1>10, <1>11, <2>1, ToLoop
<1>13. SpellsNode(e)
  <2>1. \A i \in 1 .. e.paren : IsPunct(e.first - i, "(") /\ IsPunct(e.last + i, ")")
    BY <1>e
  <2>2. /\ e.first = FirstOf(e.kids[1]) /\ e.last = LastOf(e.kids[2])
        /\ IsPunct(LastOf(e.kids[1]) + 1, e.val) /\ FirstOf(e.kids[2]) = LastOf(e.kids[1]) + 1 + 1
    BY <1>1, <1>4, <1>5, <1>8, <1>e
  <2>3. e.kind = "Binary"
    BY <1>e
  <2> QED
    BY <2>1, <2>2, <2>3 DEF SpellsNode
<1>14. SpellsNode(e)'
  BY <1>8, <1>9, <1>10, <1>13, <1>e, SpellsNodeStays
<1> QED
  BY <1>9, <1>12, <1>14 DEF LastSpelled

-----------------------------------------------------------------------------
(***************************************************************************)
(* The body of a definition, and parentheses.                              *)
(***************************************************************************)
LEMMA ArrowPlaced ==
  ASSUME TypeInv, SpellingInv, PrototypeArrow, CurTok = "func_arrow"
  PROVE  OperandPlaced'
<1>0. \E s, here, f : s = <<>> /\ here = Len(toks) + 1 /\ f = NewFrame("Expression")
  OBVIOUS
<1> PICK s, here, f : s = <<>> /\ here = Len(toks) + 1 /\ f = NewFrame("Expression")
  BY <1>0
<1>1. /\ pc = "Arg" /\ GetTok /\ pc' = "Primary" /\ stack' = Append(stack, f) /\ proto' = proto
  BY DEF PrototypeArrow, CallExpression, Push, defVars
<1>2. stack = s /\ Len(toks) = proto.first + 3 * Len(proto.Args) + 1
  BY <1>1 DEF TypeInv, TopOK, SpellingInv, ProtoPlaced
<1>3. here \in Int /\ Len(toks') = here /\ Len(toks) \in Nat
  BY <1>1, OneTokenOn
<1>4. here = BodyStart'
  <2> DEFINE a == Len(proto.Args)
  <2>1. proto \in Prototype
    BY DEF TypeInv, TypeOK
  <2>2. a \in Nat /\ proto.first \in Nat
    BY <2>1, LenProperties DEF Prototype
  <2>3. BodyStart' = proto.first + 3 * a + 2
    BY <1>1 DEF BodyStart
  <2> HIDE DEF a
  <2>4. Len(toks) = proto.first + 3 * a + 1
    BY <1>2 DEF a
  <2> QED
    BY <2>2, <2>3, <2>4
<1>5. Placed(s, here)'
  BY <1>3, <1>4, PlacedEmpty
<1>6. f \in Frame(NodeIds) /\ f.fn = "Expression" /\ s \in Seq(Frame(NodeIds))
  BY <1>2, NewFrameType DEF TypeInv, TypeOK
<1>7. FramePlaced(f, here, here)'
  BY <1>6 DEF FramePlaced
<1>8. Placed(Append(s, f), here)'
  BY <1>3, <1>5, <1>6, <1>7, PlacedPush
<1> QED
  BY <1>1, <1>2, <1>3, <1>8, ToPrimary

\* The node that comes back gets a pair of parentheses; nobody else has it yet.
LEMMA ParenClosePlaced ==
  ASSUME TypeInv, ASTSound, SpellingInv, ParenClose, CurTok = ")"
  PROVE  /\ OperandPlaced' /\ LastSpelled'
         /\ Len(nodes) \in Nat \ {0} /\ Len(nodes') = Len(nodes) /\ ret' = Len(nodes')
         /\ StayPut(1 .. Len(nodes) - 1)
         /\ \A m \in 1 .. Len(nodes) - 1 : nodes'[m] = nodes[m]
<1>0. \E s, here, r, old : s = Front(stack) /\ here = Len(toks) /\ r = ret /\ old = nodes[ret]
  OBVIOUS
<1> PICK s, here, r, old : s = Front(stack) /\ here = Len(toks) /\ r = ret /\ old = nodes[ret]
  BY <1>0
<1> DEFINE e == [old EXCEPT !.paren = @ + 1]
           ids == 1 .. Len(nodes) - 1
<1>1. /\ pc = "Return" /\ err = "none" /\ stack # <<>> /\ Top.fn = "Paren"
      /\ pc' = "Return" /\ ret' = r /\ stack' = s /\ proto' = proto /\ GetTok
      /\ nodes' = [nodes EXCEPT ![r] = e]
  BY DEF ParenClose, Returning, Pop, defVars
<1>2. /\ toks # <<>> /\ LastOf(r) = here - 1 /\ Placed(stack, FirstOf(r)) /\ r \in NodeIds
      /\ r = Len(nodes) /\ stack \in Seq(Frame(ids))
  BY <1>1 DEF TypeInv, TypeOK, SpellingInv, OperandPlaced, Newest, Older, NodeIds
<1>3. PICK own \in Int : Placed(s, own) /\ FramePlaced(Top, own, FirstOf(r))
  BY <1>1, <1>2, TopPlaced
<1>4. IsPunct(own, "(") /\ FirstOf(r) = own + 1
  BY <1>1, <1>3 DEF FramePlaced
<1>5. here \in Nat \ {0} /\ Len(toks') = here + 1 /\ ReadsOn /\ IsPunct(here, ")")
  BY <1>1, <1>2, CurrentToken, OneTokenOn
<1>6. /\ old \in Node(NodeIds) /\ nodes \in Seq(Node(NodeIds))
      /\ NodeSound(old, r) /\ SpellsNode(old)
  <2>1. nodes \in Seq(Node(NodeIds)) /\ r \in DOMAIN nodes
    BY <1>2 DEF TypeInv, TypeOK, NodeIds
  <2> QED
    BY <1>2, <2>1, ElementOfSeq DEF ASTSound, NodesSound, SpellingInv, ASTSpellsSource, NodeIds
<1>7. /\ e \in Node(NodeIds) /\ e.kind = old.kind /\ e.val = old.val /\ e.kids = old.kids
      /\ e.first = old.first /\ e.last = old.last /\ e.paren = old.paren + 1
      /\ old.first \in Int /\ old.last \in Int /\ old.paren \in Nat
  <2>1. ASSUME NEW x \in Node(NodeIds)
        PROVE  /\ [x EXCEPT !.paren = @ + 1] \in Node(NodeIds)
               /\ [x EXCEPT !.paren = @ + 1].kind = x.kind /\ [x EXCEPT !.paren = @ + 1].val = x.val
               /\ [x EXCEPT !.paren = @ + 1].kids = x.kids /\ [x EXCEPT !.paren = @ + 1].first = x.first
               /\ [x EXCEPT !.paren = @ + 1].last = x.last
               /\ [x EXCEPT !.paren = @ + 1].paren = x.paren + 1
               /\ x.first \in Int /\ x.last \in Int /\ x.paren \in Nat
    BY DEF Node
  <2> QED
    BY <1>6, <2>1
<1> HIDE DEF e
<1>8. /\ Len(nodes) \in Nat \ {0} /\ Len(nodes') = Len(nodes)
      /\ \A i \in 1 .. Len(nodes) : nodes'[i] = IF i = r THEN e ELSE nodes[i]
  BY <1>1, <1>2, <1>6, <1>7, ExceptSeq DEF NodeIds
<1>9. /\ nodes'[r] = e /\ \A i \in ids : nodes'[i] = nodes[i]
  BY <1>2, <1>8
<1>10. StayPut(ids)
  BY <1>9 DEF StayPut, FirstOf, LastOf
<1>11. old.first - old.paren = own + 1 /\ old.last + old.paren = here - 1
  BY <1>2, <1>4 DEF FirstOf, LastOf
<1>c. e.first - e.paren = own /\ e.last + e.paren = here
  <2> DEFINE a == old.first
             b == old.last
             p == old.paren
  <2>2. /\ a \in Int /\ b \in Int /\ p \in Nat /\ a - p = own + 1 /\ b + p = here - 1
        /\ e.first = a /\ e.last = b /\ e.paren = p + 1
    BY <1>7, <1>11
  <2> HIDE DEF a, b, p
  <2>3. a - (p + 1) = own /\ b + (p + 1) = here
    BY <1>5, <2>2
  <2> QED
    BY <2>2, <2>3
<1>12. FirstOf(r)' = own /\ LastOf(r)' = here
  BY <1>9, <1>c DEF FirstOf, LastOf
<1>13. Placed(s, own)'
  <2>1. s \in Seq(Frame(ids)) /\ StackOK(s, NodeIds)
    BY <1>1, <1>2, FrontLast, StackPop DEF TypeInv
  <2> QED
    BY <1>1, <1>3, <1>5, <1>10, <2>1, PlacedStays
<1>14. OperandPlaced'
  <2>1. FirstOf(ret)' = own /\ LastOf(ret)' = here
    BY <1>1, <1>12 DEF FirstOf, LastOf
  <2> QED
    BY <1>1, <1>5, <1>13, <2>1, ToReturn
<1>15. SpellsNode(e)
  <2>1. ASSUME NEW i \in 1 .. e.paren
        PROVE  IsPunct(e.first - i, "(") /\ IsPunct(e.last + i, ")")
    <3>1. CASE i \in 1 .. old.paren
      BY <1>6, <1>7, <3>1 DEF SpellsNode
    <3>2. CASE i = old.paren + 1
      <4>1. e.first - i = own /\ e.last + i = here
        BY <1>7, <1>c, <3>2
      <4> QED
        BY <1>4, <1>5, <4>1
    <3> QED
      BY <1>7, <3>1, <3>2
  <2> QED
    BY <1>6, <1>7, <2>1 DEF SpellsNode
<1>16. SpellsNode(e)'
  <2>1. e.kids \in Seq(ids)
    BY <1>2, <1>6, <1>7 DEF NodeSound
  <2>2. e.kind = "Binary" => Len(e.kids) = 2
    BY <1>2, <1>7 DEF TypeInv, BinaryHasTwoKids
  <2> QED
    BY <1>5, <1>10, <1>15, <2>1, <2>2, SpellsNodeStays
<1>17. LastSpelled'
  BY <1>2, <1>8, <1>9, <1>16 DEF LastSpelled
<1> QED
  BY <1>1, <1>2, <1>8, <1>9, <1>10, <1>14, <1>17

LEMMA UnchangedPlaced ==
  ASSUME TypeInv, UNCHANGED vars, OperandPlaced
  PROVE  OperandPlaced'
<1>1. UNCHANGED <<toks, pc, stack, nodes, ret, err, proto>>
  BY DEF vars, lexVars, defVars
<1>2. \A n : FirstOf(n)' = FirstOf(n) /\ LastOf(n)' = LastOf(n)
  BY <1>1 DEF FirstOf, LastOf
<1>3. \A i, k, text : (Is(i, k, text) => Is(i, k, text)') /\ (IsPunct(i, k) => IsPunct(i, k)')
  BY <1>1 DEF Is, IsPunct
<1>4. ReadsOn /\ StayPut(NodeIds)
  BY <1>1, SameNodesStay DEF ReadsOn
<1>5. Top' = Top /\ Front(stack') = Front(stack)
  BY <1>1 DEF Top
<1>6. \A here : Placed(stack, here) => Placed(stack, here)'
  <2> TAKE here
  <2>1. \E s : s = stack
    OBVIOUS
  <2> PICK s : s = stack
    BY <2>1
  <2>2. Placed(s, here) => Placed(s, here)'
    BY <1>1, <1>4, FramesStay
  <2> QED
    BY <1>1, <2>2
<1>7. ASSUME stack # <<>> PROVE \A here : Placed(Front(stack), here) => Placed(Front(stack), here)'
  <2> TAKE here
  <2>1. \E s : s = Front(stack)
    OBVIOUS
  <2> PICK s : s = Front(stack)
    BY <2>1
  <2>2. Placed(s, here) => Placed(s, here)'
    BY <1>1, <1>4, <1>7, FramesStay
  <2> QED
    BY <1>5, <2>2
<1>8. pc \in {"Identifier", "Args", "Loop"} => stack # <<>>
  BY DEF TypeInv, TopOK
<1> QED
  BY <1>1, <1>2, <1>3, <1>5, <1>6, <1>7, <1>8 DEF OperandPlaced

LEMMA OperandPlacedStep ==
  ASSUME TypeInv, ASTSound, SpellingInv, [Next]_vars
  PROVE  OperandPlaced'
<1>f. ASSUME NEW e \in Error, Fail(e) PROVE OperandPlaced'
  BY <1>f, ToElsewhere DEF Fail, Error
<1>1. CASE UNCHANGED vars
  <2>1. OperandPlaced
    BY DEF SpellingInv
  <2> QED
    BY <1>1, <2>1, UnchangedPlaced
<1>2. CASE Construct \/ ModuleEnd \/ ModuleLineBreak \/ ModuleDefinition \/ DefinitionDone \/ ModuleError
  BY <1>2, ToElsewhere DEF Construct, ModuleEnd, ModuleLineBreak, ModuleDefinition, DefinitionDone, ModuleError
<1>3. CASE ModuleUnexpected \/ PrimaryUnknown
  BY <1>3, <1>f DEF ModuleUnexpected, PrimaryUnknown, Error
<1>4. CASE Propagate
  BY <1>4, ToElsewhere DEF Propagate
<1>5. CASE PrototypeArg \/ PrototypeDelimiter \/ PrototypeType
  <2>1. pc' \in {"Arg", "Delimiter", "Type"} \/ \E e \in Error : Fail(e)
    BY <1>5 DEF PrototypeArg, PrototypeDelimiter, PrototypeType, Error
  <2> QED
    BY <1>f, <2>1, ToElsewhere
<1>6. CASE PrototypeArrow
  <2>1. CurTok = "func_arrow" \/ \E e \in Error : Fail(e)
    BY <1>6 DEF PrototypeArrow, Error
  <2> QED
    BY <1>6, <1>f, <2>1, ArrowPlaced
<1>7. CASE BinOpOperand
  <2>1. CASE NextBindsTighter(Top.val)
    <3>1. /\ Returning("RHS") /\ pc' = "Loop" /\ toks' = toks /\ nodes' = nodes /\ proto' = proto
          /\ stack' = Append(Append(Front(stack), [Top EXCEPT !.fn = "Merge"]),
                         [NewFrame("BinOpRHS") EXCEPT !.prec = RecursionPrec(Top.val),
                                                      !.kids = <<ret>>])
      BY <1>7, <2>1, Zenon DEF BinOpOperand, ReplaceAndPush, lexVars, defVars
    <3> QED
      BY <3>1, TighterPlaced, Zenon
  <2>2. CASE ~NextBindsTighter(Top.val)
    <3>1. Returning("RHS") /\ MergeOperands(ret)
      BY <1>7, <2>2, Zenon DEF BinOpOperand
    <3> QED
      BY <3>1, MergePlaced DEF Returning
  <2> QED
    BY <2>1, <2>2
<1>8. CASE BinOpMerge
  BY <1>8, MergePlaced DEF BinOpMerge, Returning
<1>9. CASE ParenClose
  <2>1. CurTok = ")" \/ \E e \in Error : Fail(e)
    BY <1>9 DEF ParenClose, Error
  <2> QED
    BY <1>9, <1>f, <2>1, ParenClosePlaced
<1>10. CASE NumberExpr \/ ParenExpr \/ IdentifierExpr
  BY <1>10, NumberPlaced, ParenPlaced, IdentifierPlaced
<1>11. CASE ParseIdentifierExpr
  BY <1>11, VariablePlaced, CallPlaced, FirstArgPlaced, EmptyCallPlaced, CallArgPlaced DEF ParseIdentifierExpr
<1>12. CASE ExpressionOperand \/ BinOpDone \/ BinOpOperator
  BY <1>12, ExpressionPlaced, BinOpDonePlaced, OperatorPlaced
<1> QED
  BY <1>1, <1>2, <1>3, <1>4, <1>5, <1>6, <1>7, <1>8, <1>9, <1>10, <1>11, <1>12
     DEF Next, ParseModule, ParsePrototype, ParsePrimary, ParseBinOpRHS, Terminated

-----------------------------------------------------------------------------
(***************************************************************************)
(* The registers, the newest node and the prototype.                       *)
(***************************************************************************)
LEMMA RegistersStep ==
  ASSUME TypeInv, Registers, GetTok \/ UNCHANGED lexVars
  PROVE  Registers'
<1>1. CASE UNCHANGED lexVars
  <2>1. \A i, k, text : Is(i, k, text)' = Is(i, k, text)
    BY <1>1 DEF lexVars, Is
  <2> QED
    BY <1>1, <2>1 DEF lexVars, Registers, CurTok
<1>2. CASE GetTok
  <2>1. PICK t \in NextTokens(toks) :
          /\ toks' = Append(toks, t)
          /\ identifier_str' = IF t.kind \in {"identifier", "extern"} THEN t.text ELSE identifier_str
          /\ real_num_value' = IF t.kind = "real_number" THEN t.text ELSE real_num_value
    BY <1>2 DEF GetTok
  <2>2. \E c \in Kind : t \in [kind : {c}, text : TextsOf(c)]
    BY KindsAssumption DEF NextTokens, Kind
  <2>3. t = [kind |-> t.kind, text |-> t.text]
    BY <2>2
  <2>4. toks \in Seq(Token \cup {t}) /\ t \in Token \cup {t}
    <3> DEFINE T == Token
    <3>1. toks \in Seq(T)
      BY DEF TypeInv, TypeOK
    <3> HIDE DEF T
    <3>2. toks \in Seq(T \cup {t}) /\ t \in T \cup {t}
      BY <3>1, SeqMonotonic
    <3> QED
      BY <3>2 DEF T
  <2>5. /\ Last(toks') = t /\ Len(toks') \in DOMAIN toks' /\ toks'[Len(toks')] = t
    <3> DEFINE T == Token \cup {t}
    <3> HIDE DEF T
    <3>1. toks \in Seq(T) /\ t \in T
      BY <2>4 DEF T
    <3>2. /\ Last(toks') = t /\ toks' \in Seq(T) /\ Len(toks') = Len(toks) + 1 /\ Len(toks) \in Nat
          /\ toks'[Len(toks) + 1] = t
      BY <2>1, <3>1, AppendLast, LenProperties
    <3>3. DOMAIN toks' = 1 .. Len(toks')
      BY <3>2, LenProperties
    <3> QED
      BY <3>2, <3>3
  <2>6. CurTok' = t.kind
    BY <2>5 DEF CurTok
  <2>7. \E n, k, x, v, w : n = Len(toks') /\ k = t.kind /\ x = t.text /\ v = identifier_str' /\ w = real_num_value'
    OBVIOUS
  <2> PICK n, k, x, v, w : n = Len(toks') /\ k = t.kind /\ x = t.text /\ v = identifier_str' /\ w = real_num_value'
    BY <2>7
  <2>8. n \in DOMAIN toks' /\ toks'[n] = [kind |-> k, text |-> x]
    BY <2>3, <2>5
  <2>9. (k = "identifier" => v = x) /\ (k = "real_number" => w = x)
    BY <2>1
  <2>10. (k = "identifier" => Is(n, "identifier", v)') /\ (k = "real_number" => Is(n, "real_number", w)')
    BY <2>8, <2>9 DEF Is
  <2>11. CurTok' = k /\ n = Len(toks') /\ v = identifier_str' /\ w = real_num_value'
    BY <2>6
  <2> QED
    BY <2>10, <2>11, Zenon DEF Registers
<1> QED
  BY <1>1, <1>2

LEMMA NodeMade ==
  ASSUME TypeInv, NEW e, nodes' = Append(nodes, e)
  PROVE  Len(nodes) \in Nat /\ Len(nodes') = Len(nodes) + 1
<1> DEFINE N == Node(NodeIds)
<1>1. nodes \in Seq(N)
  BY DEF TypeInv, TypeOK
<1> HIDE DEF N
<1>2. nodes \in Seq(N \cup {e}) /\ e \in N \cup {e}
  BY <1>1, SeqMonotonic
<1> QED
  BY <1>2, AppendLast, LenProperties

\* Once a node is made, all that is on the stack and in the module is older.
LEMMA OlderThanNew ==
  ASSUME TypeInv, NEW e, nodes' = Append(nodes, e), lines' = lines,
         NEW s, s \in Seq(Frame(NodeIds))
  PROVE  Older(s)'
<1>1. Len(nodes) \in Nat /\ Len(nodes') = Len(nodes) + 1
  BY NodeMade
<1>2. 1 .. Len(nodes') - 1 = NodeIds
  BY <1>1 DEF NodeIds
<1> QED
  BY <1>2 DEF Older, TypeInv, TypeOK

LEMMA OlderFront ==
  ASSUME NEW s, Older(s), s # <<>>
  PROVE  Older(Front(s)) /\ Last(s) \in Frame(1 .. Len(nodes) - 1)
<1> DEFINE F == Frame(1 .. Len(nodes) - 1)
<1>1. s \in Seq(F)
  BY DEF Older
<1> HIDE DEF F
<1>2. Front(s) \in Seq(F) /\ Last(s) \in F
  BY <1>1, FrontLast
<1> QED
  BY <1>2 DEF Older, F

LEMMA NewestReturned ==
  ASSUME pc' = "Return", ret' = Len(nodes'), Older(stack)'
  PROVE  Newest'
BY DEF Newest

LEMMA ToPrimaryNewest == pc' = "Primary" => Newest'
BY DEF Newest

LEMMA NewestLooped ==
  ASSUME pc' = "Loop", NEW s, s = Front(stack'), Last(stack').kids[1] = Len(nodes'), Older(s)'
  PROVE  Newest'
BY DEF Newest, Top

LEMMA FrontAgain ==
  ASSUME NEW S, NEW s \in Seq(S), NEW f, NEW t, t = Append(s, f)
  PROVE  Front(t) = s /\ Last(t) = f
<1>1. s \in Seq(S \cup {f}) /\ f \in S \cup {f}
  BY SeqMonotonic
<1> QED
  BY <1>1, AppendLast, FrontOfAppend

LEMMA NewestStep ==
  ASSUME TypeInv, ASTSound, SpellingInv, [Next]_vars
  PROVE  Newest'
<1>0. Newest /\ stack \in Seq(Frame(NodeIds)) /\ (stack # <<>> => Front(stack) \in Seq(Frame(NodeIds)))
  BY TopFrame DEF SpellingInv, TypeInv, TypeOK
<1>q. ASSUME \/ pc' \in {"Module", "Arg", "Delimiter", "Type", "Primary", "Identifier", "Args", "Done"}
             \/ pc' = "Return" /\ err' # "none"
      PROVE  Newest'
  BY <1>q DEF Newest
<1>f. ASSUME NEW e \in Error, Fail(e) PROVE Newest'
  BY <1>f, <1>q DEF Fail, Error
<1>1. CASE UNCHANGED vars
  <2>1. UNCHANGED <<pc, err, ret, nodes, stack, lines>>
    BY <1>1 DEF vars, defVars
  <2>2. Top' = Top
    BY <2>1 DEF Top
  <2> QED
    BY <1>0, <2>1, <2>2 DEF Newest, Older
<1>2. CASE Construct \/ ParseModule \/ DefinitionDone \/ ModuleError \/ Propagate
  <2>1. CASE ModuleUnexpected
    BY <1>f, <2>1 DEF ModuleUnexpected, Error
  <2>2. CASE ~ModuleUnexpected
    <3>1. \/ pc' \in {"Module", "Arg", "Done"}
          \/ pc' = "Return" /\ err' # "none"
      BY <1>2, <2>2 DEF Construct, ParseModule, ModuleEnd, ModuleLineBreak, ModuleDefinition, DefinitionDone,
         ModuleError, Propagate
    <3> QED
      BY <1>q, <3>1
  <2> QED
    BY <2>1, <2>2
<1>3. CASE ParsePrototype
  <2>1. pc' \in {"Arg", "Delimiter", "Type", "Primary"} \/ \E e \in Error : Fail(e)
    BY <1>3 DEF ParsePrototype, PrototypeArg, PrototypeDelimiter, PrototypeType, PrototypeArrow, CallExpression, Error
  <2> QED
    BY <1>f, <1>q, <2>1
<1>4. CASE PrimaryUnknown \/ ParenExpr \/ IdentifierExpr \/ IdentifierCall \/ CallFirstArg \/ BinOpOperator
  <2>1. pc' \in {"Primary", "Identifier", "Args"} \/ \E e \in Error : Fail(e)
    BY <1>4 DEF PrimaryUnknown, ParenExpr, IdentifierExpr, IdentifierCall, CallFirstArg, CallExpression,
                BinOpOperator, Error
  <2> QED
    BY <1>f, <1>q, <2>1
<1>5. ASSUME NEW e, ReturnNew(e), lines' = lines,
             stack' = stack \/ (stack # <<>> /\ stack' = Front(stack))
      PROVE  Newest'
  <2>1. nodes' = Append(nodes, e) /\ ret' = Len(nodes) + 1 /\ pc' = "Return"
    BY <1>5 DEF ReturnNew
  <2>2. ret' = Len(nodes')
    BY <2>1, NodeMade
  <2>3. \E s : s = stack'
    OBVIOUS
  <2> PICK s : s = stack'
    BY <2>3
  <2>4. s \in Seq(Frame(NodeIds))
    BY <1>0, <1>5
  <2>5. Older(s)'
    BY <1>5, <2>1, <2>4, OlderThanNew
  <2>6. Older(stack)'
    BY <2>5
  <2> QED
    BY <2>1, <2>2, <2>6, NewestReturned
<1>6. CASE NumberExpr
  BY <1>5, <1>6 DEF NumberExpr, defVars
<1>7. CASE IdentifierVariable
  BY <1>5, <1>7 DEF IdentifierVariable, Pop, defVars, TypeInv, TopOK
<1>8. ASSUME NEW args, CloseCall(args), stack # <<>> PROVE Newest'
  BY <1>5, <1>8 DEF CloseCall, Pop, defVars
<1>9. CASE CallNoArgs
  BY <1>8, <1>9 DEF CallNoArgs, TypeInv, TopOK
<1>10. CASE CallArg
  <2>1. stack # <<>>
    BY <1>10 DEF CallArg, Returning
  <2>2. CASE CurTok = ")"
    BY <1>8, <1>10, <2>1, <2>2 DEF CallArg
  <2>3. CASE CurTok = ","
    <3>1. pc' = "Primary"
      BY <1>10, <2>3, Zenon DEF CallArg
    <3> QED
      BY <3>1, ToPrimaryNewest, Zenon
  <2>4. CASE CurTok \notin {")", ","}
    <3>1. \E e \in Error : Fail(e)
      BY <1>10, <2>4 DEF CallArg, Error
    <3> QED
      BY <1>f, <3>1
  <2> QED
    BY <2>2, <2>3, <2>4
<1>11. CASE ExpressionOperand
  <2>0. \E s, r : s = Front(stack) /\ r = ret
    OBVIOUS
  <2> PICK s, r : s = Front(stack) /\ r = ret
    BY <2>0
  <2> DEFINE f == [NewFrame("BinOpRHS") EXCEPT !.kids = <<r>>]
  <2>1. /\ stack # <<>> /\ r = Len(nodes) /\ Older(stack) /\ pc' = "Loop"
        /\ stack' = Append(s, f) /\ nodes' = nodes /\ lines' = lines
    BY <1>0, <1>11 DEF ExpressionOperand, Returning, Replace, Newest, defVars
  <2>2. f.kids[1] = r
    BY DEF NewFrame
  <2> HIDE DEF f
  <2>3. Older(s)
    BY <2>1, OlderFront
  <2>4. Front(stack') = s /\ Last(stack') = f
    BY <1>0, <2>1, FrontAgain
  <2>5. Older(s)'
    BY <2>1, <2>3 DEF Older
  <2> QED
    BY <2>1, <2>2, <2>4, <2>5, NewestLooped
<1>12. CASE BinOpDone
  <2>1. /\ stack # <<>> /\ Top.kids[1] = Len(nodes) /\ Older(Front(stack)) /\ pc' = "Return"
        /\ ret' = Top.kids[1] /\ stack' = Front(stack) /\ nodes' = nodes /\ lines' = lines
    BY <1>0, <1>12 DEF BinOpDone, Pop, Newest, defVars, TypeInv, TopOK
  <2>2. Older(stack)'
    BY <2>1 DEF Older
  <2> QED
    BY <2>1, <2>2, NewestReturned
<1>13. ASSUME stack # <<>>, Shape(Top), MergeOperands(ret) PROVE Newest'
  <2>0. \E s, m, top, e : /\ s = Front(stack) /\ m = Len(nodes) + 1 /\ top = Top
                          /\ e = NewNode("Binary", Top.val, <<Top.kids[1], ret>>,
                                         FirstOf(Top.kids[1]), LastOf(ret))
    OBVIOUS
  <2> PICK s, m, top, e : /\ s = Front(stack) /\ m = Len(nodes) + 1 /\ top = Top
                          /\ e = NewNode("Binary", Top.val, <<Top.kids[1], ret>>,
                                         FirstOf(Top.kids[1]), LastOf(ret))
    BY <2>0
  <2> DEFINE f == [top EXCEPT !.fn = "BinOpRHS", !.val = "", !.kids = <<m>>]
  <2>1. /\ pc' = "Loop" /\ stack' = Append(s, f) /\ nodes' = Append(nodes, e) /\ lines' = lines
    BY <1>13 DEF MergeOperands, Replace, defVars
  <2>2. top \in Frame(NodeIds)
    BY <1>13, TopFrame
  <2>3. f.kids[1] = m
    BY <2>2 DEF Frame
  <2> HIDE DEF f
  <2>4. Front(stack') = s /\ Last(stack') = f
    BY <1>0, <1>13, <2>1, FrontAgain
  <2>5. m = Len(nodes') /\ Older(s)'
    BY <1>0, <1>13, <2>1, NodeMade, OlderThanNew
  <2> QED
    BY <2>1, <2>3, <2>4, <2>5, NewestLooped
<1>14. CASE BinOpMerge
  BY <1>13, <1>14, TopFrame DEF BinOpMerge, Returning
<1>15. CASE BinOpOperand
  <2>1. CASE ~NextBindsTighter(Top.val)
    <3>1. stack # <<>> /\ MergeOperands(ret)
      BY <1>15, <2>1, Zenon DEF BinOpOperand, Returning
    <3> QED
      BY <1>13, <3>1, TopFrame
  <2>2. CASE NextBindsTighter(Top.val)
    <3>0. \E s, r, top, p : s = Front(stack) /\ r = ret /\ top = Top /\ p = RecursionPrec(Top.val)
      OBVIOUS
    <3> PICK s, r, top, p : s = Front(stack) /\ r = ret /\ top = Top /\ p = RecursionPrec(Top.val)
      BY <3>0
    <3> DEFINE f == [top EXCEPT !.fn = "Merge"]
               g == [NewFrame("BinOpRHS") EXCEPT !.prec = p, !.kids = <<r>>]
    <3>1. /\ stack # <<>> /\ pc = "Return" /\ err = "none" /\ pc' = "Loop"
          /\ nodes' = nodes /\ lines' = lines
          /\ stack' = Append(Append(Front(stack), [Top EXCEPT !.fn = "Merge"]),
                             [NewFrame("BinOpRHS") EXCEPT !.prec = RecursionPrec(Top.val), !.kids = <<ret>>])
      BY <1>15, <2>2, Zenon DEF BinOpOperand, ReplaceAndPush, Returning, defVars
    <3>2. stack' = Append(Append(s, f), g)
      BY <3>1
    <3>3. r = Len(nodes) /\ Older(stack)
      BY <1>0, <3>1 DEF Newest
    <3>4. Older(s) /\ top \in Frame(1 .. Len(nodes) - 1)
      BY <3>1, <3>3, OlderFront DEF Top
    <3>5. f \in Frame(1 .. Len(nodes) - 1)
      BY <3>4 DEF Frame
    <3>6. g.kids[1] = r
      BY DEF NewFrame
    <3> HIDE DEF f, g
    <3>7. Append(s, f) \in Seq(Frame(1 .. Len(nodes) - 1)) /\ Older(Append(s, f))
      BY <3>4, <3>5, AppendLast DEF Older
    <3>8. Front(stack') = Append(s, f) /\ Last(stack') = g
      BY <3>2, <3>7, FrontAgain
    <3>9. Older(Append(s, f))'
      BY <3>1, <3>7 DEF Older
    <3> QED
      BY <3>1, <3>3, <3>6, <3>8, <3>9, NewestLooped
  <2> QED
    BY <2>1, <2>2
<1>16. CASE ParenClose
  <2>1. CASE CurTok = ")"
    <3>1. /\ stack # <<>> /\ pc = "Return" /\ err = "none" /\ pc' = "Return" /\ lines' = lines
          /\ stack' = Front(stack)
      BY <1>16, <2>1 DEF ParenClose, Returning, Pop, defVars
    <3>2. Len(nodes') = Len(nodes) /\ ret' = Len(nodes')
      BY <1>16, <2>1, ParenClosePlaced
    <3>3. Older(Front(stack))
      BY <1>0, <3>1, OlderFront DEF Newest
    <3>4. Older(stack)'
      BY <3>1, <3>2, <3>3 DEF Older
    <3> QED
      BY <3>1, <3>2, <3>4, NewestReturned
  <2>2. CASE CurTok # ")"
    BY <1>16, <1>f, <2>2 DEF ParenClose, Error
  <2> QED
    BY <2>1, <2>2
<1> QED
  BY <1>1, <1>2, <1>3, <1>4, <1>6, <1>7, <1>9, <1>10, <1>11, <1>12, <1>14, <1>15, <1>16
     DEF Next, ParsePrimary, ParseIdentifierExpr, ParseBinOpRHS, Terminated

LEMMA SpellsProtoStays ==
  ASSUME ReadsOn, NEW p, NEW upto, SpellsProto(p, upto)
  PROVE  SpellsProto(p, upto)'
BY TokensStay DEF SpellsProto

\* One token more of the prototype
LEMMA SpellsProtoOn ==
  ASSUME NEW p, p.first \in Int, p.Args \in Seq(Text), NEW upto \in Int, SpellsProto(p, upto),
         NEW next, next = upto + 1,
         \A i \in 1 .. Len(p.Args) :
           /\ p.first + 3 * i - 2 = next => Is(next, "identifier", p.Args[i])
           /\ p.first + 3 * i - 1 = next => IsPunct(next, ":")
           /\ p.first + 3 * i = next => IsPunct(next, "identifier"),
         p.first + 3 * Len(p.Args) + 1 = next => IsPunct(next, "func_arrow")
  PROVE  SpellsProto(p, next)
<1> DEFINE a == Len(p.Args)
           f == p.first
<1>1. a \in Nat /\ f \in Int
  BY LenProperties
<1>2. /\ Is(f, "identifier", p.Name)
      /\ \A i \in 1 .. a : /\ f + 3 * i - 2 <= upto => Is(f + 3 * i - 2, "identifier", p.Args[i])
                           /\ f + 3 * i - 1 <= upto => IsPunct(f + 3 * i - 1, ":")
                           /\ f + 3 * i <= upto => IsPunct(f + 3 * i, "identifier")
      /\ f + 3 * a + 1 <= upto => IsPunct(f + 3 * a + 1, "func_arrow")
  BY DEF SpellsProto
<1>3. /\ \A i \in 1 .. a :
           /\ f + 3 * i - 2 = next => Is(next, "identifier", p.Args[i])
           /\ f + 3 * i - 1 = next => IsPunct(next, ":")
           /\ f + 3 * i = next => IsPunct(next, "identifier")
      /\ f + 3 * a + 1 = next => IsPunct(next, "func_arrow")
  OBVIOUS
<1> HIDE DEF a, f
<1>4. ASSUME NEW i \in 1 .. a
      PROVE  /\ f + 3 * i - 2 <= next => Is(f + 3 * i - 2, "identifier", p.Args[i])
             /\ f + 3 * i - 1 <= next => IsPunct(f + 3 * i - 1, ":")
             /\ f + 3 * i <= next => IsPunct(f + 3 * i, "identifier")
  <2> DEFINE x == f + 3 * i - 2
             y == f + 3 * i - 1
             z == f + 3 * i
  <2>1. x \in Int /\ y \in Int /\ z \in Int
    BY <1>1, <1>4
  <2>2. /\ x <= upto => Is(x, "identifier", p.Args[i])
        /\ y <= upto => IsPunct(y, ":")
        /\ z <= upto => IsPunct(z, "identifier")
        /\ x = next => Is(next, "identifier", p.Args[i])
        /\ y = next => IsPunct(next, ":")
        /\ z = next => IsPunct(next, "identifier")
    BY <1>2, <1>3, <1>4
  <2> HIDE DEF x, y, z
  <2>3. \A j \in Int : j <= next => j <= upto \/ j = next
    OBVIOUS
  <2>4. /\ x <= next => Is(x, "identifier", p.Args[i])
        /\ y <= next => IsPunct(y, ":")
        /\ z <= next => IsPunct(z, "identifier")
    BY <2>1, <2>2, <2>3
  <2> QED
    BY <2>4 DEF x, y, z
<1>5. f + 3 * a + 1 <= next => IsPunct(f + 3 * a + 1, "func_arrow")
  <2> DEFINE x == f + 3 * a + 1
  <2>1. x \in Int /\ (x <= upto => IsPunct(x, "func_arrow")) /\ (x = next => IsPunct(next, "func_arrow"))
    BY <1>1, <1>2, <1>3
  <2> HIDE DEF x
  <2>2. x <= next => x <= upto \/ x = next
    BY <2>1
  <2>3. x <= next => IsPunct(x, "func_arrow")
    BY <2>1, <2>2
  <2> QED
    BY <2>3 DEF x
<1> QED
  BY <1>2, <1>4, <1>5 DEF SpellsProto, a, f

LEMMA ProtoStart ==
  ASSUME TypeInv, SpellingInv, ModuleDefinition
  PROVE  ProtoPlaced'
<1>0. \E here, v, none : here = Len(toks) /\ v = identifier_str /\ none = <<>>
  OBVIOUS
<1> PICK here, v, none : here = Len(toks) /\ v = identifier_str /\ none = <<>>
  BY <1>0
<1> DEFINE p == [Name |-> v, Args |-> none, first |-> here]
<1>1. pc' = "Arg" /\ proto' = p /\ GetTok /\ CurTok = "identifier" /\ toks # <<>>
  BY DEF ModuleDefinition, TypeInv, TypeOK
<1>2. p.Name = v /\ p.Args = none /\ p.first = here
  OBVIOUS
<1> HIDE DEF p
<1>3. here \in Nat /\ Len(toks') = here + 1 /\ ReadsOn /\ Is(here, "identifier", v)
  BY <1>1, OneTokenOn DEF SpellingInv, Registers
<1>4. Is(here, "identifier", v)' /\ Len(none) = 0
  BY <1>3, TokensStay, EmptySeq
<1>5. SpellsProto(p, here)'
  BY <1>2, <1>3, <1>4 DEF SpellsProto
<1>6. /\ Len(toks') - 1 = here /\ Len(toks') = p.first + 3 * Len(p.Args) + 1
  BY <1>2, <1>3, <1>4
<1> QED
  BY <1>1, <1>5, <1>6 DEF ProtoPlaced

LEMMA ToDelimiter ==
  ASSUME pc' = "Delimiter", NEW p, proto' = p, NEW here, Len(toks') - 1 = here, SpellsProto(p, here)',
         Len(toks') = (p.first + 3 * Len(p.Args)) - 1
  PROVE  ProtoPlaced'
BY DEF ProtoPlaced

LEMMA ProtoArg ==
  ASSUME TypeInv, SpellingInv, PrototypeArg
  PROVE  ProtoPlaced'
<1>0. \E here, v, old, n : here = Len(toks) /\ v = identifier_str /\ old = proto /\ n = Len(proto.Args)
  OBVIOUS
<1> PICK here, v, old, n : here = Len(toks) /\ v = identifier_str /\ old = proto /\ n = Len(proto.Args)
  BY <1>0
<1> DEFINE p == [old EXCEPT !.Args = Append(@, v)]
<1>1. pc = "Arg" /\ pc' = "Delimiter" /\ proto' = p /\ GetTok /\ CurTok = "identifier" /\ toks # <<>>
  BY DEF PrototypeArg, TypeInv, TypeOK
<1>2. old \in Prototype /\ v \in Text
  BY DEF TypeInv, TypeOK
<1>3. p.Name = old.Name /\ p.Args = Append(old.Args, v) /\ p.first = old.first
  <2>1. ASSUME NEW q \in Prototype
        PROVE  /\ [q EXCEPT !.Args = Append(@, v)].Name = q.Name
               /\ [q EXCEPT !.Args = Append(@, v)].Args = Append(q.Args, v)
               /\ [q EXCEPT !.Args = Append(@, v)].first = q.first
    BY DEF Prototype
  <2> QED
    BY <1>2, <2>1
<1> HIDE DEF p
<1>4. here \in Nat /\ Len(toks') = here + 1 /\ ReadsOn /\ Is(here, "identifier", v)
  BY <1>1, OneTokenOn DEF SpellingInv, Registers
<1>5. SpellsProto(old, here - 1) /\ here = old.first + 3 * n + 1 /\ old.first \in Int
  BY <1>1, <1>2 DEF SpellingInv, ProtoPlaced, Prototype
<1>6. n \in Nat /\ Len(p.Args) = n + 1 /\ p.Args[n + 1] = v /\ \A i \in 1 .. n : p.Args[i] = old.Args[i]
  BY <1>2, <1>3, AppendLast, LenProperties DEF Prototype
<1>7. SpellsProto(p, here)
  <2> DEFINE f == old.first
  <2>1. /\ Is(f, "identifier", old.Name)
        /\ \A i \in 1 .. n : /\ f + 3 * i - 2 <= here - 1 => Is(f + 3 * i - 2, "identifier", old.Args[i])
                             /\ f + 3 * i - 1 <= here - 1 => IsPunct(f + 3 * i - 1, ":")
                             /\ f + 3 * i <= here - 1 => IsPunct(f + 3 * i, "identifier")
    BY <1>5 DEF SpellsProto
  <2>a. f \in Int /\ here = f + 3 * n + 1
    BY <1>5
  <2> HIDE DEF f
  <2>2. ASSUME NEW i \in 1 .. n + 1
        PROVE  /\ f + 3 * i - 2 <= here => Is(f + 3 * i - 2, "identifier", p.Args[i])
               /\ f + 3 * i - 1 <= here => IsPunct(f + 3 * i - 1, ":")
               /\ f + 3 * i <= here => IsPunct(f + 3 * i, "identifier")
    <3>1. CASE i \in 1 .. n
      <4>1. f + 3 * i - 2 <= here - 1 /\ f + 3 * i - 1 <= here - 1 /\ f + 3 * i <= here - 1
        BY <1>4, <1>6, <2>a, <3>1
      <4>2. p.Args[i] = old.Args[i]
        BY <1>6, <3>1
      <4> QED
        BY <2>1, <3>1, <4>1, <4>2
    <3>2. CASE i = n + 1
      <4>1. f + 3 * i - 2 = here /\ ~(f + 3 * i - 1 <= here) /\ ~(f + 3 * i <= here)
        BY <1>4, <1>6, <2>a, <3>2
      <4>2. p.Args[i] = v
        BY <1>6, <3>2
      <4> QED
        BY <1>4, <4>1, <4>2
    <3> QED
      BY <1>6, <3>1, <3>2
  <2>3. ~(f + 3 * (n + 1) + 1 <= here)
    BY <1>4, <1>6, <2>a
  <2>4. p.first = f
    BY <1>3 DEF f
  <2> QED
    BY <1>3, <1>6, <2>1, <2>2, <2>3, <2>4 DEF SpellsProto
<1>8. SpellsProto(p, here)'
  BY <1>4, <1>7, SpellsProtoStays
<1>9. Len(toks') - 1 = here /\ Len(toks') = (p.first + 3 * Len(p.Args)) - 1
  <2>1. (p.first + 3 * (n + 1)) - 1 = here + 1
    BY <1>3, <1>5, <1>6
  <2> QED
    BY <1>4, <1>6, <2>1
<1> QED
  BY <1>1, <1>8, <1>9, ToDelimiter

\* The ':', the type and the "=>"
LEMMA ProtoGoesOn ==
  ASSUME TypeInv, SpellingInv, PrototypeDelimiter \/ PrototypeType \/ PrototypeArrow, err' = "none"
  PROVE  ProtoPlaced'
<1>0. \E here, p, n, f, c : here = Len(toks) /\ p = proto /\ n = Len(proto.Args) /\ f = proto.first /\ c = CurTok
  OBVIOUS
<1> PICK here, p, n, f, c : here = Len(toks) /\ p = proto /\ n = Len(proto.Args) /\ f = proto.first /\ c = CurTok
  BY <1>0
<1>1. GetTok /\ proto' = p /\ toks # <<>>
  BY DEF PrototypeDelimiter, PrototypeType, PrototypeArrow, Fail, defVars, TypeInv, TypeOK
<1>2. here \in Nat /\ Len(toks') = here + 1 /\ ReadsOn /\ IsPunct(here, c)
  BY <1>1, OneTokenOn, CurrentToken
<1>3. /\ p.first = f /\ Len(p.Args) = n /\ f \in Int /\ n \in Nat /\ p.Args \in Seq(Text)
  BY LenProperties DEF TypeInv, TypeOK, Prototype
<1>4. \A i \in 1 .. n : i \in Int /\ i <= n /\ 1 <= i
  BY <1>3
<1>5. /\ pc \in {"Arg", "Delimiter", "Type"} /\ SpellsProto(p, here - 1)
      /\ pc = "Arg" => here = f + 3 * n + 1
      /\ pc = "Delimiter" => here = (f + 3 * n) - 1
      /\ pc = "Type" => here = f + 3 * n
  <2>1. pc \in {"Arg", "Delimiter", "Type"}
    BY DEF PrototypeDelimiter, PrototypeType, PrototypeArrow
  <2>2. ProtoPlaced
    BY DEF SpellingInv
  <2>3. SpellsProto(proto, Len(toks) - 1)
    BY <2>1, <2>2 DEF ProtoPlaced
  <2>4. /\ pc = "Arg" => Len(toks) = proto.first + 3 * Len(proto.Args) + 1
        /\ pc = "Delimiter" => Len(toks) = (proto.first + 3 * Len(proto.Args)) - 1
        /\ pc = "Type" => Len(toks) = proto.first + 3 * Len(proto.Args)
    BY <2>2 DEF ProtoPlaced
  <2> QED
    BY <2>1, <2>3, <2>4
<1>6. ASSUME \A i \in 1 .. n : /\ f + 3 * i - 2 # here
                               /\ f + 3 * i - 1 = here => c = ":"
                               /\ f + 3 * i = here => c = "identifier",
             f + 3 * n + 1 = here => c = "func_arrow"
      PROVE  SpellsProto(p, here)'
  <2>1. SpellsProto(p, here)
    <3>1. \A i \in 1 .. Len(p.Args) :
            /\ p.first + 3 * i - 2 = here => Is(here, "identifier", p.Args[i])
            /\ p.first + 3 * i - 1 = here => IsPunct(here, ":")
            /\ p.first + 3 * i = here => IsPunct(here, "identifier")
      BY <1>2, <1>3, <1>6
    <3>2. p.first + 3 * Len(p.Args) + 1 = here => IsPunct(here, "func_arrow")
      BY <1>2, <1>3, <1>6
    <3>3. here - 1 \in Int /\ here = here - 1 + 1
      BY <1>2
    <3> QED
      BY <1>3, <1>5, <3>1, <3>2, <3>3, SpellsProtoOn
  <2> QED
    BY <1>2, <2>1, SpellsProtoStays
<1>7. CASE PrototypeDelimiter
  <2>1. c = ":" /\ pc' = "Type" /\ here = (f + 3 * n) - 1
    BY <1>5, <1>7 DEF PrototypeDelimiter, Fail
  <2>2. \A i \in 1 .. n : f + 3 * i - 2 # here /\ f + 3 * i # here
    BY <1>2, <1>3, <1>4, <2>1
  <2>3. f + 3 * n + 1 # here
    BY <1>2, <1>3, <2>1
  <2>4. SpellsProto(p, here)'
    BY <1>6, <2>1, <2>2, <2>3
  <2>5. Len(toks') - 1 = here /\ Len(toks') = p.first + 3 * Len(p.Args)
    BY <1>2, <1>3, <2>1
  <2> QED
    BY <1>1, <2>1, <2>4, <2>5 DEF ProtoPlaced
<1>8. CASE PrototypeType
  <2>1. c = "identifier" /\ pc' = "Arg" /\ here = f + 3 * n
    BY <1>5, <1>8 DEF PrototypeType, Fail
  <2>2. \A i \in 1 .. n : f + 3 * i - 2 # here /\ f + 3 * i - 1 # here
    BY <1>2, <1>3, <1>4, <2>1
  <2>3. f + 3 * n + 1 # here
    BY <1>2, <1>3, <2>1
  <2>4. SpellsProto(p, here)'
    BY <1>6, <2>1, <2>2, <2>3
  <2>5. Len(toks') - 1 = here /\ Len(toks') = p.first + 3 * Len(p.Args) + 1
    BY <1>2, <1>3, <2>1
  <2> QED
    BY <1>1, <2>1, <2>4, <2>5 DEF ProtoPlaced
<1>9. CASE PrototypeArrow
  <2>1. c = "func_arrow" /\ pc' = "Primary" /\ here = f + 3 * n + 1
    BY <1>5, <1>9 DEF PrototypeArrow, CallExpression, Fail
  <2>2. \A i \in 1 .. n : f + 3 * i - 2 # here /\ f + 3 * i - 1 # here /\ f + 3 * i # here
    BY <1>2, <1>3, <1>4, <2>1
  <2>3. SpellsProto(p, here)'
    BY <1>6, <2>1, <2>2
  <2>4. p.first + 3 * Len(p.Args) + 1 = here
    BY <1>3, <2>1
  <2> QED
    BY <1>1, <2>1, <2>3, <2>4 DEF ProtoPlaced
<1> QED
  BY <1>7, <1>8, <1>9

LEMMA BodyBegins ==
  ASSUME TypeInv, SpellingInv, ReadsOn, proto' = proto,
         pc \in {"Primary", "Identifier", "Args", "Loop"} \/ (pc = "Return" /\ err = "none"),
         pc' \in {"Primary", "Identifier", "Args", "Loop", "Return"}
  PROVE  ProtoPlaced'
<1>0. \E p, end : p = proto /\ end = proto.first + 3 * Len(proto.Args) + 1
  OBVIOUS
<1> PICK p, end : p = proto /\ end = proto.first + 3 * Len(proto.Args) + 1
  BY <1>0
<1>1. SpellsProto(p, end)
  BY DEF SpellingInv, ProtoPlaced
<1>2. SpellsProto(p, end)'
  BY <1>1, SpellsProtoStays
<1> QED
  BY <1>2 DEF ProtoPlaced

LEMMA ProtoPlacedStep ==
  ASSUME TypeInv, SpellingInv, [Next]_vars
  PROVE  ProtoPlaced'
<1>r. ReadsOn
  BY StepReadsOn
<1>q. ASSUME \/ pc' \in {"Construct", "Module", "Done"}
             \/ pc' = "Return" /\ err' # "none"
      PROVE  ProtoPlaced'
  BY <1>q DEF ProtoPlaced
<1>f. ASSUME NEW e \in Error, Fail(e) PROVE ProtoPlaced'
  BY <1>f, <1>q DEF Fail, Error
<1>1. CASE UNCHANGED vars
  <2>1. UNCHANGED <<toks, pc, err, proto>>
    BY <1>1 DEF vars, lexVars, defVars
  <2>2. \A i, k, text : Is(i, k, text)' = Is(i, k, text) /\ IsPunct(i, k)' = IsPunct(i, k)
    BY <2>1 DEF Is, IsPunct
  <2>3. \A p, upto : SpellsProto(p, upto) => SpellsProto(p, upto)'
    BY <1>r, SpellsProtoStays
  <2>4. ProtoPlaced
    BY DEF SpellingInv
  <2> QED
    BY <2>1, <2>3, <2>4 DEF ProtoPlaced
<1>2. CASE Construct \/ ParseModule \/ DefinitionDone \/ ModuleError \/ Propagate
  <2>1. CASE ModuleUnexpected
    BY <1>f, <2>1 DEF ModuleUnexpected, Error
  <2>2. CASE ModuleDefinition
    BY <2>2, ProtoStart
  <2>3. CASE ~ModuleUnexpected /\ ~ModuleDefinition
    <3>1. \/ pc' \in {"Module", "Done"}
          \/ pc' = "Return" /\ err' # "none"
      BY <1>2, <2>3 DEF Construct, ParseModule, ModuleEnd, ModuleLineBreak, DefinitionDone, ModuleError, Propagate
    <3> QED
      BY <1>q, <3>1
  <2> QED
    BY <2>1, <2>2, <2>3
<1>3. CASE ParsePrototype
  <2>1. CASE PrototypeArg
    BY <2>1, ProtoArg
  <2>2. CASE PrototypeDelimiter \/ PrototypeType \/ PrototypeArrow
    <3>1. pc \in {"Arg", "Delimiter", "Type"}
      BY <2>2 DEF PrototypeDelimiter, PrototypeType, PrototypeArrow
    <3>2. err = "none"
      BY <3>1 DEF TypeInv, TopOK
    <3>3. err' = "none" \/ \E e \in Error : Fail(e)
      BY <2>2, <3>2 DEF PrototypeDelimiter, PrototypeType, PrototypeArrow, Error
    <3> QED
      BY <1>f, <2>2, <3>3, ProtoGoesOn
  <2> QED
    BY <1>3, <2>1, <2>2 DEF ParsePrototype
<1>4. CASE ParsePrimary \/ ParseIdentifierExpr \/ ExpressionOperand \/ ParseBinOpRHS \/ ParenClose
  <2>1. proto' = proto
    <3>1. CASE ParsePrimary
      BY <3>1 DEF ParsePrimary, PrimaryUnknown, NumberExpr, ParenExpr, IdentifierExpr, Fail, defVars
    <3>2. CASE ParseIdentifierExpr \/ ParenClose
      BY <3>2 DEF ParseIdentifierExpr, IdentifierVariable, IdentifierCall, CallFirstArg, CallNoArgs, CallArg,
                  CloseCall, ParenClose, Fail, defVars
    <3>3. CASE ExpressionOperand \/ ParseBinOpRHS
      BY <3>3 DEF ExpressionOperand, ParseBinOpRHS, BinOpDone, BinOpOperator, BinOpOperand, BinOpMerge,
                  MergeOperands, defVars
    <3> QED
      BY <1>4, <3>1, <3>2, <3>3
  <2>2. pc \in {"Primary", "Identifier", "Args", "Loop"} \/ (pc = "Return" /\ err = "none")
    BY <1>4 DEF ParsePrimary, PrimaryUnknown, NumberExpr, ParenExpr, IdentifierExpr,
       ParseIdentifierExpr, IdentifierVariable, IdentifierCall, CallFirstArg, CallNoArgs, CallArg,
       ExpressionOperand, ParseBinOpRHS, BinOpDone, BinOpOperator, BinOpOperand, BinOpMerge, ParenClose, Returning
  <2>3. pc' \in {"Primary", "Identifier", "Args", "Loop", "Return"}
    <3>1. CASE ParsePrimary
      BY <3>1 DEF ParsePrimary, PrimaryUnknown, NumberExpr, ReturnNew, ParenExpr, IdentifierExpr, Fail
    <3>2. CASE ParseIdentifierExpr \/ ParenClose
      BY <3>2 DEF ParseIdentifierExpr, IdentifierVariable, IdentifierCall, CallFirstArg, CallExpression,
                  CallNoArgs, CallArg, CloseCall, ReturnNew, ParenClose, Returning, Fail
    <3>3. CASE ExpressionOperand \/ ParseBinOpRHS
      BY <3>3 DEF ExpressionOperand, ParseBinOpRHS, BinOpDone, BinOpOperator, BinOpOperand, BinOpMerge,
                  MergeOperands
    <3> QED
      BY <1>4, <3>1, <3>2, <3>3
  <2> QED
    BY <1>r, <2>1, <2>2, <2>3, BodyBegins
<1> QED
  BY <1>1, <1>2, <1>3, <1>4 DEF Next, Terminated

-----------------------------------------------------------------------------
(***************************************************************************)
(* The nodes and the definitions.                                          *)
(***************************************************************************)
LEMMA DefinitionStays ==
  ASSUME ReadsOn, NEW ids, StayPut(ids), NEW d \in Definition(ids), SpellsDefinition(d)
  PROVE  SpellsDefinition(d)'
<1>1. d.Body \in ids
  BY DEF Definition
<1>2. FirstOf(d.Body)' = FirstOf(d.Body)
  BY <1>1 DEF StayPut, FirstOf, LastOf
<1> QED
  BY <1>2, TokensStay DEF SpellsDefinition

\* A step that leaves all the nodes but the last one alone
LEMMA SpelledOn ==
  ASSUME TypeInv, TypeInv', ASTSound, ASTSpellsSource, ReadsOn, NEW k \in Nat, k <= Len(nodes), StayPut(1 .. k),
         \A n \in 1 .. k : nodes'[n] = nodes[n],
         lines' = lines, lines \in Seq(Definition(1 .. k)),
         Len(nodes') = k \/ (Len(nodes') = k + 1 /\ LastSpelled')
  PROVE  ASTSpellsSource'
<1>1. /\ DOMAIN nodes = 1 .. Len(nodes) /\ DOMAIN nodes' = 1 .. Len(nodes') /\ Len(nodes) \in Nat
      /\ DOMAIN lines = 1 .. Len(lines)
  BY LenProperties DEF TypeInv, TypeOK
<1>2. ASSUME NEW n \in 1 .. k PROVE SpellsNode(nodes[n])'
  <2>0. \E e : e = nodes[n]
    OBVIOUS
  <2> PICK e : e = nodes[n]
    BY <2>0
  <2>1. n \in NodeIds /\ n \in DOMAIN nodes /\ nodes'[n] = e
    <3> DEFINE m == Len(nodes)
    <3>1. m \in Nat /\ k <= m /\ DOMAIN nodes = 1 .. m /\ NodeIds = 1 .. m
      BY <1>1 DEF NodeIds
    <3> HIDE DEF m
    <3>2. n \in 1 .. m
      BY <1>2, <3>1
    <3> QED
      BY <1>2, <3>1, <3>2
  <2>2. NodeSound(e, n) /\ SpellsNode(e) /\ (e.kind = "Binary" => Len(e.kids) = 2)
    BY <2>1 DEF ASTSound, NodesSound, ASTSpellsSource, TypeInv, BinaryHasTwoKids
  <2>3. e.kids \in Seq(1 .. k)
    <3>1. 1 .. n - 1 \subseteq 1 .. k
      BY <1>2
    <3>2. Seq(1 .. n - 1) \subseteq Seq(1 .. k)
      BY <3>1, SeqMonotonic
    <3> QED
      BY <2>2, <3>2 DEF NodeSound
  <2>4. SpellsNode(e)'
    BY <2>2, <2>3, SpellsNodeStays
  <2> QED
    BY <2>1, <2>4
<1>3. ASSUME NEW n \in DOMAIN nodes' PROVE SpellsNode(nodes[n])'
  <2>1. n \in 1 .. k \/ (n = Len(nodes') /\ LastSpelled' /\ Len(nodes') > 0)
    <3> DEFINE m == Len(nodes')
    <3>1. n \in 1 .. m /\ (m = k \/ (m = k + 1 /\ LastSpelled'))
      BY <1>1, <1>3
    <3> HIDE DEF m
    <3>2. n \in 1 .. k \/ (n = m /\ LastSpelled' /\ m > 0)
      BY <3>1
    <3> QED
      BY <3>2 DEF m
  <2> QED
    BY <1>2, <2>1 DEF LastSpelled
<1>4. ASSUME NEW i \in DOMAIN lines' PROVE SpellsDefinition(lines[i])'
  <2>0. \E d : d = lines[i]
    OBVIOUS
  <2> PICK d : d = lines[i]
    BY <2>0
  <2>1. d \in Definition(1 .. k) /\ SpellsDefinition(d) /\ lines'[i] = d
    BY <1>1, <1>4, ElementOfSeq DEF ASTSpellsSource
  <2>2. SpellsDefinition(d)'
    BY <2>1, DefinitionStays
  <2> QED
    BY <2>1, <2>2
<1> QED
  BY <1>3, <1>4 DEF ASTSpellsSource

\* The definition that is done
LEMMA DefinitionSpelled ==
  ASSUME TypeInv, SpellingInv, DefinitionDone
  PROVE  ASTSpellsSource'
<1>0. \E p, r, a, f : p = proto /\ r = ret /\ a = Len(proto.Args) /\ f = proto.first
  OBVIOUS
<1> PICK p, r, a, f : p = proto /\ r = ret /\ a = Len(proto.Args) /\ f = proto.first
  BY <1>0
<1> DEFINE d == [Proto |-> p, Body |-> r]
<1>1. /\ pc = "Return" /\ err = "none" /\ stack = <<>> /\ lines' = Append(lines, d)
      /\ toks' = toks /\ nodes' = nodes
  BY DEF DefinitionDone, lexVars
<1>2. d.Proto = p /\ d.Body = r
  OBVIOUS
<1> HIDE DEF d
<1>3. SpellsProto(p, f + 3 * a + 1) /\ Placed(<<>>, FirstOf(r))
  BY <1>1 DEF SpellingInv, ProtoPlaced, OperandPlaced
<1>4. f \in Int /\ a \in Nat /\ p.first = f /\ Len(p.Args) = a
  BY LenProperties DEF TypeInv, TypeOK, Prototype
<1>5. FirstOf(r) = f + 3 * a + 2
  BY <1>3, PlacedEmpty DEF BodyStart
<1>6. SpellsDefinition(d)
  <2>1. ASSUME NEW i \in 1 .. a
        PROVE  /\ Is(f + 3 * i - 2, "identifier", p.Args[i])
               /\ IsPunct(f + 3 * i - 1, ":") /\ IsPunct(f + 3 * i, "identifier")
    <3>1. /\ f + 3 * i - 2 <= f + 3 * a + 1 /\ f + 3 * i - 1 <= f + 3 * a + 1
          /\ f + 3 * i <= f + 3 * a + 1
      BY <1>4, <2>1
    <3> QED
      BY <1>3, <1>4, <2>1, <3>1 DEF SpellsProto
  <2>2. Is(f, "identifier", p.Name) /\ IsPunct(f + 3 * a + 1, "func_arrow")
    BY <1>3, <1>4 DEF SpellsProto
  <2> QED
    BY <1>2, <1>4, <1>5, <2>1, <2>2 DEF SpellsDefinition
<1>7. \A i, k, text : Is(i, k, text)' = Is(i, k, text) /\ IsPunct(i, k)' = IsPunct(i, k)
  BY <1>1 DEF Is, IsPunct
<1>8. ReadsOn /\ \A ids : StayPut(ids)
  BY <1>1, SameNodesStay DEF ReadsOn
<1>9. /\ Len(lines) \in Nat /\ Len(lines') = Len(lines) + 1 /\ DOMAIN lines' = 1 .. Len(lines) + 1
      /\ DOMAIN lines = 1 .. Len(lines)
      /\ \A i \in 1 .. Len(lines) : lines'[i] = lines[i]
      /\ lines'[Len(lines) + 1] = d
  <2> DEFINE D == Definition(NodeIds)
  <2>1. lines \in Seq(D)
    BY DEF TypeInv, TypeOK
  <2> HIDE DEF D
  <2>2. lines \in Seq(D \cup {d}) /\ d \in D \cup {d}
    BY <2>1, SeqMonotonic
  <2>3. lines' \in Seq(D \cup {d})
    BY <1>1, <2>2, AppendLast
  <2> QED
    BY <1>1, <2>1, <2>2, <2>3, AppendLast, LenProperties
<1>10. r \in NodeIds /\ p \in Prototype
  BY <1>1 DEF TypeInv, TypeOK, NodeIds
<1>11. ASSUME NEW i \in DOMAIN lines' PROVE SpellsDefinition(lines[i])'
  <2>0. \E e : e = lines'[i]
    OBVIOUS
  <2> PICK e : e = lines'[i]
    BY <2>0
  <2>1. e \in Definition(NodeIds) /\ SpellsDefinition(e)
    <3>1. CASE i \in 1 .. Len(lines)
      <4>1. e = lines[i]
        BY <1>9, <3>1
      <4>2. i \in DOMAIN lines /\ lines \in Seq(Definition(NodeIds))
        BY <1>9, <3>1 DEF TypeInv, TypeOK
      <4> QED
        BY <4>1, <4>2, ElementOfSeq DEF SpellingInv, ASTSpellsSource
    <3>2. CASE i = Len(lines) + 1
      <4>1. e = d
        BY <1>9, <3>2
      <4>2. d \in Definition(NodeIds)
        BY <1>10 DEF Definition, d
      <4> QED
        BY <1>6, <4>1, <4>2
    <3> QED
      BY <1>9, <1>11, <3>1, <3>2
  <2>2. SpellsDefinition(e)'
    BY <1>8, <2>1, DefinitionStays
  <2> QED
    BY <2>2
<1>12. ASSUME NEW n \in DOMAIN nodes' PROVE SpellsNode(nodes[n])'
  <2>0. \E e : e = nodes[n]
    OBVIOUS
  <2> PICK e : e = nodes[n]
    BY <2>0
  <2>1. nodes'[n] = e /\ n \in 1 .. Len(nodes) /\ e \in Node(NodeIds) /\ SpellsNode(e) /\ n \in NodeIds
    BY <1>1, <1>12, ElementOfSeq DEF TypeInv, TypeOK, SpellingInv, ASTSpellsSource, NodeIds
  <2>2. e.kids \in Seq(NodeIds) /\ (e.kind = "Binary" => Len(e.kids) = 2)
    BY <2>1 DEF Node, TypeInv, BinaryHasTwoKids
  <2>3. SpellsNode(e)'
    BY <1>8, <2>1, <2>2, SpellsNodeStays
  <2> QED
    BY <2>1, <2>3
<1> QED
  BY <1>11, <1>12 DEF ASTSpellsSource

LEMMA SpelledStep ==
  ASSUME TypeInv, TypeInv', ASTSound, SpellingInv, [Next]_vars
  PROVE  ASTSpellsSource'
<1>0. /\ ReadsOn /\ ASTSpellsSource /\ Len(nodes) \in Nat
      /\ lines \in Seq(Definition(1 .. Len(nodes)))
  BY StepReadsOn, LenProperties DEF SpellingInv, TypeInv, TypeOK, NodeIds
<1>q. ASSUME nodes' = nodes, lines' = lines PROVE ASTSpellsSource'
  <2>1. StayPut(1 .. Len(nodes))
    BY <1>q, SameNodesStay
  <2>2. Len(nodes') = Len(nodes) /\ \A n \in 1 .. Len(nodes) : nodes'[n] = nodes[n]
    BY <1>q
  <2> QED
    BY <1>0, <1>q, <2>1, <2>2, SpelledOn
<1>a. ASSUME NEW e, nodes' = Append(nodes, e), e.paren = 0, e.first \in Int, e.last \in Int,
             lines' = lines, LastSpelled'
      PROVE  ASTSpellsSource'
  <2>1. /\ Len(nodes') = Len(nodes) + 1 /\ StayPut(1 .. Len(nodes))
        /\ \A n \in 1 .. Len(nodes) : nodes'[n] = nodes[n]
    BY <1>a, NodePlaced DEF NodeIds
  <2> QED
    BY <1>0, <1>a, <2>1, SpelledOn
<1>n. ASSUME NEW k, NEW v, NEW kids, NEW a \in Int, NEW b \in Int,
             nodes' = Append(nodes, NewNode(k, v, kids, a, b)), lines' = lines, LastSpelled'
      PROVE  ASTSpellsSource'
  <2>1. /\ NewNode(k, v, kids, a, b).paren = 0
        /\ NewNode(k, v, kids, a, b).first = a /\ NewNode(k, v, kids, a, b).last = b
    BY DEF NewNode
  <2> QED
    BY <1>a, <1>n, <2>1
<1>t. Len(toks) \in Nat /\ (stack # <<>> => Top.first \in Int /\ Top.kids \in Seq(NodeIds) /\ Shape(Top))
  BY TopFrame, LenProperties DEF TypeInv, TypeOK, Frame
<1>1. CASE NumberExpr
  BY <1>1, <1>n, <1>t, NumberPlaced DEF NumberExpr, ReturnNew, defVars
<1>2. CASE IdentifierVariable
  BY <1>2, <1>n, <1>t, VariablePlaced DEF IdentifierVariable, ReturnNew, defVars, TypeInv, TopOK
<1>3. ASSUME NEW args, CloseCall(args), stack # <<>>, LastSpelled' PROVE ASTSpellsSource'
  BY <1>3, <1>n, <1>t DEF CloseCall, ReturnNew, defVars
<1>4. CASE CallNoArgs
  BY <1>3, <1>4, EmptyCallPlaced DEF CallNoArgs, TypeInv, TopOK
<1>5. CASE CallArg
  <2>1. CASE CurTok = ")"
    BY <1>3, <1>5, <2>1, CallArgPlaced DEF CallArg, Returning
  <2>2. CASE CurTok # ")"
    BY <1>5, <1>q, <2>2 DEF CallArg, Fail, defVars
  <2> QED
    BY <2>1, <2>2
<1>6. ASSUME stack # <<>>, Top.fn \in {"RHS", "Merge"}, pc = "Return", err = "none", MergeOperands(ret)
      PROVE  ASTSpellsSource'
  <2>1. Top.kids[1] \in NodeIds /\ ret \in NodeIds
    BY <1>6, <1>t, ElementOfSeq DEF Shape, Climbing, TypeInv, TypeOK, NodeIds
  <2>2. FirstOf(Top.kids[1]) \in Int /\ LastOf(ret) \in Int
    BY <2>1, NodeHasPlace
  <2>3. /\ lines' = lines
        /\ nodes' = Append(nodes, NewNode("Binary", Top.val, <<Top.kids[1], ret>>,
                                          FirstOf(Top.kids[1]), LastOf(ret)))
    BY <1>6 DEF MergeOperands, defVars
  <2>4. LastSpelled'
    BY <1>6, MergePlaced
  <2> QED
    BY <1>n, <2>2, <2>3, <2>4
<1>7. CASE BinOpMerge
  BY <1>6, <1>7 DEF BinOpMerge, Returning
<1>8. CASE BinOpOperand
  <2>1. CASE NextBindsTighter(Top.val)
    BY <1>8, <1>q, <2>1, Zenon DEF BinOpOperand, defVars
  <2>2. CASE ~NextBindsTighter(Top.val)
    <3>1. Returning("RHS") /\ MergeOperands(ret)
      BY <1>8, <2>2, Zenon DEF BinOpOperand
    <3> QED
      BY <1>6, <3>1 DEF Returning
  <2> QED
    BY <2>1, <2>2
<1>9. CASE ParenClose
  <2>1. CASE CurTok = ")"
    <3> DEFINE k == Len(nodes) - 1
    <3>1. /\ LastSpelled' /\ Len(nodes) \in Nat \ {0} /\ Len(nodes') = Len(nodes)
          /\ StayPut(1 .. k) /\ \A m \in 1 .. k : nodes'[m] = nodes[m]
      BY <1>9, <2>1, ParenClosePlaced
    <3>2. lines' = lines /\ lines \in Seq(Definition(1 .. k))
      BY <1>9, <2>1 DEF ParenClose, Returning, defVars, SpellingInv, Newest, Older
    <3>3. k \in Nat /\ k <= Len(nodes) /\ Len(nodes') = k + 1
      BY <3>1
    <3> HIDE DEF k
    <3> QED
      BY <1>0, <3>1, <3>2, <3>3, SpelledOn
  <2>2. CASE CurTok # ")"
    BY <1>9, <1>q, <2>2 DEF ParenClose, Fail, defVars
  <2> QED
    BY <2>1, <2>2
<1>10. CASE DefinitionDone
  BY <1>10, DefinitionSpelled
<1>11. CASE Construct \/ ParseModule \/ ParsePrototype \/ ModuleError \/ Propagate \/ UNCHANGED vars
  <2>1. nodes' = nodes /\ lines' = lines
    BY <1>11 DEF Construct, ParseModule, ModuleEnd, ModuleLineBreak, ModuleDefinition, ModuleUnexpected,
       ParsePrototype, PrototypeArg, PrototypeDelimiter, PrototypeType, PrototypeArrow, ModuleError, Propagate,
       Fail, vars, defVars
  <2> QED
    BY <1>q, <2>1
<1>12. CASE PrimaryUnknown \/ ParenExpr \/ IdentifierExpr \/ IdentifierCall \/ CallFirstArg \/ ExpressionOperand
            \/ BinOpDone \/ BinOpOperator
  <2>1. nodes' = nodes /\ lines' = lines
    BY <1>12 DEF PrimaryUnknown, ParenExpr, IdentifierExpr, IdentifierCall, CallFirstArg, ExpressionOperand,
       BinOpDone, BinOpOperator, Fail, defVars
  <2> QED
    BY <1>q, <2>1
<1> QED
  BY <1>1, <1>2, <1>4, <1>5, <1>7, <1>8, <1>9, <1>10, <1>11, <1>12
     DEF Next, ParsePrimary, ParseIdentifierExpr, ParseBinOpRHS, Terminated

LEMMA SpellingInvariant == Spec => [](TypeInv /\ ASTSound /\ SpellingInv)
<1>1. Init => SpellingInv
  <2> SUFFICES ASSUME Init PROVE SpellingInv
    OBVIOUS
  <2>1. nodes = <<>> /\ lines = <<>> /\ toks = <<>> /\ pc = "Construct"
    BY DEF Init
  <2>2. DOMAIN <<>> = {}
    OBVIOUS
  <2> QED
    BY <2>1, <2>2 DEF SpellingInv, ASTSpellsSource, Registers, Newest, ProtoPlaced, OperandPlaced
<1>2. TypeInv /\ TypeInv' /\ ASTSound /\ SpellingInv /\ [Next]_vars => SpellingInv'
  BY SpelledStep, RegistersStep, ReadsOrNot, NewestStep, ProtoPlacedStep, OperandPlacedStep DEF SpellingInv
<1> QED
  BY <1>1, <1>2, ASTInvariant, PTL DEF Spec

\* The AST spells the source, whatever the source: each node stands for the tokens it was
\* made from, in their order, with the text they had when they were current, and each
\* definition is followed by its own body. (Parser.cpp keeps the text of the current token
\* only, in the lexer's registers, and reads it before or after the next GetTok.)
THEOREM ASTSpelled == Spec => []ASTSpellsSource
<1>1. SpellingInv => ASTSpellsSource
  BY DEF SpellingInv
<1> QED
  BY <1>1, SpellingInvariant, PTL
-----------------------------------------------------------------------------
(***************************************************************************)
(* The definitions tile the source.                                        *)
(***************************************************************************)
\* ParseModule has called ParseDefinition, and it has not failed.
Inside ==
  pc \in {"Arg", "Delimiter", "Type", "Primary", "Identifier", "Args", "Loop"}
    \/ (pc = "Return" /\ err = "none")

Covers(d, t) == t \in d.Proto.first .. LastOf(d.Body)

\* The definitions follow one another, and up to token end only line breaks are outside.
Tiled(end) ==
  /\ \A i \in 1 .. Len(lines) : /\ 1 <= lines[i].Proto.first /\ lines[i].Proto.first <= LastOf(lines[i].Body)
                               /\ LastOf(lines[i].Body) <= end
  /\ \A i, j \in 1 .. Len(lines) : i < j => LastOf(lines[i].Body) < lines[j].Proto.first
  /\ \A t \in 1 .. end :
       toks[t].kind # "line_break" <=> \E i \in 1 .. Len(lines) : Covers(lines[i], t)

TileInv ==
  /\ pc = "Construct" => toks = <<>> /\ lines = <<>>
  /\ pc = "Module" \/ (pc = "Done" /\ err = "none") => Tiled(Len(toks) - 1)
  /\ Inside => /\ proto.first \in 1 .. Len(toks) - 1
               /\ Tiled(proto.first - 1)
               /\ \A t \in proto.first .. Len(toks) - 1 : toks[t].kind # "line_break"

\* A step leaves the nodes alone, makes one, or puts the parentheses around the newest.
LEMMA NodesStep ==
  ASSUME TypeInv, [Next]_vars
  PROVE  \/ nodes' = nodes
         \/ \E e : /\ nodes' = Append(nodes, e)
                   /\ e.paren = 0 /\ e.first \in Int /\ e.last \in Int
         \/ ParenClose /\ CurTok = ")"
<1>n. ASSUME NEW k, NEW v, NEW kids, NEW a \in Int, NEW b \in Int,
             nodes' = Append(nodes, NewNode(k, v, kids, a, b))
      PROVE  \E e : nodes' = Append(nodes, e) /\ e.paren = 0 /\ e.first \in Int /\ e.last \in Int
  <2>1. /\ NewNode(k, v, kids, a, b).paren = 0
        /\ NewNode(k, v, kids, a, b).first = a /\ NewNode(k, v, kids, a, b).last = b
    BY DEF NewNode
  <2> QED
    BY <1>n, <2>1
<1>t. Len(toks) \in Nat /\ (stack # <<>> => Top.first \in Int /\ Top.kids \in Seq(NodeIds) /\ Shape(Top))
  BY TopFrame, LenProperties DEF TypeInv, TypeOK, Frame
<1>1. CASE NumberExpr
  BY <1>1, <1>n, <1>t DEF NumberExpr, ReturnNew
<1>2. CASE IdentifierVariable
  BY <1>2, <1>n, <1>t DEF IdentifierVariable, ReturnNew, TypeInv, TopOK
<1>3. ASSUME NEW args, CloseCall(args), stack # <<>>
      PROVE  \E e : nodes' = Append(nodes, e) /\ e.paren = 0 /\ e.first \in Int /\ e.last \in Int
  BY <1>3, <1>n, <1>t DEF CloseCall, ReturnNew
<1>4. CASE CallNoArgs
  BY <1>3, <1>4 DEF CallNoArgs, TypeInv, TopOK
<1>5. CASE CallArg
  <2>1. CASE CurTok = ")"
    BY <1>3, <1>5, <2>1 DEF CallArg, Returning
  <2>2. CASE CurTok # ")"
    BY <1>5, <2>2 DEF CallArg, Fail
  <2> QED
    BY <2>1, <2>2
<1>6. ASSUME stack # <<>>, Top.fn \in {"RHS", "Merge"}, pc = "Return", err = "none", MergeOperands(ret)
      PROVE  \E e : nodes' = Append(nodes, e) /\ e.paren = 0 /\ e.first \in Int /\ e.last \in Int
  <2>1. Top.kids[1] \in NodeIds /\ ret \in NodeIds
    BY <1>6, <1>t, ElementOfSeq DEF Shape, Climbing, TypeInv, TypeOK, NodeIds
  <2>2. FirstOf(Top.kids[1]) \in Int /\ LastOf(ret) \in Int
    BY <2>1, NodeHasPlace
  <2>3. nodes' = Append(nodes, NewNode("Binary", Top.val, <<Top.kids[1], ret>>,
                                       FirstOf(Top.kids[1]), LastOf(ret)))
    BY <1>6 DEF MergeOperands
  <2> QED
    BY <1>n, <2>2, <2>3
<1>7. CASE BinOpMerge
  BY <1>6, <1>7 DEF BinOpMerge, Returning
<1>8. CASE BinOpOperand
  <2>1. CASE NextBindsTighter(Top.val)
    BY <1>8, <2>1, Zenon DEF BinOpOperand
  <2>2. CASE ~NextBindsTighter(Top.val)
    <3>1. Returning("RHS") /\ MergeOperands(ret)
      BY <1>8, <2>2, Zenon DEF BinOpOperand
    <3> QED
      BY <1>6, <3>1 DEF Returning
  <2> QED
    BY <2>1, <2>2
<1>9. CASE ParenClose
  BY <1>9 DEF ParenClose, Fail
<1>11. CASE Construct \/ ParseModule \/ ParsePrototype \/ ModuleError \/ Propagate \/ DefinitionDone \/ UNCHANGED vars
  BY <1>11 DEF Construct, ParseModule, ModuleEnd, ModuleLineBreak, ModuleDefinition, ModuleUnexpected,
     ParsePrototype, PrototypeArg, PrototypeDelimiter, PrototypeType, PrototypeArrow, ModuleError, Propagate,
     DefinitionDone, Fail, vars
<1>12. CASE PrimaryUnknown \/ ParenExpr \/ IdentifierExpr \/ IdentifierCall \/ CallFirstArg \/ ExpressionOperand
            \/ BinOpDone \/ BinOpOperator
  BY <1>12 DEF PrimaryUnknown, ParenExpr, IdentifierExpr, IdentifierCall, CallFirstArg, ExpressionOperand,
     BinOpDone, BinOpOperator, Fail
<1> QED
  BY <1>1, <1>2, <1>4, <1>5, <1>7, <1>8, <1>9, <1>11, <1>12
     DEF Next, ParsePrimary, ParseIdentifierExpr, ParseBinOpRHS, Terminated

\* No step moves a body that a definition has.
LEMMA BodiesStay ==
  ASSUME TypeInv, ASTSound, SpellingInv, [Next]_vars
  PROVE  \E ids : ids \subseteq NodeIds /\ lines \in Seq(Definition(ids)) /\ StayPut(ids)
<1>0. lines \in Seq(Definition(NodeIds))
  BY DEF TypeInv, TypeOK
<1>1. CASE nodes' = nodes
  BY <1>0, <1>1, SameNodesStay
<1>2. CASE \E e : nodes' = Append(nodes, e) /\ e.paren = 0 /\ e.first \in Int /\ e.last \in Int
  BY <1>0, <1>2, NodePlaced
<1>3. CASE ParenClose /\ CurTok = ")"
  <2> DEFINE k == Len(nodes) - 1
  <2>1. Len(nodes) \in Nat \ {0} /\ StayPut(1 .. k)
    BY <1>3, ParenClosePlaced
  <2>2. lines \in Seq(Definition(1 .. k))
    BY <1>3 DEF ParenClose, Returning, SpellingInv, Newest, Older
  <2>3. 1 .. k \subseteq NodeIds
    BY <2>1 DEF NodeIds
  <2> HIDE DEF k
  <2> QED
    BY <2>1, <2>2, <2>3
<1> QED
  BY <1>1, <1>2, <1>3, NodesStep

LEMMA LinesAre ==
  ASSUME TypeInv
  PROVE  /\ Len(lines) \in Nat /\ Len(toks) \in Nat /\ (pc # "Construct" => Len(toks) # 0)
         /\ \A i \in 1 .. Len(lines) : /\ lines[i].Body \in NodeIds
                                      /\ LastOf(lines[i].Body) \in Int
                                      /\ lines[i].Proto.first \in Nat
<1>1. lines \in Seq(Definition(NodeIds))
  BY DEF TypeInv, TypeOK
<1>2. ASSUME NEW i \in 1 .. Len(lines)
      PROVE  lines[i].Body \in NodeIds /\ LastOf(lines[i].Body) \in Int /\ lines[i].Proto.first \in Nat
  <2>1. lines[i] \in Definition(NodeIds)
    BY <1>1, <1>2, ElementOfSeq
  <2>2. lines[i].Body \in NodeIds /\ lines[i].Proto.first \in Nat
    BY <2>1 DEF Definition, Prototype
  <2> QED
    BY <2>2, NodeHasPlace
<1>3. pc # "Construct" => Len(toks) # 0
  BY EmptySeq DEF TypeInv, TypeOK
<1> QED
  BY <1>1, <1>2, <1>3, LenProperties DEF TypeInv, TypeOK

LEMMA BodiesSame ==
  ASSUME TypeInv, ASTSound, SpellingInv, [Next]_vars, lines' = lines, NEW i \in 1 .. Len(lines)
  PROVE  LastOf(lines[i].Body)' = LastOf(lines[i].Body)
<1>1. PICK ids : ids \subseteq NodeIds /\ lines \in Seq(Definition(ids)) /\ StayPut(ids)
  BY BodiesStay
<1>2. lines[i] \in Definition(ids)
  BY <1>1, ElementOfSeq
<1>3. lines[i].Body \in ids
  BY <1>2 DEF Definition
<1> QED
  BY <1>1, <1>3 DEF StayPut, LastOf

\* What is tiled stays so while no definition is added.
LEMMA TiledStays ==
  ASSUME TypeInv, ASTSound, SpellingInv, [Next]_vars, lines' = lines, NEW end \in Int, end <= Len(toks), Tiled(end)
  PROVE  Tiled(end)'
<1>2. ASSUME NEW i \in 1 .. Len(lines)
      PROVE  LastOf(lines[i].Body)' = LastOf(lines[i].Body) /\ \A t : Covers(lines[i], t)' = Covers(lines[i], t)
  <2>1. LastOf(lines[i].Body)' = LastOf(lines[i].Body)
    BY <1>2, BodiesSame
  <2> QED
    BY <2>1 DEF Covers
<1>3. \A t \in 1 .. end : toks'[t] = toks[t]
  BY StepReadsOn, LinesAre, LenProperties DEF ReadsOn, TypeInv, TypeOK
<1> QED
  BY <1>2, <1>3 DEF Tiled

\* A definition goes on: what it eats is no line break.
LEMMA InsideGoesOn ==
  ASSUME TypeInv, ASTSound, SpellingInv, TileInv, [Next]_vars, Inside, Inside',
         lines' = lines, proto'.first = proto.first,
         toks' = toks \/ (GetTok /\ CurTok # "line_break")
  PROVE  TileInv'
<1> DEFINE n == Len(toks)
           first == proto.first
<1>1. n \in Nat /\ first \in 1 .. n - 1 /\ Tiled(first - 1) /\ (\A t \in first .. n - 1 : toks[t].kind # "line_break")
  BY LinesAre DEF TileInv
<1>2. Tiled(first - 1)'
  BY <1>1, TiledStays
<1>3. pc' \notin {"Construct", "Module", "Done"}
  BY DEF Inside
<1>4. first \in 1 .. Len(toks') - 1 /\ \A t \in first .. Len(toks') - 1 : toks'[t].kind # "line_break"
  <2>1. CASE toks' = toks
    BY <1>1, <2>1
  <2>2. CASE GetTok /\ CurTok # "line_break"
    <3>1. Len(toks') = n + 1 /\ \A t \in 1 .. n : toks'[t] = toks[t]
      BY <2>2, OneTokenOn, LenProperties DEF ReadsOn, TypeInv, TypeOK
    <3>2. toks[n].kind # "line_break"
      <4>1. toks # <<>>
        BY <1>1, EmptySeq
      <4> QED
        BY <2>2, <4>1, CurrentToken DEF IsPunct
    <3> HIDE DEF n, first
    <3> QED
      BY <1>1, <3>1, <3>2
  <2> QED
    BY <2>1, <2>2
<1> QED
  BY <1>2, <1>3, <1>4 DEF TileInv

\* No definition is open, or it has failed.
LEMMA OutsideStays ==
  ASSUME (pc' = "Return" /\ err' # "none") \/ (pc' = "Done" /\ err' # "none")
  PROVE  TileInv'
BY DEF TileInv, Inside

LEMMA ModuleTiles ==
  ASSUME TypeInv, ASTSound, SpellingInv, TileInv, [Next]_vars, ParseModule
  PROVE  TileInv'
<1>0. \E n : n = Len(toks)
  OBVIOUS
<1> PICK n : n = Len(toks)
  BY <1>0
<1>1. n \in Nat \ {0} /\ pc = "Module" /\ Tiled(n - 1) /\ toks[n].kind = CurTok
  <2>1. pc = "Module"
    BY DEF ParseModule, ModuleEnd, ModuleLineBreak, ModuleDefinition, ModuleUnexpected
  <2>2. toks # <<>>
    BY <2>1 DEF TypeInv, TypeOK
  <2> QED
    BY <2>1, <2>2, CurrentToken DEF IsPunct, TileInv
<1>2. CASE ModuleEnd
  <2>1. lines' = lines /\ toks' = toks /\ pc' = "Done"
    BY <1>2 DEF ModuleEnd, lexVars, defVars
  <2>2. Tiled(n - 1)'
    BY <1>1, <2>1, TiledStays
  <2> QED
    BY <2>1, <2>2 DEF TileInv, Inside
<1>3. ASSUME GetTok, lines' = lines
      PROVE  /\ Len(toks') = n + 1 /\ Tiled(n - 1)' /\ toks'[n].kind = CurTok
             /\ \A t \in 1 .. n : toks'[t] = toks[t]
  <2>1. Len(toks') = n + 1 /\ \A t \in 1 .. n : toks'[t] = toks[t]
    BY <1>3, OneTokenOn, LenProperties DEF ReadsOn, TypeInv, TypeOK
  <2>2. Tiled(n - 1)'
    BY <1>1, <1>3, TiledStays
  <2> QED
    BY <1>1, <2>1, <2>2
<1>4. CASE ModuleLineBreak
  <2>1. GetTok /\ lines' = lines /\ CurTok = "line_break" /\ pc' = "Module"
    BY <1>4 DEF ModuleLineBreak, defVars
  <2>2. Len(toks') = n + 1 /\ Tiled(n - 1)' /\ toks'[n].kind = "line_break"
    BY <1>3, <2>1
  <2>4. \A i \in 1 .. Len(lines') : LastOf(lines[i].Body)' \in Int /\ lines'[i].Proto.first \in Nat
    BY <2>1, LinesAre, BodiesSame
  <2>5. n \in Nat \ {0}
    BY <1>1
  <2>6. \A i \in 1 .. Len(lines') : /\ 1 <= lines'[i].Proto.first
                                    /\ lines'[i].Proto.first <= LastOf(lines[i].Body)'
                                    /\ LastOf(lines[i].Body)' <= n - 1
    BY <2>2 DEF Tiled
  <2>7. \A i, j \in 1 .. Len(lines') : i < j => LastOf(lines[i].Body)' < lines'[j].Proto.first
    BY <2>2 DEF Tiled
  <2>8. ASSUME NEW t \in 1 .. n
        PROVE  toks'[t].kind # "line_break" <=> \E i \in 1 .. Len(lines') : Covers(lines[i], t)'
    <3>1. CASE t = n
      BY <2>2, <2>4, <2>5, <2>6, <3>1 DEF Covers
    <3>2. CASE t \in 1 .. n - 1
      BY <2>2, <3>2 DEF Tiled
    <3> QED
      BY <2>5, <2>8, <3>1, <3>2
  <2>9. Tiled(n)'
    BY <2>4, <2>5, <2>6, <2>7, <2>8 DEF Tiled
  <2>10. Len(toks') - 1 = n
    BY <2>2, <2>5
  <2> QED
    BY <2>1, <2>9, <2>10 DEF TileInv, Inside
<1>5. CASE ModuleDefinition
  <2>1. GetTok /\ lines' = lines /\ CurTok = "identifier" /\ pc' = "Arg" /\ proto'.first = n
    BY <1>5 DEF ModuleDefinition
  <2>2. Len(toks') = n + 1 /\ Tiled(n - 1)' /\ toks'[n].kind = "identifier" /\ n \in Nat \ {0}
    BY <1>1, <1>3, <2>1
  <2>3. proto'.first \in 1 .. Len(toks') - 1 /\ \A t \in proto'.first .. Len(toks') - 1 : t = n
    BY <2>1, <2>2
  <2>4. Tiled(proto.first - 1)'
    BY <2>1, <2>2
  <2> QED
    BY <2>1, <2>2, <2>3, <2>4 DEF TileInv
<1>6. CASE ModuleUnexpected
  BY <1>6, OutsideStays DEF ModuleUnexpected, Fail
<1> QED
  BY <1>2, <1>4, <1>5, <1>6 DEF ParseModule

\* A definition more: it lies between those there were and the current token.
LEMMA DefinitionTiles ==
  ASSUME TypeInv, ASTSound, SpellingInv, TileInv, [Next]_vars, DefinitionDone
  PROVE  TileInv'
<1>r. \E n, m, first, r, p : n = Len(toks) /\ m = Len(lines) /\ first = proto.first /\ r = ret /\ p = proto
  OBVIOUS
<1> PICK n, m, first, r, p : n = Len(toks) /\ m = Len(lines) /\ first = proto.first /\ r = ret /\ p = proto
  BY <1>r
<1> DEFINE d == [Proto |-> p, Body |-> r]
<1>0. /\ pc = "Return" /\ err = "none" /\ lines' = Append(lines, d) /\ pc' = "Module"
      /\ toks' = toks /\ nodes' = nodes /\ proto' = proto /\ ret' = ret
  BY DEF DefinitionDone, lexVars
<1>1. /\ n \in Nat /\ m \in Nat /\ first \in 1 .. n - 1
      /\ Tiled(first - 1) /\ (\A t \in first .. n - 1 : toks[t].kind # "line_break")
  BY <1>0, LinesAre DEF TileInv, Inside
<1>2. LastOf(ret) = n - 1
  BY <1>0 DEF SpellingInv, OperandPlaced
<1>3. /\ Len(lines') = m + 1 /\ lines'[m + 1] = d
      /\ \A i \in 1 .. m : lines'[i] = lines[i]
  <2> DEFINE D == Definition(NodeIds)
  <2>1. lines \in Seq(D)
    BY DEF TypeInv, TypeOK
  <2> HIDE DEF D
  <2>2. lines \in Seq(D \cup {d}) /\ d \in D \cup {d}
    BY <2>1, SeqMonotonic
  <2> HIDE DEF d
  <2> QED
    BY <1>0, <2>2, AppendLast, LenProperties
<1>4. d.Proto.first = first /\ d.Body = r
  OBVIOUS
<1> HIDE DEF d
<1>5. /\ \A i \in 1 .. m : /\ LastOf(lines[i].Body)' = LastOf(lines[i].Body)
                           /\ LastOf(lines[i].Body) \in Int /\ LastOf(lines[i].Body) < first
                           /\ \A t : Covers(lines[i], t)' <=> Covers(lines[i], t)
      /\ LastOf(lines[m + 1].Body)' = n - 1 /\ lines'[m + 1].Proto.first = first
      /\ \A t : Covers(lines[m + 1], t)' <=> t \in first .. n - 1
  <2>1. \A e : LastOf(e)' = LastOf(e)
    BY <1>0 DEF LastOf
  <2>2. \A i \in 1 .. m : /\ LastOf(lines[i].Body)' = LastOf(lines[i].Body)
                          /\ LastOf(lines[i].Body) \in Int /\ LastOf(lines[i].Body) < first
    BY <1>1, <1>3, <2>1, LinesAre DEF Tiled, LastOf
  <2>3. LastOf(lines[m + 1].Body)' = n - 1 /\ lines'[m + 1].Proto.first = first
    BY <1>0, <1>2, <1>3, <1>4 DEF LastOf
  <2> QED
    BY <1>3, <2>2, <2>3 DEF Covers
<1>6. Tiled(n - 1)'
  <2>0. 1 .. Len(lines') = 1 .. m + 1 /\ \A i \in 1 .. m + 1 : i \in 1 .. m \/ i = m + 1
    BY <1>1, <1>3
  <2>1. \A i \in 1 .. Len(lines') : /\ 1 <= lines'[i].Proto.first
                                    /\ lines'[i].Proto.first <= LastOf(lines[i].Body)'
                                    /\ LastOf(lines[i].Body)' <= n - 1
    <3>1. \A i \in 1 .. m : /\ 1 <= lines'[i].Proto.first
                             /\ lines'[i].Proto.first <= LastOf(lines[i].Body)'
      BY <1>1, <1>3, <1>5 DEF Tiled
    <3> QED
      BY <1>1, <1>5, <2>0, <3>1
  <2>2. ASSUME NEW i \in 1 .. Len(lines'), NEW j \in 1 .. Len(lines'), i < j
        PROVE  LastOf(lines[i].Body)' < lines'[j].Proto.first
    <3>1. i \in 1 .. m /\ (j \in 1 .. m \/ j = m + 1)
      BY <1>1, <2>0, <2>2
    <3>2. CASE j \in 1 .. m
      <4>1. LastOf(lines[i].Body) < lines[j].Proto.first
        BY <1>1, <2>2, <3>1, <3>2 DEF Tiled
      <4> QED
        BY <1>3, <1>5, <3>1, <3>2, <4>1
    <3>3. CASE j = m + 1
      BY <1>5, <3>1, <3>3
    <3> QED
      BY <3>1, <3>2, <3>3
  <2>3. ASSUME NEW t \in 1 .. n - 1
        PROVE  toks'[t].kind # "line_break" <=> \E i \in 1 .. Len(lines') : Covers(lines[i], t)'
    <3>1. CASE t \in first .. n - 1
      <4>0. m + 1 \in 1 .. Len(lines')
        BY <1>1, <1>3
      <4>1. Covers(lines[m + 1], t)' /\ m + 1 \in 1 .. Len(lines')
        BY <1>5, <3>1, <4>0
      <4> QED
        BY <1>0, <1>1, <3>1, <4>1
    <3>2. CASE t \in 1 .. first - 1
      <4>1. (\E i \in 1 .. Len(lines') : Covers(lines[i], t)') <=> \E i \in 1 .. m : Covers(lines[i], t)
        <5>1. \A i \in 1 .. m : Covers(lines[i], t)' <=> Covers(lines[i], t)
          BY <1>5
        <5>2. ~Covers(lines[m + 1], t)'
          BY <1>1, <1>5, <3>2
        <5>3. 1 .. m \subseteq 1 .. Len(lines')
          BY <1>1, <2>0
        <5> QED
          BY <2>0, <5>1, <5>2, <5>3
      <4> QED
        BY <1>0, <1>1, <3>2, <4>1 DEF Tiled
    <3> QED
      BY <1>1, <2>3, <3>1, <3>2
  <2> QED
    BY <2>1, <2>2, <2>3 DEF Tiled
<1>7. Tiled(Len(toks) - 1)'
  BY <1>0, <1>6
<1> QED
  BY <1>0, <1>7 DEF TileInv, Inside

LEMMA TileStep ==
  ASSUME TypeInv, ASTSound, SpellingInv, TileInv, [Next]_vars
  PROVE  TileInv'
<1>i. ASSUME Inside, Inside', lines' = lines, proto'.first = proto.first,
             UNCHANGED lexVars \/ (GetTok /\ CurTok # "line_break")
      PROVE  TileInv'
  BY <1>i, InsideGoesOn DEF lexVars
<1>f. ASSUME NEW e \in Error, Fail(e) PROVE TileInv'
  BY <1>f, OutsideStays DEF Fail, Error
<1>1. CASE Construct
  <2>1. Len(toks) = 0 /\ lines = <<>> /\ Len(<<>>) = 0 /\ lines' = lines /\ pc' = "Module"
    BY <1>1, EmptySeq DEF Construct, TileInv, defVars
  <2>2. Len(toks') = 1 /\ Len(lines') = 0
    BY <1>1, <2>1, OneTokenOn DEF Construct
  <2>3. Tiled(0)'
    BY <2>2 DEF Tiled
  <2>4. Len(toks') - 1 = 0
    BY <2>2
  <2> QED
    BY <2>1, <2>3, <2>4 DEF TileInv, Inside
<1>2. CASE ParseModule
  BY <1>2, ModuleTiles
<1>3. CASE ParsePrototype
  <2>1. ParsePrototype /\ (\A e \in Error : ~Fail(e)) => Inside /\ Inside' /\ lines' = lines
    BY DEF ParsePrototype, PrototypeArg, PrototypeDelimiter, PrototypeType, PrototypeArrow, CallExpression,
           Inside, defVars, Error
  <2>2. ParsePrototype /\ (\A e \in Error : ~Fail(e)) => proto'.first = proto.first
    <3>1. [proto EXCEPT !.Args = Append(@, identifier_str)].first = proto.first
      BY DEF TypeInv, TypeOK, Prototype
    <3> QED
      BY <3>1 DEF ParsePrototype, PrototypeArg, PrototypeDelimiter, PrototypeType, PrototypeArrow, defVars, Error
  <2>3. ParsePrototype /\ (\A e \in Error : ~Fail(e)) => GetTok /\ CurTok # "line_break"
    BY DEF ParsePrototype, PrototypeArg, PrototypeDelimiter, PrototypeType, PrototypeArrow, Error
  <2> QED
    BY <1>3, <1>i, <1>f, <2>1, <2>2, <2>3
<1>4. CASE ParsePrimary
  <2>1. CASE PrimaryUnknown
    BY <1>f, <2>1 DEF PrimaryUnknown, Error
  <2>2. CASE NumberExpr \/ ParenExpr \/ IdentifierExpr
    <3>1. Inside /\ Inside' /\ lines' = lines /\ proto' = proto /\ GetTok /\ CurTok # "line_break"
      BY <2>2 DEF NumberExpr, ReturnNew, ParenExpr, IdentifierExpr, Inside, defVars, TypeInv, TopOK
    <3> QED
      BY <1>i, <3>1
  <2> QED
    BY <1>4, <2>1, <2>2 DEF ParsePrimary
<1>c. ASSUME NEW args, Inside, CurTok # "line_break", err = "none", CloseCall(args) PROVE TileInv'
  <2>1. Inside' /\ lines' = lines /\ proto' = proto /\ GetTok
    BY <1>c DEF CloseCall, ReturnNew, Inside, defVars
  <2> QED
    BY <1>c, <1>i, <2>1
<1>5. CASE ParseIdentifierExpr
  <2>1. CASE IdentifierVariable \/ IdentifierCall \/ CallFirstArg
    <3>1. /\ Inside /\ Inside' /\ lines' = lines /\ proto' = proto
          /\ UNCHANGED lexVars \/ (GetTok /\ CurTok # "line_break")
      BY <2>1 DEF IdentifierVariable, ReturnNew, IdentifierCall, CallFirstArg, CallExpression, Inside, defVars,
                  TypeInv, TopOK
    <3> QED
      BY <1>i, <3>1
  <2>2. CASE CallNoArgs
    BY <1>c, <2>2 DEF CallNoArgs, Inside, TypeInv, TopOK
  <2>3. CASE CallArg
    <3>0. Inside /\ err = "none"
      BY <2>3 DEF CallArg, Returning, Inside
    <3>1. CASE CurTok = ")"
      BY <1>c, <2>3, <3>0, <3>1 DEF CallArg
    <3>2. CASE CurTok # ")"
      <4>1. Fail("expected ')' or ','") \/ (CurTok = "," /\ GetTok /\ pc' = "Primary" /\ UNCHANGED <<nodes, ret, err, defVars>>)
        BY <2>3, <3>2 DEF CallArg
      <4>2. CASE Fail("expected ')' or ','")
        BY <1>f, <4>2 DEF Error
      <4>3. CASE CurTok = "," /\ GetTok /\ pc' = "Primary" /\ UNCHANGED <<nodes, ret, err, defVars>>
        <5>1. CurTok # "line_break" /\ GetTok /\ Inside' /\ lines' = lines /\ proto' = proto
          BY <4>3 DEF Inside, defVars
        <5> QED
          BY <1>i, <3>0, <5>1
      <4> QED
        BY <4>1, <4>2, <4>3
    <3> QED
      BY <3>1, <3>2
  <2> QED
    BY <1>5, <2>1, <2>2, <2>3 DEF ParseIdentifierExpr
<1>6. CASE ExpressionOperand \/ BinOpDone \/ BinOpMerge \/ BinOpOperand
  <2>1. Inside /\ err = "none"
    BY <1>6 DEF ExpressionOperand, BinOpDone, BinOpMerge, BinOpOperand, Returning, Inside, TypeInv, TopOK
  <2>2. lines' = lines /\ proto' = proto /\ UNCHANGED lexVars /\ pc' \in {"Loop", "Return"} /\ err' = err
    BY <1>6, Zenon DEF ExpressionOperand, BinOpDone, BinOpMerge, BinOpOperand, MergeOperands, defVars
  <2>3. Inside'
    BY <2>1, <2>2 DEF Inside
  <2> QED
    BY <1>i, <2>1, <2>2, <2>3
<1>7. CASE BinOpOperator
  <2>1. Top.prec \in Nat
    BY <1>7, TopFrame DEF BinOpOperator, TypeInv, TopOK, Frame
  <2>2. CurTok # "line_break"
    <3>1. "line_break" \notin Operators
      BY DEF Operators
    <3> QED
      BY <1>7, <2>1, <3>1, OperatorTokens, PrecedenceRange DEF BinOpOperator
  <2>3. Inside /\ Inside' /\ lines' = lines /\ proto' = proto /\ GetTok
    BY <1>7 DEF BinOpOperator, Inside, defVars
  <2> QED
    BY <1>i, <2>2, <2>3
<1>8. CASE ParenClose
  <2>1. CASE CurTok = ")"
    <3>1. Inside /\ Inside' /\ lines' = lines /\ proto' = proto /\ GetTok /\ CurTok # "line_break"
      BY <1>8, <2>1 DEF ParenClose, Returning, Inside, defVars
    <3> QED
      BY <1>i, <3>1
  <2>2. CASE CurTok # ")"
    BY <1>f, <1>8, <2>2 DEF ParenClose, Error
  <2> QED
    BY <2>1, <2>2
<1>9. CASE DefinitionDone
  BY <1>9, DefinitionTiles
<1>10. CASE Propagate \/ ModuleError
  BY <1>10, OutsideStays DEF Propagate, ModuleError
<1>11. CASE UNCHANGED vars
  <2>1. Tiled(Len(toks) - 1)' = Tiled(Len(toks) - 1) /\ Tiled(proto.first - 1)' = Tiled(proto.first - 1)
    BY <1>11 DEF vars, lexVars, defVars, Tiled, Covers, LastOf
  <2> QED
    BY <1>11, <2>1 DEF vars, lexVars, defVars, TileInv, Inside
<1> QED
  BY <1>1, <1>2, <1>3, <1>4, <1>5, <1>6, <1>7, <1>8, <1>9, <1>10, <1>11 DEF Next, ParseBinOpRHS, Terminated

LEMMA TilingHolds == Spec => []TileInv
<1>1. Init => TileInv
  BY DEF Init, TileInv, Inside
<1> QED
  BY <1>1, TileStep, SpellingInvariant, PTL DEF Spec

\* In a module that parsed, every token but line breaks and the end of file is in exactly
\* one definition: ParseModule skips nothing else, and a definition takes no line break
\* and leaves the token after it to the module.
THEOREM SourceTiled == Spec => []DefinitionsTileSource
<1>1. ASSUME TypeInv, SpellingInv, TileInv, FinishedAtEof, NeverReadsPastEof PROVE DefinitionsTileSource
  <2> SUFFICES ASSUME pc = "Done", err = "none", NEW t \in DOMAIN toks
               PROVE  toks[t].kind \notin {"line_break", "eof"} <=>
                        Cardinality({i \in DOMAIN lines :
                                       t \in lines[i].Proto.first .. LastOf(lines[i].Body)}) = 1
    BY DEF DefinitionsTileSource
  <2> DEFINE n == Len(toks)
             S == {i \in DOMAIN lines : t \in lines[i].Proto.first .. LastOf(lines[i].Body)}
  <2>0. toks # <<>> /\ toks \in Seq(Token) /\ lines \in Seq(Definition(NodeIds))
    BY <1>1 DEF TypeInv, TypeOK
  <2>a. n \in Nat \ {0} /\ DOMAIN toks = 1 .. n /\ DOMAIN lines = 1 .. Len(lines)
    BY <1>1, <2>0, CurrentToken
  <2>b. Tiled(n - 1) /\ toks[n].kind = "eof"
    BY <1>1, <2>0, CurrentToken DEF TileInv, FinishedAtEof, IsPunct
  <2>c. \A i \in 1 .. Len(lines) : LastOf(lines[i].Body) \in Int /\ lines[i].Proto.first \in Nat
    BY <1>1, LinesAre
  <2>d. \A i \in 1 .. Len(lines), u \in Int :
          Covers(lines[i], u) <=> lines[i].Proto.first <= u /\ u <= LastOf(lines[i].Body)
    BY <2>c DEF Covers
  <2>1. n \in Nat \ {0} /\ t \in 1 .. n /\ DOMAIN lines = 1 .. Len(lines)
    BY <2>a
  <2>2. S = {i \in 1 .. Len(lines) : Covers(lines[i], t)}
    BY <2>1 DEF Covers
  <2>3. \A i, j \in S : i = j
    <3> SUFFICES ASSUME NEW i \in S, NEW j \in S, i < j PROVE FALSE
      BY <2>2, LinesAre
    <3>1. i \in 1 .. Len(lines) /\ j \in 1 .. Len(lines) /\ Covers(lines[i], t) /\ Covers(lines[j], t)
      BY <2>2
    <3>2. LastOf(lines[i].Body) < lines[j].Proto.first
      BY <2>b, <3>1 DEF Tiled
    <3> QED
      BY <2>c, <2>d, <2>1, <3>1, <3>2
  <2>4. (Cardinality(S) = 1) <=> S # {}
    <3>1. CASE S = {}
      BY <3>1, FS_EmptySet
    <3>2. CASE S # {}
      <4>1. PICK i : i \in S
        BY <3>2
      <4>2. S = {i}
        BY <2>3, <4>1
      <4> QED
        BY <3>2, <4>2, FS_Singleton
    <3> QED
      BY <3>1, <3>2
  <2> HIDE DEF S, n
  <2>5. CASE t = n
    <3>1. \A i \in 1 .. Len(lines) : ~Covers(lines[i], t)
      <4>1. \A i \in 1 .. Len(lines) : LastOf(lines[i].Body) <= n - 1
        BY <2>b DEF Tiled
      <4> QED
        BY <2>c, <2>d, <2>1, <2>5, <4>1
    <3>2. S = {}
      BY <2>2, <3>1
    <3> QED
      BY <2>b, <2>4, <2>5, <3>2 DEF S, n
  <2>6. CASE t \in 1 .. n - 1
    <3>1. toks[t].kind # "eof"
      BY <1>1, <2>6 DEF NeverReadsPastEof, n
    <3>2. toks[t].kind # "line_break" <=> \E i \in 1 .. Len(lines) : Covers(lines[i], t)
      BY <2>b, <2>6 DEF Tiled
    <3>3. S # {} <=> \E i \in 1 .. Len(lines) : Covers(lines[i], t)
      BY <2>2
    <3> QED
      BY <2>4, <3>1, <3>2, <3>3 DEF S
  <2> QED
    BY <2>1, <2>5, <2>6
<1> QED
  BY <1>1, TilingHolds, SpellingInvariant, Finishes, EofIsLast, PTL

-----------------------------------------------------------------------------
(***************************************************************************)
(* The depth of the recursion.                                             *)
(***************************************************************************)
Group == {"Paren", "Call"}   \* the functions that eat a '(' and its ')'

\* Calls of ParseBinOpRHS by one another are for ever tighter operators, and at most
\* three of them have their operand outside parentheses.
Rank(f) ==
  IF f.fn \in Group \/ f.prec = 41 THEN 4
  ELSE IF f.prec = 21 THEN 3 ELSE IF f.prec = 11 THEN 2 ELSE 1

Opens(f) == IF f.fn \in Group THEN 1 ELSE 0

\* The minimum precedence of a call
Climbs(f) == f.prec \in {0, 11, 21, 41} /\ (f.fn = "Expression" => f.prec = 0)

\* k of the calls in stack s have eaten a '(' or are about to.
Levels(s, k) ==
  \E level \in [1 .. Len(s) + 1 -> Nat] :
    /\ level[1] = 0 /\ level[Len(s) + 1] = k
    /\ \A i \in 1 .. Len(s) : /\ level[i + 1] = level[i] + Opens(s[i])
                             /\ i <= 4 * level[i] + Rank(s[i])
                             /\ Climbs(s[i])

Open == Eaten("(") - Eaten(")")

DepthInv ==
  /\ err = "none" => Levels(stack, IF pc = "Identifier" THEN Open + 1 ELSE Open)
  /\ err # "none" => Len(stack) <= 4 * Open + 4

LEMMA LevelsEmpty == \A k : Levels(<<>>, k) <=> k = 0
<1>1. Len(<<>>) = 0
  BY EmptySeq
<1>2. ASSUME NEW k, Levels(<<>>, k) PROVE k = 0
  BY <1>1, <1>2 DEF Levels
<1>3. Levels(<<>>, 0)
  <2> DEFINE e == <<>>
             level == [i \in 1 .. 1 |-> 0]
  <2>1. level \in [1 .. 1 -> Nat] /\ level[1] = 0 /\ Len(e) = 0
    BY <1>1
  <2> HIDE DEF e, level
  <2>2. Levels(e, 0)
    BY <2>1 DEF Levels
  <2> QED
    BY <2>2 DEF e
<1> QED
  BY <1>2, <1>3

LEMMA LevelsPush ==
  ASSUME NEW F, NEW s \in Seq(F), NEW f, NEW k, Levels(s, k),
         Len(s) + 1 <= 4 * k + Rank(f), Climbs(f)
  PROVE  Levels(Append(s, f), k + Opens(f)) /\ Append(s, f) \in Seq(F \cup {f})
<1> DEFINE n == Len(s)
           t == Append(s, f)
<1>1. /\ n \in Nat /\ Len(t) = n + 1 /\ t \in Seq(F \cup {f})
      /\ (\A i \in 1 .. n : t[i] = s[i]) /\ t[n + 1] = f
  <2>1. s \in Seq(F \cup {f}) /\ f \in F \cup {f}
    BY SeqMonotonic
  <2> QED
    BY <2>1, AppendLast, LenProperties
<1> HIDE DEF t
<1>2. PICK level \in [1 .. n + 1 -> Nat] :
        /\ level[1] = 0 /\ level[n + 1] = k
        /\ \A i \in 1 .. n : /\ level[i + 1] = level[i] + Opens(s[i])
                             /\ i <= 4 * level[i] + Rank(s[i])
                             /\ Climbs(s[i])
  BY DEF Levels
<1> HIDE DEF n
<1> DEFINE more == [i \in 1 .. n + 2 |-> IF i = n + 2 THEN k + Opens(f) ELSE level[i]]
<1>3. k \in Nat /\ Opens(f) \in Nat
  BY <1>1, <1>2 DEF Opens
<1>4. more \in [1 .. n + 2 -> Nat] /\ \A i \in 1 .. n + 1 : more[i] = level[i]
  BY <1>1, <1>2, <1>3
<1>5. more[n + 2] = k + Opens(f)
  BY <1>1
<1> HIDE DEF more
<1>6. ASSUME NEW i \in 1 .. n + 1
      PROVE  /\ more[i + 1] = more[i] + Opens(t[i])
             /\ i <= 4 * more[i] + Rank(t[i])
             /\ Climbs(t[i])
  <2>1. CASE i = n + 1
    <3>1. more[n + 1] = k /\ more[i + 1] = k + Opens(f) /\ t[i] = f
      BY <1>1, <1>2, <1>4, <1>5, <2>1
    <3> QED
      BY <2>1, <3>1 DEF n
  <2>2. CASE i \in 1 .. n
    <3>1. more[i] = level[i] /\ more[i + 1] = level[i + 1] /\ t[i] = s[i]
      BY <1>1, <1>4, <2>2
    <3> QED
      BY <1>2, <2>2, <3>1
  <2> QED
    BY <1>1, <1>6, <2>1, <2>2
<1>7. more[1] = 0
  BY <1>1, <1>2, <1>4
<1>8. Len(t) + 1 = n + 2
  BY <1>1
<1>9. Levels(t, k + Opens(f))
  <2>1. more \in [1 .. Len(t) + 1 -> Nat] /\ more[Len(t) + 1] = k + Opens(f)
    BY <1>4, <1>5, <1>8
  <2>2. 1 .. Len(t) = 1 .. n + 1
    BY <1>1
  <2> QED
    BY <1>6, <1>7, <2>1, <2>2 DEF Levels
<1> QED
  BY <1>1, <1>9 DEF t

LEMMA LevelsPop ==
  ASSUME NEW F, NEW s \in Seq(F), s # <<>>, NEW k, Levels(s, k)
  PROVE  \E j \in Nat : /\ k = j + Opens(Last(s)) /\ Levels(Front(s), j)
                        /\ Len(s) <= 4 * j + Rank(Last(s)) /\ Climbs(Last(s))
                        /\ Front(s) \in Seq(F) /\ Last(s) \in F /\ Len(Front(s)) + 1 = Len(s)
<1> DEFINE n == Len(s)
           t == Front(s)
<1>1. /\ n \in Nat \ {0} /\ t \in Seq(F) /\ Len(t) = n - 1 /\ Last(s) = s[n] /\ s[n] \in F
      /\ \A i \in 1 .. n - 1 : t[i] = s[i]
  BY FrontLast, LenProperties, ElementOfSeq
<1> HIDE DEF t
<1>2. PICK level \in [1 .. n + 1 -> Nat] :
        /\ level[1] = 0 /\ level[n + 1] = k
        /\ \A i \in 1 .. n : /\ level[i + 1] = level[i] + Opens(s[i])
                             /\ i <= 4 * level[i] + Rank(s[i])
                             /\ Climbs(s[i])
  BY DEF Levels
<1> HIDE DEF n
<1> DEFINE less == [i \in 1 .. n |-> level[i]]
<1>3. less \in [1 .. n -> Nat] /\ \A i \in 1 .. n : less[i] = level[i]
  BY <1>1, <1>2
<1> HIDE DEF less
<1>4. Len(t) + 1 = n /\ 1 .. Len(t) = 1 .. n - 1
  BY <1>1
<1>5. less[1] = 0 /\ less[n] = level[n]
  BY <1>1, <1>2, <1>3
<1>6. ASSUME NEW i \in 1 .. n - 1
      PROVE  /\ less[i + 1] = less[i] + Opens(t[i])
             /\ i <= 4 * less[i] + Rank(t[i])
             /\ Climbs(t[i])
  <2>1. less[i] = level[i] /\ less[i + 1] = level[i + 1] /\ t[i] = s[i] /\ i \in 1 .. n
    BY <1>1, <1>3, <1>6
  <2> QED
    BY <1>2, <2>1
<1>7. Levels(t, level[n])
  <2>1. less \in [1 .. Len(t) + 1 -> Nat] /\ less[Len(t) + 1] = level[n]
    BY <1>3, <1>4, <1>5
  <2> QED
    BY <1>4, <1>5, <1>6, <2>1 DEF Levels
<1>8. level[n] \in Nat /\ k = level[n] + Opens(s[n]) /\ n <= 4 * level[n] + Rank(s[n]) /\ Climbs(s[n])
  BY <1>1, <1>2
<1> QED
  BY <1>1, <1>4, <1>7, <1>8 DEF t, n

\* The bound itself, when the call on top has all its tokens or is about to eat its '('
LEMMA LevelsBound ==
  ASSUME NEW F, NEW s \in Seq(F), NEW k, Levels(s, k)
  PROVE  /\ k \in Nat /\ Len(s) \in Nat /\ Len(s) <= 4 * k + 4
         /\ s # <<>> /\ Last(s).fn \in Group => Len(s) <= 4 * (k - 1) + 4
<1>1. CASE s = <<>>
  <2>1. k = 0 /\ Len(s) = 0
    BY <1>1, LevelsEmpty, EmptySeq
  <2> QED
    BY <1>1, <2>1
<1>2. CASE s # <<>>
  <2>1. PICK j \in Nat : k = j + Opens(Last(s)) /\ Len(s) <= 4 * j + Rank(Last(s))
    BY <1>2, LevelsPop
  <2>2. Rank(Last(s)) \in 1 .. 4 /\ Opens(Last(s)) \in {0, 1} /\ (Last(s).fn \in Group => Opens(Last(s)) = 1)
    BY DEF Rank, Opens
  <2>3. Len(s) \in Nat
    BY LenProperties
  <2> QED
    BY <2>1, <2>2, <2>3
<1> QED
  BY <1>1, <1>2

\* How many of the tokens before the current one are of one kind
LEMMA EatenAre ==
  ASSUME TypeInv, NEW k
  PROVE  Eaten(k) \in Nat /\ IsFiniteSet({i \in 1 .. Len(toks) - 1 : toks[i].kind = k})
<1> DEFINE S == {i \in 1 .. Len(toks) - 1 : toks[i].kind = k}
<1>1. Len(toks) - 1 \in Int
  BY LenProperties DEF TypeInv, TypeOK
<1>2. IsFiniteSet(1 .. Len(toks) - 1)
  BY <1>1, FS_Interval
<1>3. IsFiniteSet(S)
  BY <1>2, FS_Subset
<1> QED
  BY <1>3, FS_CardinalityType DEF Eaten

LEMMA EatenOneMore ==
  ASSUME TypeInv, GetTok, toks # <<>>, NEW k
  PROVE  Eaten(k)' = Eaten(k) + (IF CurTok = k THEN 1 ELSE 0)
<1>r. \E n : n = Len(toks)
  OBVIOUS
<1> PICK n : n = Len(toks)
  BY <1>r
<1> DEFINE S == {i \in 1 .. Len(toks) - 1 : toks[i].kind = k}
           T == {i \in 1 .. Len(toks') - 1 : toks'[i].kind = k}
<1>1. n \in Nat \ {0} /\ Len(toks') = n + 1 /\ toks[n].kind = CurTok /\ \A i \in 1 .. n : toks'[i] = toks[i]
  BY CurrentToken, OneTokenOn, LenProperties DEF ReadsOn, IsPunct, TypeInv, TypeOK
<1>2. CASE CurTok = k
  <2>1. T = S \cup {n} /\ n \notin S
    BY <1>1, <1>2
  <2>2. IsFiniteSet(S) /\ Cardinality(S) \in Nat
    BY EatenAre, FS_CardinalityType
  <2> HIDE DEF S, T
  <2>3. Cardinality(T) = Cardinality(S) + 1
    BY <2>1, <2>2, FS_AddElement
  <2> QED
    BY <1>2, <2>3 DEF Eaten, S, T
<1>3. CASE CurTok # k
  <2>1. T = S
    BY <1>1, <1>3
  <2>2. Cardinality(S) \in Nat
    BY EatenAre DEF Eaten
  <2> HIDE DEF S, T
  <2>3. Cardinality(T) = Cardinality(S) + 0
    BY <2>1, <2>2
  <2> QED
    BY <1>3, <2>3 DEF Eaten, S, T
<1> QED
  BY <1>2, <1>3

LEMMA TopIsThere ==
  ASSUME NEW F, NEW s \in Seq(F), s # <<>>
  PROVE  \E i \in 1 .. Len(s) : Last(s) = s[i]
<1> DEFINE n == Len(s)
<1>1. n \in Nat \ {0} /\ Last(s) = s[n]
  BY FrontLast
<1> HIDE DEF n
<1>2. n \in 1 .. n
  BY <1>1
<1>3. \E i \in 1 .. n : Last(s) = s[i]
  BY <1>1, <1>2
<1> QED
  BY <1>3 DEF n

LEMMA TopOfAppend ==
  ASSUME NEW F, NEW s \in Seq(F), NEW f
  PROVE  Append(s, f) # <<>> /\ Last(Append(s, f)) = f
<1>1. s \in Seq(F \cup {f}) /\ f \in F \cup {f}
  BY SeqMonotonic
<1> QED
  BY <1>1, AppendLast

\* A frame on top of another one: the call it has pending, or its own argument list
LEMMA LevelsCall ==
  ASSUME NEW F, NEW s \in Seq(F), s # <<>>, NEW f, NEW k, Levels(s, k), Climbs(f),
         \/ Last(s).fn \in Group
         \/ f.fn \in Group /\ Last(s).prec # 41
         \/ Last(s).prec < f.prec
  PROVE  Levels(Append(s, f), k + Opens(f)) /\ Append(s, f) \in Seq(F \cup {f})
<1>1. PICK j \in Nat : k = j + Opens(Last(s)) /\ Len(s) <= 4 * j + Rank(Last(s)) /\ Climbs(Last(s))
  BY LevelsPop
<1>2. Len(s) \in Nat
  BY LenProperties
<1>3. Len(s) + 1 <= 4 * k + Rank(f)
  <2>1. CASE Last(s).fn \in Group
    <3>1. k = j + 1 /\ Rank(Last(s)) = 4 /\ Rank(f) \in 1 .. 4
      BY <1>1, <2>1 DEF Opens, Rank
    <3> QED
      BY <1>1, <1>2, <3>1
  <2>2. CASE Last(s).fn \notin Group
    <3>1. k = j /\ Rank(Last(s)) \in Nat /\ Rank(f) \in Nat /\ Rank(Last(s)) < Rank(f)
      BY <1>1, <2>2 DEF Opens, Rank, Climbs
    <3> QED
      BY <1>1, <1>2, <3>1
  <2> QED
    BY <2>1, <2>2
<1> QED
  BY <1>3, LevelsPush

\* A call goes on.
LEMMA LevelsSame ==
  ASSUME NEW F, NEW s \in Seq(F), s # <<>>, NEW f, NEW k, Levels(s, k),
         f.prec = Last(s).prec, f.fn \in Group <=> Last(s).fn \in Group, f.fn # "Expression"
  PROVE  Levels(Append(Front(s), f), k) /\ Append(Front(s), f) \in Seq(F \cup {f})
<1>1. PICK j \in Nat : /\ k = j + Opens(Last(s)) /\ Levels(Front(s), j)
                       /\ Len(s) <= 4 * j + Rank(Last(s)) /\ Climbs(Last(s))
                       /\ Front(s) \in Seq(F) /\ Len(Front(s)) + 1 = Len(s)
  BY LevelsPop
<1>2. Rank(f) = Rank(Last(s)) /\ Opens(f) = Opens(Last(s)) /\ Climbs(f)
  BY <1>1 DEF Rank, Opens, Climbs
<1> QED
  BY <1>1, <1>2, LevelsPush

\* A call returns.
LEMMA LevelsReturn ==
  ASSUME NEW F, NEW s \in Seq(F), s # <<>>, NEW k, Levels(s, k)
  PROVE  Levels(Front(s), k - Opens(Last(s)))
<1>1. PICK j \in Nat : k = j + Opens(Last(s)) /\ Levels(Front(s), j)
  BY LevelsPop
<1>2. k - Opens(Last(s)) = j
  BY <1>1 DEF Opens
<1> QED
  BY <1>1, <1>2

\* How far open parentheses have come after a step
LEMMA OpenStep ==
  ASSUME TypeInv
  PROVE  /\ Open \in Int
         /\ UNCHANGED lexVars => Open' = Open
         /\ GetTok /\ toks # <<>> =>
              Open' = Open + (IF CurTok = "(" THEN 1 ELSE IF CurTok = ")" THEN -1 ELSE 0)
<1>1. Eaten("(") \in Nat /\ Eaten(")") \in Nat
  BY EatenAre
<1>2. UNCHANGED lexVars => Open' = Open
  BY DEF Open, Eaten, lexVars
<1>3. ASSUME GetTok, toks # <<>>
      PROVE  Open' = Open + (IF CurTok = "(" THEN 1 ELSE IF CurTok = ")" THEN -1 ELSE 0)
  <2>1. /\ Eaten("(")' = Eaten("(") + (IF CurTok = "(" THEN 1 ELSE 0)
        /\ Eaten(")")' = Eaten(")") + (IF CurTok = ")" THEN 1 ELSE 0)
    BY <1>3, EatenOneMore
  <2>2. Open' = Eaten("(")' - Eaten(")")'
    BY DEF Open
  <2> QED
    BY <1>1, <2>1, <2>2 DEF Open
<1> QED
  BY <1>1, <1>2, <1>3 DEF Open

LEMMA DepthOf ==
  ASSUME NEW k, Levels(stack', k), err' = "none",
         k = (IF pc' = "Identifier" THEN Open' + 1 ELSE Open')
  PROVE  DepthInv'
BY DEF DepthInv

LEMMA FailDepth ==
  ASSUME TypeInv, DepthInv, err = "none", pc # "Construct", NEW e \in Error, Fail(e)
  PROVE  DepthInv'
<1> DEFINE k == IF pc = "Identifier" THEN Open + 1 ELSE Open
           F == Frame(NodeIds)
<1>1. stack' = stack /\ Open' = Open /\ Open \in Int /\ err' # "none"
  BY OpenStep DEF Fail, Error
<1>2. stack \in Seq(F) /\ Levels(stack, k) /\ (pc = "Identifier" => stack # <<>> /\ Last(stack).fn \in Group)
  BY DEF TypeInv, TypeOK, TopOK, Top, DepthInv, Group
<1> HIDE DEF F
<1>3. Len(stack) <= 4 * Open + 4
  BY <1>1, <1>2, LevelsBound
<1> QED
  BY <1>1, <1>3 DEF DepthInv

LEMMA DepthStep ==
  ASSUME TypeInv, PrecedenceInv, ConstructIsFirst, DepthInv, [Next]_vars
  PROVE  DepthInv'
<1> DEFINE F == Frame(NodeIds)
<1>s. stack \in Seq(F)
  BY DEF TypeInv, TypeOK
<1>t. stack # <<>> => Top \in F
  BY TopFrame
<1> HIDE DEF F
<1>o. /\ Open \in Int /\ (UNCHANGED lexVars => Open' = Open)
      /\ GetTok /\ toks # <<>> =>
           Open' = Open + (IF CurTok = "(" THEN 1 ELSE IF CurTok = ")" THEN -1 ELSE 0)
      /\ pc # "Construct" => toks # <<>>
  BY OpenStep DEF TypeInv, TypeOK
<1>l. err = "none" => Levels(stack, IF pc = "Identifier" THEN Open + 1 ELSE Open)
  BY DEF DepthInv
<1>n. \A fn \in {"Expression", "BinOpRHS", "Paren", "Call"} :
        NewFrame(fn).fn = fn /\ NewFrame(fn).prec = 0 /\ Climbs(NewFrame(fn))
  BY NewFrameType DEF Climbs
<1>f. ASSUME NEW e \in Error, Fail(e), err = "none", pc # "Construct" PROVE DepthInv'
  BY <1>f, FailDepth
\* the same calls, and neither '(' nor ')' eaten
<1>q. ASSUME stack' = stack, err = "none", err' = "none", pc # "Identifier", pc' # "Identifier", Open' = Open
      PROVE  DepthInv'
  BY <1>q, <1>l, DepthOf
<1>1. CASE Construct
  <2>1. CASE toks = <<>>
    <3>1. Len(toks) = 0
      BY <2>1, EmptySeq
    <3>2. Len(toks') = 1
      BY <1>1, <3>1, OneTokenOn DEF Construct
    <3>3. \A k : {i \in 1 .. Len(toks) - 1 : toks[i].kind = k} = {}
      BY <3>1
    <3>4. \A k : {i \in 1 .. Len(toks') - 1 : toks'[i].kind = k} = {}
      BY <3>2
    <3>5. \A k : Eaten(k) = Cardinality({}) /\ Eaten(k)' = Cardinality({})
      BY <3>3, <3>4 DEF Eaten
    <3>6. Open' = Open
      BY <3>5 DEF Open
    <3> QED
      BY <1>1, <1>q, <3>6 DEF Construct, TypeInv, TopOK
  <2>2. CASE toks # <<>>
    BY <1>1, <2>2 DEF Construct, ConstructIsFirst
  <2> QED
    BY <2>1, <2>2
<1>2. CASE ParseModule
  <2>1. err = "none" /\ pc = "Module"
    BY <1>2 DEF ParseModule, ModuleEnd, ModuleLineBreak, ModuleDefinition, ModuleUnexpected, TypeInv, TopOK
  <2>2. CASE ModuleEnd \/ ModuleLineBreak \/ ModuleDefinition
    <3>1. /\ stack' = stack /\ err' = "none" /\ pc' \in {"Done", "Module", "Arg"}
          /\ UNCHANGED lexVars \/ (GetTok /\ CurTok \notin {"(", ")"})
      BY <2>1, <2>2 DEF ModuleEnd, ModuleLineBreak, ModuleDefinition
    <3> QED
      BY <1>o, <1>q, <2>1, <3>1
  <2>3. CASE ModuleUnexpected
    BY <1>f, <2>1, <2>3 DEF ModuleUnexpected, Error
  <2> QED
    BY <1>2, <2>2, <2>3 DEF ParseModule
<1>3. CASE ParsePrototype
  <2>1. err = "none" /\ pc \in {"Arg", "Delimiter", "Type"} /\ stack = <<>>
    BY <1>3 DEF ParsePrototype, PrototypeArg, PrototypeDelimiter, PrototypeType, PrototypeArrow, TypeInv, TopOK
  <2>2. CASE \E e \in Error : Fail(e)
    BY <1>f, <2>1, <2>2
  <2>3. CASE PrototypeArrow /\ ~\E e \in Error : Fail(e)
    <3> DEFINE f == NewFrame("Expression")
    <3>1. /\ CurTok = "func_arrow" /\ GetTok /\ err' = "none" /\ pc' = "Primary"
          /\ stack' = Append(stack, f)
      BY <2>1, <2>3 DEF PrototypeArrow, CallExpression, Push, Error
    <3>2. Open' = Open /\ Levels(stack, Open) /\ Open = 0 /\ Len(stack) = 0
      BY <1>l, <1>o, <2>1, <3>1, LevelsEmpty, EmptySeq
    <3>3. Climbs(f) /\ Rank(f) = 1 /\ Opens(f) = 0
      BY <1>n DEF Rank, Opens, Group
    <3> HIDE DEF f
    <3>4. Levels(stack', Open + Opens(f))
      <4>1. Len(stack) + 1 <= 4 * Open + Rank(f)
        BY <3>2, <3>3
      <4> QED
        BY <1>s, <3>1, <3>2, <3>3, <4>1, LevelsPush
    <3>5. Open + Opens(f) = Open
      BY <3>2, <3>3
    <3> QED
      BY <3>1, <3>2, <3>4, <3>5, DepthOf
  <2>4. CASE ~PrototypeArrow /\ ~\E e \in Error : Fail(e)
    <3>1. /\ stack' = stack /\ err' = "none" /\ pc' \in {"Delimiter", "Type", "Arg"}
          /\ GetTok /\ CurTok \notin {"(", ")"}
      BY <1>3, <2>1, <2>4 DEF ParsePrototype, PrototypeArg, PrototypeDelimiter, PrototypeType, Error
    <3> QED
      BY <1>o, <1>q, <2>1, <3>1
  <2> QED
    BY <2>2, <2>3, <2>4
<1>4. CASE ParsePrimary
  <2>1. /\ err = "none" /\ pc = "Primary" /\ Levels(stack, Open) /\ stack # <<>>
        /\ Top.fn \in {"Expression", "RHS"} /\ toks # <<>>
    BY <1>4, <1>l, <1>o DEF ParsePrimary, PrimaryUnknown, NumberExpr, ParenExpr, IdentifierExpr, TypeInv, TopOK
  <2>2. Last(stack).prec # 41
    <3>1. PICK i \in 1 .. Len(stack) : Top = stack[i]
      BY <1>s, <2>1, TopIsThere DEF Top
    <3>2. FrameBinds(Top)
      BY <3>1 DEF PrecedenceInv, FramesBind
    <3>3. Climbs(Top)
      BY <1>s, <2>1, LevelsPop DEF Top
    <3> QED
      BY <2>1, <3>2, <3>3, PrecedenceRange DEF FrameBinds, Climbs, Top
  <2>3. CASE PrimaryUnknown
    BY <1>f, <2>1, <2>3 DEF PrimaryUnknown, Error
  <2>4. CASE NumberExpr
    BY <1>o, <1>q, <2>1, <2>4 DEF NumberExpr, ReturnNew
  <2>5. CASE ParenExpr
    <3> DEFINE f == NewFrame("Paren")
               g == NewFrame("Expression")
    <3>1. /\ CurTok = "(" /\ GetTok /\ err' = "none" /\ pc' = "Primary"
          /\ stack' = Append(Append(stack, f), g)
      BY <2>1, <2>5 DEF ParenExpr
    <3>2. Climbs(f) /\ f.fn \in Group /\ Opens(f) = 1 /\ Climbs(g) /\ Opens(g) = 0
      BY <1>n DEF Group, Opens
    <3> HIDE DEF f, g
    <3>3. Levels(Append(stack, f), Open + 1) /\ Append(stack, f) \in Seq(F \cup {f})
      BY <1>s, <2>1, <2>2, <3>2, LevelsCall
    <3>4. Append(stack, f) # <<>> /\ Last(Append(stack, f)) = f
      BY <1>s, TopOfAppend
    <3>5. Levels(stack', Open + 1)
      <4>1. Levels(Append(Append(stack, f), g), (Open + 1) + Opens(g))
        BY <3>2, <3>3, <3>4, LevelsCall
      <4>2. (Open + 1) + Opens(g) = Open + 1
        BY <1>o, <3>2
      <4> QED
        BY <3>1, <4>1, <4>2
    <3> QED
      BY <1>o, <2>1, <3>1, <3>5, DepthOf
  <2>6. CASE IdentifierExpr
    <3>0. \E v, here : v = identifier_str /\ here = Len(toks)
      OBVIOUS
    <3> PICK v, here : v = identifier_str /\ here = Len(toks)
      BY <3>0
    <3> DEFINE f == [NewFrame("Call") EXCEPT !.val = v, !.first = here]
    <3>1. /\ CurTok = "identifier" /\ GetTok /\ err' = "none" /\ pc' = "Identifier"
          /\ stack' = Append(stack, f)
      BY <2>1, <2>6 DEF IdentifierExpr, Push
    <3>2. f.fn = "Call" /\ f.prec = 0
      BY DEF NewFrame
    <3> HIDE DEF f
    <3>3. Climbs(f) /\ f.fn \in Group /\ Opens(f) = 1
      BY <3>2 DEF Climbs, Group, Opens
    <3>4. Levels(stack', Open + 1)
      BY <1>s, <2>1, <2>2, <3>1, <3>3, LevelsCall
    <3> QED
      BY <1>o, <2>1, <3>1, <3>4, DepthOf
  <2> QED
    BY <1>4, <2>3, <2>4, <2>5, <2>6 DEF ParsePrimary
<1>c. ASSUME NEW args, stack # <<>>, Top.fn = "Call", Levels(stack, Open), CurTok = ")", toks # <<>>,
             err = "none", CloseCall(args)
      PROVE  DepthInv'
  <2>1. GetTok /\ stack' = Front(stack) /\ pc' = "Return" /\ err' = "none"
    BY <1>c DEF CloseCall, ReturnNew, Pop
  <2>2. Opens(Top) = 1
    BY <1>c DEF Opens, Group
  <2>3. Levels(stack', Open - 1)
    BY <1>s, <1>c, <2>1, <2>2, LevelsReturn DEF Top
  <2>4. Open' = Open - 1
    BY <1>c, <1>o, <2>1
  <2> QED
    BY <2>1, <2>3, <2>4, DepthOf
<1>5. CASE ParseIdentifierExpr
  <2>1. CASE IdentifierVariable
    <3>1. /\ UNCHANGED lexVars /\ stack # <<>> /\ stack' = Front(stack) /\ pc' = "Return" /\ err' = "none"
          /\ Levels(stack, Open + 1) /\ Opens(Top) = 1
      BY <1>l, <2>1 DEF IdentifierVariable, ReturnNew, Pop, TypeInv, TopOK, Opens, Group
    <3>2. Levels(stack', (Open + 1) - 1)
      BY <1>s, <3>1, LevelsReturn DEF Top
    <3>3. (Open + 1) - 1 = Open
      BY <1>o
    <3> QED
      BY <1>o, <3>1, <3>2, <3>3, DepthOf
  <2>2. CASE IdentifierCall
    <3>1. /\ GetTok /\ CurTok = "(" /\ toks # <<>> /\ stack' = stack /\ pc' = "Args" /\ err' = "none"
          /\ Levels(stack, Open + 1)
      BY <1>l, <1>o, <2>2 DEF IdentifierCall, TypeInv, TopOK
    <3> QED
      BY <1>o, <3>1, DepthOf
  <2>3. CASE CallFirstArg
    <3> DEFINE f == NewFrame("Expression")
    <3>1. /\ UNCHANGED lexVars /\ stack # <<>> /\ stack' = Append(stack, f) /\ pc' = "Primary" /\ err' = "none"
          /\ Levels(stack, Open) /\ Top.fn \in Group
      BY <1>l, <2>3 DEF CallFirstArg, CallExpression, Push, TypeInv, TopOK, Group
    <3>2. Climbs(f) /\ Opens(f) = 0
      BY <1>n DEF Opens, Group
    <3> HIDE DEF f
    <3>3. Levels(stack', Open + 0)
      BY <1>s, <3>1, <3>2, LevelsCall DEF Top
    <3> QED
      BY <1>o, <3>1, <3>3, DepthOf
  <2>4. CASE CallNoArgs
    BY <1>c, <1>l, <1>o, <2>4 DEF CallNoArgs, TypeInv, TopOK
  <2>5. CASE CallArg
    <3>1. /\ stack # <<>> /\ Top.fn = "Call" /\ Levels(stack, Open) /\ toks # <<>> /\ err = "none"
          /\ pc = "Return"
      BY <1>l, <1>o, <2>5 DEF CallArg, Returning
    <3>2. CASE CurTok = ")"
      BY <1>c, <2>5, <3>1, <3>2 DEF CallArg
    <3>3. CASE CurTok = ","
      <4>0. \E top, r : top = Top /\ r = ret
        OBVIOUS
      <4> PICK top, r : top = Top /\ r = ret
        BY <4>0
      <4> DEFINE f == [top EXCEPT !.kids = Append(@, r)]
                 g == NewFrame("Expression")
      <4>1. /\ GetTok /\ stack' = Append(Append(Front(stack), f), g) /\ pc' = "Primary" /\ err' = "none"
        BY <2>5, <3>1, <3>3, Zenon DEF CallArg, ReplaceAndPush
      <4>2. f.fn = "Call" /\ f.prec = top.prec
        <5>1. ASSUME NEW x \in Frame(NodeIds)
              PROVE  [x EXCEPT !.kids = Append(@, r)].fn = x.fn /\ [x EXCEPT !.kids = Append(@, r)].prec = x.prec
          BY DEF Frame
        <5> QED
          BY <1>t, <3>1, <5>1 DEF F
      <4>3. Climbs(g) /\ Opens(g) = 0
        BY <1>n DEF Opens, Group
      <4> HIDE DEF f, g
      <4>4. Levels(Append(Front(stack), f), Open) /\ Append(Front(stack), f) \in Seq(F \cup {f})
        BY <1>s, <3>1, <4>2, LevelsSame DEF Group, Top
      <4>5. Append(Front(stack), f) # <<>> /\ Last(Append(Front(stack), f)) = f
        <5>1. Front(stack) \in Seq(F)
          BY <1>s, <3>1, FrontLast
        <5> QED
          BY <5>1, TopOfAppend
      <4>6. Levels(stack', Open + 0)
        <5>1. f.fn \in Group
          BY <4>2 DEF Group
        <5>2. Levels(Append(Append(Front(stack), f), g), Open + Opens(g))
          BY <4>3, <4>4, <4>5, <5>1, LevelsCall
        <5> QED
          BY <4>1, <4>3, <5>2
      <4>7. Open' = Open
        <5>1. CurTok # "(" /\ CurTok # ")"
          BY <3>3, Zenon
        <5> QED
          BY <1>o, <3>1, <4>1, <5>1
      <4> QED
        BY <1>o, <4>1, <4>6, <4>7, DepthOf
    <3>4. CASE CurTok \notin {")", ","}
      <4>1. Fail("expected ')' or ','")
        BY <2>5, <3>4, Zenon DEF CallArg
      <4> QED
        BY <1>f, <3>1, <4>1 DEF Error
    <3> QED
      BY <3>2, <3>3, <3>4
  <2> QED
    BY <1>5, <2>1, <2>2, <2>3, <2>4, <2>5 DEF ParseIdentifierExpr

\* A frame of ParseBinOpRHS takes the place of the top.
<1>r. ASSUME NEW f, f.prec = Top.prec, f.fn \in Climbing, Top.fn \in Climbing \cup {"Expression"},
             stack # <<>>, Levels(stack, Open), stack' = Append(Front(stack), f), Open' = Open,
             err' = "none", pc' # "Identifier"
      PROVE  DepthInv'
  <2>1. Levels(stack', Open)
    BY <1>s, <1>r, LevelsSame DEF Group, Climbing, Top
  <2> QED
    BY <1>r, <2>1, DepthOf
<1>m. ASSUME stack # <<>>, Top.fn \in {"RHS", "Merge"}, Levels(stack, Open), err = "none", MergeOperands(ret)
      PROVE  DepthInv'
  <2>0. \E top, m : top = Top /\ m = Len(nodes) + 1
    OBVIOUS
  <2> PICK top, m : top = Top /\ m = Len(nodes) + 1
    BY <2>0
  <2> DEFINE f == [top EXCEPT !.fn = "BinOpRHS", !.val = "", !.kids = <<m>>]
  <2>1. UNCHANGED lexVars /\ stack' = Append(Front(stack), f) /\ pc' = "Loop" /\ err' = "none"
    BY <1>m, Zenon DEF MergeOperands, Replace
  <2>2. f.fn = "BinOpRHS" /\ f.prec = top.prec
    <3>1. ASSUME NEW x \in Frame(NodeIds)
          PROVE  /\ [x EXCEPT !.fn = "BinOpRHS", !.val = "", !.kids = <<m>>].fn = "BinOpRHS"
                 /\ [x EXCEPT !.fn = "BinOpRHS", !.val = "", !.kids = <<m>>].prec = x.prec
      BY DEF Frame
    <3> QED
      BY <1>m, <1>t, <3>1 DEF F
  <2> HIDE DEF f
  <2> QED
    BY <1>m, <1>o, <1>r, <2>1, <2>2 DEF Climbing
<1>6. CASE ExpressionOperand
  <2>0. \E r : r = ret
    OBVIOUS
  <2> PICK r : r = ret
    BY <2>0
  <2> DEFINE f == [NewFrame("BinOpRHS") EXCEPT !.kids = <<r>>]
  <2>1. /\ UNCHANGED lexVars /\ stack' = Append(Front(stack), f) /\ pc' = "Loop" /\ err' = "none"
        /\ stack # <<>> /\ Top.fn = "Expression" /\ Levels(stack, Open)
    BY <1>6, <1>l DEF ExpressionOperand, Returning, Replace
  <2>2. f.fn = "BinOpRHS" /\ f.prec = 0
    BY DEF NewFrame
  <2> HIDE DEF f
  <2>3. Top.prec = 0
    BY <1>s, <2>1, LevelsPop DEF Climbs, Top
  <2> QED
    BY <1>o, <1>r, <2>1, <2>2, <2>3 DEF Climbing
<1>7. CASE BinOpDone
  <2>1. /\ UNCHANGED lexVars /\ stack' = Front(stack) /\ pc' = "Return" /\ err' = "none"
        /\ stack # <<>> /\ Top.fn = "BinOpRHS" /\ Levels(stack, Open)
    BY <1>7, <1>l DEF BinOpDone, Pop, TypeInv, TopOK
  <2>2. Opens(Top) = 0
    BY <2>1 DEF Opens, Group
  <2>3. Levels(stack', Open - 0)
    BY <1>s, <2>1, <2>2, LevelsReturn DEF Top
  <2> QED
    BY <1>o, <2>1, <2>3, DepthOf
<1>8. CASE BinOpOperator
  <2>0. \E top, c : top = Top /\ c = CurTok
    OBVIOUS
  <2> PICK top, c : top = Top /\ c = CurTok
    BY <2>0
  <2> DEFINE f == [top EXCEPT !.fn = "RHS", !.val = c]
  <2>1. /\ GetTok /\ toks # <<>> /\ stack' = Append(Front(stack), f) /\ pc' = "Primary" /\ err' = "none"
        /\ stack # <<>> /\ Top.fn = "BinOpRHS" /\ Levels(stack, Open)
    BY <1>8, <1>l, <1>o, Zenon DEF BinOpOperator, Replace, TypeInv, TopOK
  <2>2. f.fn = "RHS" /\ f.prec = top.prec /\ top.prec \in Nat
    <3>1. ASSUME NEW x \in Frame(NodeIds)
          PROVE  /\ [x EXCEPT !.fn = "RHS", !.val = c].fn = "RHS"
                 /\ [x EXCEPT !.fn = "RHS", !.val = c].prec = x.prec /\ x.prec \in Nat
      BY DEF Frame
    <3> QED
      BY <1>t, <2>1, <3>1 DEF F
  <2>3. CurTok \in Operators
    BY <1>8, <2>2, OperatorTokens, PrecedenceRange DEF BinOpOperator
  <2>4. Open' = Open
    BY <1>o, <2>1, <2>3 DEF Operators
  <2> HIDE DEF f
  <2> QED
    BY <1>r, <2>1, <2>2, <2>4 DEF Climbing
<1>9. CASE BinOpOperand
  <2>1. /\ stack # <<>> /\ Top.fn = "RHS" /\ Levels(stack, Open) /\ err = "none" /\ pc = "Return"
    BY <1>9, <1>l DEF BinOpOperand, Returning
  <2>2. CASE NextBindsTighter(Top.val)
    <3>0. \E top, p, r : top = Top /\ p = RecursionPrec(Top.val) /\ r = ret
      OBVIOUS
    <3> PICK top, p, r : top = Top /\ p = RecursionPrec(Top.val) /\ r = ret
      BY <3>0
    <3> DEFINE f == [top EXCEPT !.fn = "Merge"]
               g == [NewFrame("BinOpRHS") EXCEPT !.prec = p, !.kids = <<r>>]
    <3>1. /\ UNCHANGED lexVars /\ stack' = Append(Append(Front(stack), f), g) /\ pc' = "Loop" /\ err' = "none"
      BY <1>9, <2>1, <2>2, Zenon DEF BinOpOperand, ReplaceAndPush
    <3>2. f.fn = "Merge" /\ f.prec = top.prec
      <4>1. ASSUME NEW x \in Frame(NodeIds)
            PROVE  [x EXCEPT !.fn = "Merge"].fn = "Merge" /\ [x EXCEPT !.fn = "Merge"].prec = x.prec
        BY DEF Frame
      <4> QED
        BY <1>t, <2>1, <4>1 DEF F
    <3>3. g.fn = "BinOpRHS" /\ g.prec = p
      BY DEF NewFrame
    <3> HIDE DEF f, g
    <3>4. p \in {11, 21, 41} /\ top.prec < p
      <4>1. PICK i \in 1 .. Len(stack) : Top = stack[i]
        BY <1>s, <2>1, TopIsThere DEF Top
      <4>2. top.prec <= GetTokPrecedence(top.val)
        BY <2>1, <4>1 DEF PrecedenceInv, FramesBind, FrameBinds
      <4>3. top.prec \in {0, 11, 21, 41}
        BY <1>s, <2>1, LevelsPop DEF Climbs, Top
      <4> QED
        BY <4>2, <4>3, PrecedenceRange DEF RecursionPrec
    <3>5. Climbs(g) /\ Opens(g) = 0
      BY <3>3, <3>4 DEF Climbs, Opens, Group
    <3>6. Levels(Append(Front(stack), f), Open) /\ Append(Front(stack), f) \in Seq(F \cup {f})
      BY <1>s, <2>1, <3>2, LevelsSame DEF Group, Top
    <3>7. Append(Front(stack), f) # <<>> /\ Last(Append(Front(stack), f)) = f
      <4>1. Front(stack) \in Seq(F)
        BY <1>s, <2>1, FrontLast
      <4> QED
        BY <4>1, TopOfAppend
    <3>8. Levels(stack', Open + 0)
      BY <3>1, <3>2, <3>3, <3>4, <3>5, <3>6, <3>7, LevelsCall
    <3> QED
      BY <1>o, <3>1, <3>8, DepthOf
  <2>3. CASE ~NextBindsTighter(Top.val)
    BY <1>9, <1>m, <2>1, <2>3, Zenon DEF BinOpOperand
  <2> QED
    BY <2>2, <2>3
<1>10. CASE BinOpMerge
  BY <1>10, <1>l, <1>m DEF BinOpMerge, Returning
<1>11. CASE ParenClose
  <2>1. stack # <<>> /\ Top.fn = "Paren" /\ Levels(stack, Open) /\ err = "none" /\ pc = "Return" /\ toks # <<>>
    BY <1>11, <1>l, <1>o DEF ParenClose, Returning
  <2>2. CASE CurTok = ")"
    <3>1. GetTok /\ stack' = Front(stack) /\ pc' = "Return" /\ err' = "none"
      BY <1>11, <2>1, <2>2 DEF ParenClose, Pop
    <3>2. Opens(Top) = 1
      BY <2>1 DEF Opens, Group
    <3>3. Levels(stack', Open - 1)
      BY <1>s, <2>1, <3>1, <3>2, LevelsReturn DEF Top
    <3>4. Open' = Open - 1
      BY <1>o, <2>1, <2>2, <3>1
    <3> QED
      BY <3>1, <3>3, <3>4, DepthOf
  <2>3. CASE CurTok # ")"
    BY <1>11, <1>f, <2>1, <2>3 DEF ParenClose, Error
  <2> QED
    BY <2>2, <2>3
<1>12. CASE DefinitionDone
  BY <1>12, <1>o, <1>q DEF DefinitionDone
<1>13. CASE Propagate
  <2>1. stack # <<>> /\ err # "none" /\ err' = err /\ stack' = Front(stack) /\ UNCHANGED lexVars
    BY <1>13 DEF Propagate, Pop
  <2>2. Len(Front(stack)) + 1 = Len(stack) /\ Len(Front(stack)) \in Nat
    BY <1>s, <2>1, FrontLast, LenProperties
  <2>3. Len(stack) <= 4 * Open + 4
    BY <2>1 DEF DepthInv
  <2> QED
    BY <1>o, <2>1, <2>2, <2>3 DEF DepthInv
<1>14. CASE ModuleError
  BY <1>14, <1>o DEF ModuleError, DepthInv
<1>15. CASE UNCHANGED vars
  <2>1. UNCHANGED lexVars /\ stack' = stack /\ err' = err /\ pc' = pc
    BY <1>15 DEF vars
  <2> QED
    BY <1>o, <2>1 DEF DepthInv
<1> QED
  BY <1>1, <1>2, <1>3, <1>4, <1>5, <1>6, <1>7, <1>8, <1>9, <1>10, <1>11, <1>12, <1>13, <1>14, <1>15
     DEF Next, ParseBinOpRHS, Terminated

\* However long the expression, the recursion of the parser is no deeper than four calls
\* for each parenthesis that is open, and one call of ParseBinOpRHS makes another in the same
\* expression for a tighter operator only.
THEOREM RecursionIsBounded == Spec => []RecursionBounded
<1>1. Init => DepthInv
  <2> SUFFICES ASSUME Init PROVE DepthInv
    OBVIOUS
  <2>1. Len(toks) = 0 /\ stack = <<>> /\ err = "none" /\ pc = "Construct"
    BY EmptySeq DEF Init
  <2>2. \A k : {i \in 1 .. Len(toks) - 1 : toks[i].kind = k} = {}
    BY <2>1
  <2>3. Eaten("(") = 0 /\ Eaten(")") = 0
    BY <2>2, FS_EmptySet DEF Eaten
  <2>4. Open = 0
    BY <2>3 DEF Open
  <2> QED
    BY <2>1, <2>4, LevelsEmpty DEF DepthInv
<1>2. ASSUME TypeInv, PrecedenceInv, DepthInv PROVE RecursionBounded
  <2>0. stack \in Seq(Frame(NodeIds)) /\ Len(stack) \in Nat
    BY <1>2, LenProperties DEF TypeInv, TypeOK
  <2>1. ASSUME NEW i \in 1 .. Len(stack) - 1, stack[i].fn = "Merge", stack[i + 1].fn \in {"RHS", "Merge"}
        PROVE  GetTokPrecedence(stack[i].val) < GetTokPrecedence(stack[i + 1].val)
    <3>0. i + 1 \in 1 .. Len(stack) /\ i + 1 # 1 /\ (i + 1) - 1 = i
      BY <2>0, <2>1
    <3>1. Calls(stack[i], stack[i + 1])
      BY <1>2, <3>0 DEF TypeInv, StackOK
    <3>2. stack[i + 1].prec = GetTokPrecedence(stack[i].val) + 1
      BY <2>1, <3>1 DEF Calls, RecursionPrec
    <3>3. stack[i + 1].prec <= GetTokPrecedence(stack[i + 1].val)
      BY <1>2, <2>1, <3>0 DEF PrecedenceInv, FramesBind, FrameBinds
    <3> QED
      BY <3>2, <3>3, PrecedenceRange
  <2>2. Len(stack) <= 4 * Open + 4
    <3>1. CASE err # "none"
      BY <1>2, <3>1 DEF DepthInv
    <3>2. CASE err = "none"
      <4>1. Levels(stack, IF pc = "Identifier" THEN Open + 1 ELSE Open)
        BY <1>2, <3>2 DEF DepthInv
      <4>2. pc = "Identifier" => stack # <<>> /\ Last(stack).fn \in Group
        BY <1>2 DEF TypeInv, TopOK, Top, Group
      <4>3. Open \in Int
        BY <1>2, OpenStep
      <4> QED
        BY <2>0, <4>1, <4>2, <4>3, LevelsBound
    <3> QED
      BY <3>1, <3>2
  <2> QED
    BY <2>1, <2>2 DEF RecursionBounded, Open
<1>3. Init => PrecedenceInv
  BY PrecedenceInvInit
<1>4. TypeInv /\ PrecedenceInv /\ [Next]_vars => PrecedenceInv'
  BY PrecedenceInvStep
<1>5. Init => ConstructIsFirst
  BY DEF Init, ConstructIsFirst
<1>6. ConstructIsFirst /\ [Next]_vars => ConstructIsFirst'
  BY ConstructOnce
<1> QED
  BY <1>1, <1>2, <1>3, <1>4, <1>5, <1>6, DepthStep, ASTInvariant, PTL DEF Spec
=============================================================================
