---------------------------- MODULE ParserProofs ----------------------------
(***************************************************************************)
(* Proofs about Parser, for all identifiers, numerals, token kinds and     *)
(* lengths of the source.  TypeOK and PrecedenceRespected speak of the     *)
(* frames and nodes one at a time and are not inductive: what a call finds *)
(* in its caller's frame when it returns has to be part of the invariant.  *)
(***************************************************************************)
EXTENDS Parser, BasicFacts, FiniteSetTheorems

-----------------------------------------------------------------------------
(***************************************************************************)
(* The inductive invariant, first part: the call stack.                    *)
(***************************************************************************)
Climbing == {"BinOpRHS", "RHS", "Merge"}   \* the states of ParseBinOpRHS

\* What a frame holds ...
Shape(f) == f.fn \in Climbing => Len(f.kids) = 1

\* ... and when a call with frame g may have made the call with frame f.
Calls(g, f) ==
  /\ f.fn = "Expression" => g.fn \in {"Paren", "Call"}
  /\ f.fn \in {"Paren", "Call"} => g.fn \in {"Expression", "RHS"}
  /\ f.fn \in Climbing => g.fn \in {"Paren", "Call", "Merge"}
  /\ g.fn = "Merge" => f.prec = RecursionPrec(g.val)

\* ParseFunctionDefinition calls ParseExpression only.
Bottom(f) == f.fn \in {"Expression"} \cup Climbing

StackOK(s, ids) ==
  /\ s \in Seq(Frame(ids))
  /\ \A i \in 1 .. Len(s) : Shape(s[i]) /\ (IF i = 1 THEN Bottom(s[i]) ELSE Calls(s[i - 1], s[i]))

BinaryHasTwoKids ==
  \A n \in NodeIds : nodes[n].kind = "Binary" => Len(nodes[n].kids) = 2

\* Where the parser is determines which call is the innermost one.
TopOK ==
  /\ pc = "Primary" => stack # <<>> /\ Top.fn \in {"Expression", "RHS"}
  /\ pc \in {"Identifier", "Args"} => stack # <<>> /\ Top.fn = "Call"
  /\ pc = "Loop" => stack # <<>> /\ Top.fn = "BinOpRHS"
  /\ pc = "Return" /\ err = "none" /\ stack # <<>> => Top.fn # "BinOpRHS"
  /\ pc \in {"Construct", "Module", "Arg", "Delimiter", "Type", "Done"} => stack = <<>>
  /\ err # "none" => pc \in {"Return", "Done"}

TypeInv == TypeOK /\ BinaryHasTwoKids /\ StackOK(stack, NodeIds) /\ TopOK

(***************************************************************************)
(* Second part: how tightly the trees bind that the frames hold.           *)
(***************************************************************************)
FrameBinds(f) ==
  f.fn \in {"RHS", "Merge"} =>
    /\ f.prec <= GetTokPrecedence(f.val)
    /\ TopPrec(f.kids[1]) >= GetTokPrecedence(f.val)

FramesBind == \A i \in 1 .. Len(stack) : FrameBinds(stack[i])

LoopBinds ==
  pc = "Loop" => /\ TopPrec(Top.kids[1]) >= GetTokPrecedence(CurTok)
                 /\ TopPrec(Top.kids[1]) >= Top.prec

ReturnBinds ==
  pc = "Return" /\ err = "none" /\ stack # <<>> =>
    /\ Top.fn \in {"Expression", "RHS"} => TopPrec(ret) = Tightest
    /\ Top.fn = "Merge" => /\ TopPrec(ret) > GetTokPrecedence(Top.val)
                           /\ GetTokPrecedence(CurTok) <= GetTokPrecedence(Top.val)

PrecedenceInv == PrecedenceRespected /\ FramesBind /\ LoopBinds /\ ReturnBinds

-----------------------------------------------------------------------------
(***************************************************************************)
(* Lemmas about sequences, tokens and stacks.                              *)
(***************************************************************************)

\* The lookup of GetTokPrecedence stays inside its table, and its result is one of the
\* declared precedences or -1.
LEMMA PrecedenceRange ==
  ASSUME NEW k
  PROVE  /\ TokCode(k) + binop_array_offset < binop_array_size
         /\ GetTokPrecedence(k) \in {-1, 10, 20, 40}
<1>1. TokCode(k) \in Int /\ -304 <= TokCode(k) /\ TokCode(k) <= 255
  BY DEF TokCode
<1>2. TokCode(k) + binop_array_offset < binop_array_size
  BY <1>1 DEF binop_array_offset, binop_array_size
<1>3. \A i \in 0 .. binop_array_size - 1 : init_binop_precedence[i] \in {0, 10, 20, 40}
  BY DEF init_binop_precedence
<1>4. QED
  <2> DEFINE i == TokCode(k) + binop_array_offset
  <2>1. i \in Int /\ i <= binop_array_size - 1
    BY <1>1, <1>2 DEF binop_array_offset, binop_array_size
  <2>2. i >= 0 => init_binop_precedence[i] \in {0, 10, 20, 40}
    BY <1>3, <2>1 DEF binop_array_size
  <2>3. GetTokPrecedence(k) =
          IF i < 0 \/ init_binop_precedence[i] <= 0 THEN -1 ELSE init_binop_precedence[i]
    BY DEF GetTokPrecedence
  <2> HIDE DEF i
  <2>4. QED
    BY <1>2, <2>1, <2>2, <2>3 DEF i

LEMMA FrameMonotonic ==
  ASSUME NEW m \in Nat, NEW n \in Nat, m <= n
  PROVE  /\ Frame(1 .. m) \subseteq Frame(1 .. n)
         /\ Node(1 .. m) \subseteq Node(1 .. n)
         /\ Definition(1 .. m) \subseteq Definition(1 .. n)
<1>1. 1 .. m \subseteq 1 .. n
  OBVIOUS
<1>2. Seq(1 .. m) \subseteq Seq(1 .. n)
  BY <1>1, SeqMonotonic
<1> QED
  BY <1>1, <1>2 DEF Frame, Node, Definition

LEMMA StackGrows ==
  ASSUME NEW m \in Nat, NEW n \in Nat, m <= n, NEW s, StackOK(s, 1 .. m)
  PROVE  StackOK(s, 1 .. n)
<1>1. s \in Seq(Frame(1 .. n))
  BY FrameMonotonic, SeqMonotonic DEF StackOK
<1> QED
  BY <1>1 DEF StackOK

LEMMA StackPush ==
  ASSUME NEW ids, NEW s, StackOK(s, ids), NEW f \in Frame(ids), Shape(f),
         s = <<>> => Bottom(f),
         s # <<>> => Calls(Last(s), f)
  PROVE  /\ StackOK(Append(s, f), ids)
         /\ Append(s, f) # <<>>
         /\ Last(Append(s, f)) = f
<1>1. s \in Seq(Frame(ids)) /\ Len(s) \in Nat /\ (Len(s) = 0 => s = <<>>) /\ (s # <<>> => Last(s) = s[Len(s)])
  BY LenProperties, EmptySeq, FrontLast DEF StackOK
<1>2. /\ Append(s, f) \in Seq(Frame(ids)) /\ Len(Append(s, f)) = Len(s) + 1
      /\ \A i \in 1 .. Len(s) : Append(s, f)[i] = s[i]
      /\ Append(s, f)[Len(s) + 1] = f
      /\ Append(s, f) # <<>> /\ Last(Append(s, f)) = f
  BY <1>1, AppendLast
<1> DEFINE t == Append(s, f)
<1>3. ASSUME NEW i \in 1 .. Len(t)
      PROVE  Shape(t[i]) /\ (IF i = 1 THEN Bottom(t[i]) ELSE Calls(t[i - 1], t[i]))
  <2>1. CASE i \in 1 .. Len(s)
    <3>1. t[i] = s[i] /\ (i # 1 => i - 1 \in 1 .. Len(s) /\ t[i - 1] = s[i - 1])
      BY <1>1, <1>2, <2>1
    <3>2. Shape(s[i]) /\ (IF i = 1 THEN Bottom(s[i]) ELSE Calls(s[i - 1], s[i]))
      BY <2>1 DEF StackOK
    <3> QED
      BY <3>1, <3>2
  <2>2. CASE i = Len(s) + 1 /\ s = <<>>
    BY <1>1, <1>2, <2>2, EmptySeq
  <2>3. CASE i = Len(s) + 1 /\ s # <<>>
    <3>1. t[i] = f /\ i # 1 /\ i - 1 \in 1 .. Len(s) /\ t[i - 1] = Last(s)
      BY <1>1, <1>2, <2>3, EmptySeq
    <3> QED
      BY <3>1, <2>3
  <2> QED
    BY <1>1, <1>2, <2>1, <2>2, <2>3
<1> QED
  BY <1>2, <1>3 DEF StackOK

LEMMA StackPop ==
  ASSUME NEW ids, NEW s, StackOK(s, ids), s # <<>>
  PROVE  /\ StackOK(Front(s), ids)
         /\ Last(s) \in Frame(ids) /\ Shape(Last(s))
         /\ Front(s) = <<>> => Bottom(Last(s))
         /\ Front(s) # <<>> => Last(Front(s)) \in Frame(ids) /\ Calls(Last(Front(s)), Last(s))
<1> DEFINE t == Front(s)
<1>1. /\ s \in Seq(Frame(ids)) /\ t \in Seq(Frame(ids)) /\ Len(s) \in Nat \ {0}
      /\ Len(t) = Len(s) - 1
      /\ \A i \in 1 .. Len(s) - 1 : t[i] = s[i]
      /\ Last(s) = s[Len(s)] /\ Last(s) \in Frame(ids)
  BY FrontLast DEF StackOK
<1>2. t # <<>> => Len(t) \in Nat \ {0} /\ Last(t) = t[Len(t)] /\ Last(t) \in Frame(ids)
  BY <1>1, FrontLast
<1>3. t = <<>> => Len(s) = 1
  BY <1>1, EmptySeq
<1> HIDE DEF t
<1>4. ASSUME NEW i \in 1 .. Len(t)
      PROVE  Shape(t[i]) /\ (IF i = 1 THEN Bottom(t[i]) ELSE Calls(t[i - 1], t[i]))
  <2>1. i \in 1 .. Len(s) /\ t[i] = s[i] /\ (i # 1 => t[i - 1] = s[i - 1])
    BY <1>1
  <2> QED
    BY <2>1 DEF StackOK
<1>5. Shape(Last(s)) /\ (IF Len(s) = 1 THEN Bottom(Last(s)) ELSE Calls(s[Len(s) - 1], Last(s)))
  BY <1>1 DEF StackOK
<1>6. t # <<>> => Len(s) # 1 /\ Last(t) = s[Len(s) - 1]
  BY <1>1, <1>2
<1>7. StackOK(t, ids)
  BY <1>1, <1>4 DEF StackOK
<1> QED
  BY <1>1, <1>2, <1>3, <1>5, <1>6, <1>7 DEF t

\* A frame replaced by the next state of the same call.
LEMMA StackReplace ==
  ASSUME NEW ids, NEW s, StackOK(s, ids), s # <<>>,
         NEW f \in Frame(ids), Shape(f),
         Bottom(Last(s)) => Bottom(f),
         \A g \in Frame(ids) : Calls(g, Last(s)) => Calls(g, f)
  PROVE  /\ StackOK(Append(Front(s), f), ids)
         /\ Append(Front(s), f) # <<>>
         /\ Last(Append(Front(s), f)) = f
BY StackPop, StackPush

LEMMA TokensDelivered ==
  ASSUME toks \in Seq(Token), identifier_str \in Text, real_num_value \in Text, GetTok
  PROVE  /\ toks' \in Seq(Token) /\ toks' # <<>> /\ Len(toks') = Len(toks) + 1
         /\ identifier_str' \in Text /\ real_num_value' \in Text
<1>1. PICK t \in NextTokens(toks) :
        /\ toks' = Append(toks, t)
        /\ identifier_str' = IF t.kind \in {"identifier", "extern"} THEN t.text ELSE identifier_str
        /\ real_num_value' = IF t.kind = "real_number" THEN t.text ELSE real_num_value
  BY DEF GetTok
<1>2. PICK k \in Kind : t \in [kind : {k}, text : TextsOf(k)]
  BY KindsAssumption DEF NextTokens, Kind
<1>3. t \in Token /\ t.kind = k /\ t.text \in TextsOf(k)
  BY <1>2 DEF Token
<1>4. t.text \in Text
  BY <1>3 DEF TextsOf, Text
<1> QED
  BY <1>1, <1>3, <1>4, AppendLast

\* The lexer's part of TypeOK survives every action, whether it reads a token or not.
LEMMA LexerTypes ==
  ASSUME TypeInv, GetTok \/ UNCHANGED lexVars
  PROVE  /\ toks' \in Seq(Token) /\ identifier_str' \in Text /\ real_num_value' \in Text
         /\ GetTok \/ pc # "Construct" => toks' # <<>>
BY TokensDelivered DEF TypeInv, TypeOK, lexVars

\* An action that makes no node.
LEMMA SameNodes ==
  ASSUME TypeInv, GetTok \/ UNCHANGED lexVars, UNCHANGED <<nodes, lines>>,
         GetTok \/ pc # "Construct",
         StackOK(stack', NodeIds),
         pc' \in PC, err' \in Error \cup {"none"}, proto' \in Prototype,
         ret' \in 0 .. Len(nodes), pc' = "Return" /\ err' = "none" => ret' # 0,
         TopOK'
  PROVE  TypeInv'
<1>1. nodes' = nodes /\ lines' = lines /\ NodeIds' = NodeIds
  BY DEF NodeIds
<1>2. BinaryHasTwoKids'
  BY <1>1 DEF TypeInv, BinaryHasTwoKids
<1>3. TypeOK'
  BY <1>1, LexerTypes DEF TypeInv, TypeOK, StackOK
<1> QED
  BY <1>1, <1>2, <1>3 DEF TypeInv

\* An action that makes the node n.
LEMMA OneMoreNode ==
  ASSUME TypeInv, GetTok \/ UNCHANGED lexVars, UNCHANGED <<lines, proto, err>>,
         pc # "Construct", pc' \in PC,
         NEW n \in Node(NodeIds), n.kind = "Binary" => Len(n.kids) = 2,
         nodes' = Append(nodes, n),
         StackOK(stack', 1 .. Len(nodes) + 1),
         ret' \in 0 .. Len(nodes) + 1, pc' = "Return" /\ err' = "none" => ret' # 0,
         TopOK'
  PROVE  TypeInv'
<1> DEFINE m == Len(nodes)
<1>1. nodes \in Seq(Node(1 .. m)) /\ m \in Nat /\ m + 1 \in Nat /\ m <= m + 1
  BY LenProperties DEF TypeInv, TypeOK, NodeIds
<1>2. n \in Node(1 .. m + 1) /\ nodes \in Seq(Node(1 .. m + 1))
  BY <1>1, FrameMonotonic, SeqMonotonic DEF NodeIds
<1>3. /\ nodes' \in Seq(Node(1 .. m + 1)) /\ Len(nodes') = m + 1
      /\ \A i \in 1 .. m : nodes'[i] = nodes[i]
      /\ nodes'[m + 1] = n
  BY <1>2, AppendLast
<1>4. NodeIds' = 1 .. m + 1
  BY <1>3 DEF NodeIds
<1>5. lines' \in Seq(Definition(1 .. m + 1))
  BY <1>1, FrameMonotonic, SeqMonotonic DEF TypeInv, TypeOK, NodeIds
<1>6. BinaryHasTwoKids'
  <2> SUFFICES ASSUME NEW i \in 1 .. m + 1, nodes'[i].kind = "Binary"
               PROVE  Len(nodes'[i].kids) = 2
    BY <1>4 DEF BinaryHasTwoKids
  <2>1. i \in 1 .. m \/ i = m + 1
    BY <1>1
  <2> QED
    BY <2>1, <1>3 DEF TypeInv, BinaryHasTwoKids, NodeIds
<1> HIDE DEF m
<1>7. TypeOK'
  BY <1>3, <1>4, <1>5, LexerTypes DEF TypeInv, TypeOK, StackOK, m
<1> QED
  BY <1>4, <1>6, <1>7 DEF TypeInv, m

\* An action that changes no frame either.
LEMMA SameCalls ==
  ASSUME TypeInv, GetTok \/ UNCHANGED lexVars, UNCHANGED <<stack, nodes, lines>>,
         GetTok \/ pc # "Construct",
         pc' \in PC, err' \in Error \cup {"none"}, proto' \in Prototype,
         ret' \in {0, ret}, pc' = "Return" /\ err' = "none" => ret' # 0,
         TopOK'
  PROVE  TypeInv'
<1>1. ret' \in 0 .. Len(nodes) /\ StackOK(stack', NodeIds)
  BY LenProperties DEF TypeInv, TypeOK
<1> QED
  BY <1>1, SameNodes

LEMMA NewFrameType ==
  ASSUME NEW ids, NEW fn \in {"Expression", "BinOpRHS", "RHS", "Merge", "Paren", "Call"}
  PROVE  /\ NewFrame(fn) \in Frame(ids)
         /\ NewFrame(fn).fn = fn /\ NewFrame(fn).prec = 0 /\ NewFrame(fn).kids = <<>>
         /\ NewFrame(fn).val = "" /\ NewFrame(fn).first = 0
BY EmptySeq DEF NewFrame, Frame, Text

LEMMA FailStep ==
  ASSUME TypeInv, NEW e \in Error, Fail(e), pc # "Construct"
  PROVE  TypeInv'
<1>1. /\ pc' = "Return" /\ err' = e /\ ret' = 0 /\ proto' = proto
      /\ UNCHANGED lexVars /\ UNCHANGED <<stack, nodes, lines>> /\ e # "none"
  BY DEF Fail, defVars, Error
<1>2. TopOK'
  BY <1>1 DEF TopOK
<1> QED
  BY <1>1, <1>2, SameCalls DEF TypeInv, TypeOK, PC, Error

LEMMA ModuleSteps ==
  ASSUME TypeInv, Construct \/ ParseModule \/ ModuleError
  PROVE  TypeInv'
<1>1. identifier_str \in Text /\ Len(toks) \in Nat
  BY LenProperties DEF TypeInv, TypeOK
<1>2. CASE Construct
  <2>1. TopOK'
    BY <1>2 DEF Construct, TypeInv, TopOK
  <2> QED
    BY <1>2, <2>1, SameCalls DEF Construct, TypeInv, TypeOK, PC, defVars
<1>3. CASE ModuleEnd
  <2>1. TopOK'
    BY <1>3 DEF ModuleEnd, TypeInv, TopOK
  <2> QED
    BY <1>3, <2>1, SameCalls DEF ModuleEnd, TypeInv, TypeOK, PC, defVars
<1>4. CASE ModuleLineBreak
  <2>1. TopOK'
    BY <1>4 DEF ModuleLineBreak, TypeInv, TopOK
  <2> QED
    BY <1>4, <2>1, SameCalls DEF ModuleLineBreak, TypeInv, TypeOK, PC, defVars
<1>5. CASE ModuleDefinition
  <2>1. TopOK'
    BY <1>5 DEF ModuleDefinition, TypeInv, TopOK
  <2>2. proto' \in Prototype
    BY <1>1, <1>5, EmptySeq DEF ModuleDefinition, Prototype
  <2> QED
    BY <1>5, <2>1, <2>2, SameCalls DEF ModuleDefinition, TypeInv, TypeOK, PC
<1>6. CASE ModuleUnexpected
  BY <1>6, FailStep DEF ModuleUnexpected, Error
<1>7. CASE ModuleError
  <2>1. TopOK'
    BY <1>7 DEF ModuleError, TypeInv, TopOK
  <2> QED
    BY <1>7, <2>1, SameCalls DEF ModuleError, TypeInv, TypeOK, PC, defVars
<1> QED
  BY <1>2, <1>3, <1>4, <1>5, <1>6, <1>7 DEF ParseModule

LEMMA PrototypeSteps ==
  ASSUME TypeInv, ParsePrototype
  PROVE  TypeInv'
<1>1. CASE PrototypeArg
  <2>1. TopOK'
    BY <1>1 DEF PrototypeArg, TypeInv, TopOK
  <2>2. proto.Args \in Seq(Text) /\ identifier_str \in Text
    BY DEF TypeInv, TypeOK, Prototype
  <2>3. Append(proto.Args, identifier_str) \in Seq(Text)
    BY <2>2, AppendLast
  <2>4. proto' \in Prototype
    BY <1>1, <2>3 DEF PrototypeArg, TypeInv, TypeOK, Prototype
  <2> QED
    BY <1>1, <2>1, <2>4, SameCalls DEF PrototypeArg, TypeInv, TypeOK, PC
<1>2. CASE PrototypeDelimiter
  <2>1. CASE CurTok = ":"
    <3>1. TopOK'
      BY <1>2, <2>1 DEF PrototypeDelimiter, TypeInv, TopOK
    <3> QED
      BY <1>2, <2>1, <3>1, SameCalls DEF PrototypeDelimiter, TypeInv, TypeOK, PC, defVars
  <2> QED
    BY <1>2, <2>1, FailStep DEF PrototypeDelimiter, Error
<1>3. CASE PrototypeType
  <2>1. CASE CurTok = "identifier"
    <3>1. TopOK'
      BY <1>3, <2>1 DEF PrototypeType, TypeInv, TopOK
    <3> QED
      BY <1>3, <2>1, <3>1, SameCalls DEF PrototypeType, TypeInv, TypeOK, PC, defVars
  <2> QED
    BY <1>3, <2>1, FailStep DEF PrototypeType, Error
<1>4. CASE PrototypeArrow
  <2>1. CASE CurTok = "func_arrow"
    <3> DEFINE f == NewFrame("Expression")
    <3>1. stack = <<>> /\ stack' = Append(stack, f) /\ pc' = "Primary" /\ err' = err /\ err = "none"
      BY <1>4, <2>1 DEF PrototypeArrow, CallExpression, Push, TypeInv, TopOK
    <3>2. f \in Frame(NodeIds) /\ f.fn = "Expression"
      BY NewFrameType
    <3> HIDE DEF f
    <3>3. Shape(f) /\ Bottom(f)
      BY <3>2 DEF Shape, Bottom, Climbing
    <3>4. StackOK(stack', NodeIds) /\ stack' # <<>> /\ Last(stack') = f
      BY <3>1, <3>2, <3>3, StackPush DEF TypeInv
    <3>5. TopOK'
      BY <3>1, <3>2, <3>4 DEF TopOK, Top
    <3> QED
      BY <1>4, <2>1, <3>1, <3>4, <3>5, SameNodes DEF PrototypeArrow, TypeInv, TypeOK, PC, defVars
  <2> QED
    BY <1>4, <2>1, FailStep DEF PrototypeArrow, Error
<1> QED
  BY <1>1, <1>2, <1>3, <1>4 DEF ParsePrototype

\* ParsePrimary returns a number to ParseExpression or ParseBinOpRHS.
LEMMA PrimarySteps ==
  ASSUME TypeInv, ParsePrimary
  PROVE  TypeInv'
<1>1. /\ pc = "Primary" /\ stack # <<>> /\ Last(stack) \in Frame(NodeIds)
      /\ Top.fn \in {"Expression", "RHS"} /\ err = "none"
  BY StackPop DEF ParsePrimary, PrimaryUnknown, NumberExpr, ParenExpr, IdentifierExpr, TypeInv,
                  TopOK, Top
<1>2. CASE PrimaryUnknown
  BY <1>1, <1>2, FailStep DEF PrimaryUnknown, Error
<1>3. CASE NumberExpr
  <2> DEFINE n == NewNode("Number", real_num_value, <<>>, Len(toks), Len(toks))
  <2>1. n \in Node(NodeIds) /\ n.kind = "Number"
    BY EmptySeq, LenProperties DEF NewNode, Node, TypeInv, TypeOK
  <2>2. nodes' = Append(nodes, n) /\ ret' = Len(nodes) + 1 /\ pc' = "Return" /\ stack' = stack /\ err' = err
    BY <1>3 DEF NumberExpr, ReturnNew
  <2> HIDE DEF n
  <2>3. Len(nodes) \in Nat /\ Len(nodes) <= Len(nodes) + 1 /\ Len(nodes) + 1 \in Nat
    BY LenProperties DEF TypeInv, TypeOK
  <2>4. StackOK(stack', 1 .. Len(nodes) + 1)
    BY <2>2, <2>3, StackGrows DEF TypeInv, NodeIds
  <2>5. TopOK'
    BY <1>1, <2>2 DEF TopOK, Top
  <2>6. ret' \in 0 .. Len(nodes) + 1 /\ ret' # 0
    BY <2>2, <2>3
  <2> QED
    BY <1>3, <1>1, <2>1, <2>2, <2>4, <2>5, <2>6, OneMoreNode DEF NumberExpr, PC, defVars
<1>4. CASE ParenExpr
  <2> DEFINE f == NewFrame("Paren")
             g == NewFrame("Expression")
  <2>1. stack' = Append(Append(stack, f), g) /\ UNCHANGED <<pc, nodes, ret, err, lines, proto>>
    BY <1>4 DEF ParenExpr, defVars
  <2>2. f \in Frame(NodeIds) /\ f.fn = "Paren" /\ g \in Frame(NodeIds) /\ g.fn = "Expression"
    BY NewFrameType
  <2> HIDE DEF f, g
  <2>3. Shape(f) /\ Shape(g) /\ Calls(Last(stack), f) /\ Calls(f, g)
    BY <1>1, <2>2 DEF Shape, Calls, Climbing, Top
  <2>4. StackOK(Append(stack, f), NodeIds) /\ Append(stack, f) # <<>> /\ Last(Append(stack, f)) = f
    BY <1>1, <2>2, <2>3, StackPush DEF TypeInv
  <2>5. StackOK(stack', NodeIds) /\ stack' # <<>> /\ Last(stack') = g
    BY <2>1, <2>2, <2>3, <2>4, StackPush
  <2>6. TopOK'
    BY <1>1, <2>1, <2>2, <2>5 DEF TopOK, Top
  <2> QED
    BY <1>1, <1>4, <2>1, <2>5, <2>6, SameNodes DEF ParenExpr, TypeInv, TypeOK
<1>5. CASE IdentifierExpr
  <2> DEFINE f == [NewFrame("Call") EXCEPT !.val = identifier_str, !.first = Len(toks)]
  <2>1. stack' = Append(stack, f) /\ pc' = "Identifier" /\ UNCHANGED <<nodes, ret, err, lines, proto>>
    BY <1>5 DEF IdentifierExpr, defVars, Push
  <2>2. identifier_str \in Text /\ Len(toks) \in Nat
    BY LenProperties DEF TypeInv, TypeOK
  <2>3. f \in Frame(NodeIds) /\ f.fn = "Call"
    BY <2>2, NewFrameType DEF Frame
  <2> HIDE DEF f
  <2>4. Shape(f) /\ Calls(Last(stack), f)
    BY <1>1, <2>3 DEF Shape, Calls, Climbing, Top
  <2>5. StackOK(stack', NodeIds) /\ stack' # <<>> /\ Last(stack') = f
    BY <1>1, <2>1, <2>3, <2>4, StackPush DEF TypeInv
  <2>6. TopOK'
    BY <1>1, <2>1, <2>3, <2>5 DEF TopOK, Top
  <2> QED
    BY <1>1, <1>5, <2>1, <2>5, <2>6, SameNodes DEF IdentifierExpr, TypeInv, TypeOK, PC
<1> QED
  BY <1>2, <1>3, <1>4, <1>5 DEF ParsePrimary

\* The ')' of an argument list: a node is made and the frame of the call goes.
LEMMA CloseCallStep ==
  ASSUME TypeInv, stack # <<>>, Top.fn = "Call", err = "none", pc # "Construct",
         NEW args \in Seq(NodeIds), CloseCall(args)
  PROVE  TypeInv'
<1> DEFINE n == NewNode("Call", Top.val, args, Top.first, Len(toks))
<1>1. /\ Last(stack) \in Frame(NodeIds) /\ StackOK(Front(stack), NodeIds)
      /\ Front(stack) # <<>> => Last(Front(stack)) \in Frame(NodeIds) /\ Calls(Last(Front(stack)), Last(stack))
  BY StackPop DEF TypeInv
<1>2. n \in Node(NodeIds) /\ n.kind = "Call"
  BY <1>1, LenProperties DEF NewNode, Node, Frame, Top, TypeInv, TypeOK
<1>3. /\ nodes' = Append(nodes, n) /\ ret' = Len(nodes) + 1 /\ pc' = "Return"
      /\ stack' = Front(stack) /\ err' = err /\ GetTok /\ UNCHANGED <<lines, proto>>
  BY DEF CloseCall, ReturnNew, Pop, defVars
<1> HIDE DEF n
<1>4. Len(nodes) \in Nat /\ Len(nodes) <= Len(nodes) + 1 /\ Len(nodes) + 1 \in Nat
  BY LenProperties DEF TypeInv, TypeOK
<1>5. StackOK(stack', 1 .. Len(nodes) + 1)
  BY <1>1, <1>3, <1>4, StackGrows DEF NodeIds
<1>6. TopOK'
  BY <1>1, <1>3 DEF TopOK, Top, Calls
<1>7. ret' \in 0 .. Len(nodes) + 1 /\ ret' # 0
  BY <1>3, <1>4
<1> QED
  BY <1>2, <1>3, <1>5, <1>6, <1>7, OneMoreNode DEF PC

LEMMA IdentifierSteps ==
  ASSUME TypeInv, ParseIdentifierExpr
  PROVE  TypeInv'
<1>1. IdentifierVariable \/ IdentifierCall \/ CallFirstArg \/ CallNoArgs \/ CallArg
  BY DEF ParseIdentifierExpr
<1>2. stack # <<>> /\ Top.fn = "Call" /\ err = "none" /\ pc # "Construct"
  BY <1>1 DEF IdentifierVariable, IdentifierCall, CallFirstArg, CallNoArgs, CallArg, Returning, TypeInv, TopOK
<1>3. /\ Last(stack) \in Frame(NodeIds) /\ StackOK(Front(stack), NodeIds)
      /\ Front(stack) # <<>> => Last(Front(stack)) \in Frame(NodeIds) /\ Calls(Last(Front(stack)), Last(stack))
  BY <1>2, StackPop DEF TypeInv
<1>4. Len(nodes) \in Nat /\ Len(nodes) <= Len(nodes) + 1 /\ Len(nodes) + 1 \in Nat
  BY LenProperties DEF TypeInv, TypeOK
<1>5. CASE IdentifierVariable
  <2> DEFINE n == NewNode("Variable", Top.val, <<>>, Top.first, Top.first)
  <2>1. n \in Node(NodeIds) /\ n.kind = "Variable"
    BY <1>3, EmptySeq DEF NewNode, Node, Frame, Top
  <2>2. /\ nodes' = Append(nodes, n) /\ ret' = Len(nodes) + 1 /\ pc' = "Return"
        /\ stack' = Front(stack) /\ UNCHANGED lexVars /\ UNCHANGED <<lines, proto, err>>
    BY <1>5 DEF IdentifierVariable, ReturnNew, Pop, defVars
  <2> HIDE DEF n
  <2>3. StackOK(stack', 1 .. Len(nodes) + 1)
    BY <1>3, <1>4, <2>2, StackGrows DEF NodeIds
  <2>4. TopOK'
    BY <1>2, <1>3, <2>2 DEF TopOK, Top, Calls
  <2>5. ret' \in 0 .. Len(nodes) + 1 /\ ret' # 0
    BY <1>4, <2>2
  <2> QED
    BY <1>2, <2>1, <2>2, <2>3, <2>4, <2>5, OneMoreNode DEF PC
<1>6. CASE IdentifierCall
  <2>1. TopOK'
    BY <1>2, <1>6 DEF IdentifierCall, TypeInv, TopOK, Top
  <2> QED
    BY <1>2, <1>6, <2>1, SameCalls DEF IdentifierCall, TypeInv, TypeOK, PC, defVars
<1>7. CASE CallFirstArg
  <2> DEFINE f == NewFrame("Expression")
  <2>1. stack' = Append(stack, f) /\ pc' = "Primary" /\ UNCHANGED lexVars
        /\ UNCHANGED <<nodes, ret, err, lines, proto>>
    BY <1>7 DEF CallFirstArg, CallExpression, Push, defVars
  <2>2. f \in Frame(NodeIds) /\ f.fn = "Expression"
    BY NewFrameType
  <2> HIDE DEF f
  <2>3. Shape(f) /\ Calls(Last(stack), f)
    BY <1>2, <2>2 DEF Shape, Calls, Climbing, Top
  <2>4. StackOK(stack', NodeIds) /\ stack' # <<>> /\ Last(stack') = f
    BY <1>2, <2>1, <2>2, <2>3, StackPush DEF TypeInv
  <2>5. TopOK'
    BY <1>2, <2>1, <2>2, <2>4 DEF TopOK, Top
  <2> QED
    BY <1>2, <2>1, <2>4, <2>5, SameNodes DEF TypeInv, TypeOK, PC
<1>8. CASE CallNoArgs
  <2>1. <<>> \in Seq(NodeIds)
    BY EmptySeq
  <2> QED
    BY <1>2, <1>8, <2>1, CloseCallStep DEF CallNoArgs
<1>9. CASE CallArg
  <2>1. ret \in NodeIds /\ Top.kids \in Seq(NodeIds)
    <3>1. ret \in 0 .. Len(nodes) /\ ret # 0
      BY <1>9 DEF CallArg, Returning, TypeInv, TypeOK
    <3>2. ret \in NodeIds
      BY <1>4, <3>1 DEF NodeIds
    <3> QED
      BY <1>3, <3>2 DEF Frame, Top
  <2>2. Append(Top.kids, ret) \in Seq(NodeIds)
    BY <2>1, AppendLast
  <2>3. CASE CurTok = ")"
    BY <1>2, <1>9, <2>2, <2>3, CloseCallStep DEF CallArg
  <2>4. CASE CurTok = ","
    <3> DEFINE f == [Top EXCEPT !.kids = Append(@, ret)]
               g == NewFrame("Expression")
               s == Append(Front(stack), f)
    <3>1. stack' = Append(s, g) /\ pc' = "Primary" /\ UNCHANGED <<nodes, ret, err, lines, proto>> /\ GetTok
      BY <1>9, <2>4 DEF CallArg, ReplaceAndPush, defVars
    <3>2. /\ f \in Frame(NodeIds) /\ f.fn = "Call" /\ f.prec = Top.prec
          /\ g \in Frame(NodeIds) /\ g.fn = "Expression"
      BY <1>2, <1>3, <2>2, NewFrameType DEF Frame, Top
    <3> HIDE DEF f, g
    <3>3. /\ Shape(f) /\ Shape(g) /\ Calls(f, g)
          /\ Bottom(Last(stack)) => Bottom(f)
          /\ \A h \in Frame(NodeIds) : Calls(h, Last(stack)) => Calls(h, f)
      BY <1>2, <3>2 DEF Shape, Calls, Climbing, Top, Bottom
    <3>4. StackOK(s, NodeIds) /\ s # <<>> /\ Last(s) = f
      BY <1>2, <3>2, <3>3, StackReplace DEF TypeInv
    <3> HIDE DEF s
    <3>5. StackOK(stack', NodeIds) /\ stack' # <<>> /\ Last(stack') = g
      BY <3>1, <3>2, <3>3, <3>4, StackPush
    <3>6. TopOK'
      BY <1>2, <3>1, <3>2, <3>5 DEF TopOK, Top
    <3> QED
      BY <1>2, <3>1, <3>5, <3>6, SameNodes DEF TypeInv, TypeOK, PC
  <2>5. CASE CurTok \notin {")", ","}
    BY <1>2, <1>9, <2>5, FailStep DEF CallArg, Error
  <2> QED
    BY <2>3, <2>4, <2>5
<1> QED
  BY <1>1, <1>5, <1>6, <1>7, <1>8, <1>9

\* LHS and its operator meet the operand rhs.
LEMMA MergeStep ==
  ASSUME TypeInv, stack # <<>>, Top.fn \in {"RHS", "Merge"}, err = "none", pc # "Construct",
         NEW rhs \in NodeIds, MergeOperands(rhs)
  PROVE  TypeInv'
<1> DEFINE lhs == Top.kids[1]
           n == NewNode("Binary", Top.val, <<lhs, rhs>>, FirstOf(lhs), LastOf(rhs))
           f == [Top EXCEPT !.fn = "BinOpRHS", !.val = "", !.kids = <<Len(nodes) + 1>>]
           ids == 1 .. Len(nodes) + 1
<1>1. Last(stack) \in Frame(NodeIds) /\ Shape(Last(stack))
  BY StackPop DEF TypeInv
<1>2. Len(nodes) \in Nat /\ Len(nodes) <= Len(nodes) + 1 /\ Len(nodes) + 1 \in Nat
  BY LenProperties DEF TypeInv, TypeOK
<1>3. lhs \in NodeIds
  <2>1. Top.kids \in Seq(NodeIds) /\ Len(Top.kids) = 1
    BY <1>1 DEF Frame, Top, Shape, Climbing
  <2> QED
    BY <2>1, ElementOfSeq
<1>4. nodes[lhs] \in Node(NodeIds) /\ nodes[rhs] \in Node(NodeIds)
  BY <1>3, ElementOfSeq DEF TypeInv, TypeOK, NodeIds
<1>5. FirstOf(lhs) \in Int /\ LastOf(rhs) \in Int
  BY <1>4 DEF FirstOf, LastOf, Node
<1>6. Top.val \in Text \cup Kind /\ Top.prec \in Nat /\ Top.first \in Nat
  BY <1>1 DEF Frame, Top
<1>7. <<lhs, rhs>> \in Seq(NodeIds) /\ Len(<<lhs, rhs>>) = 2
  BY <1>3
<1>8. n \in Node(NodeIds) /\ Len(n.kids) = 2
  BY <1>5, <1>6, <1>7 DEF NewNode, Node
<1>9. <<Len(nodes) + 1>> \in Seq(ids) /\ Len(<<Len(nodes) + 1>>) = 1
  BY <1>2
<1>10. f \in Frame(ids) /\ f.fn = "BinOpRHS" /\ f.prec = Top.prec /\ Len(f.kids) = 1
  BY <1>1, <1>6, <1>9 DEF Frame, Top, Text
<1>11. nodes' = Append(nodes, n) /\ stack' = Append(Front(stack), f) /\ pc' = "Loop"
       /\ UNCHANGED lexVars /\ UNCHANGED <<ret, err, lines, proto>>
  BY DEF MergeOperands, Replace, defVars
<1> HIDE DEF n, f
<1>12. /\ Shape(f) /\ (Bottom(Last(stack)) => Bottom(f))
       /\ \A g \in Frame(ids) : Calls(g, Last(stack)) => Calls(g, f)
  BY <1>10 DEF Shape, Bottom, Calls, Climbing, Top
<1>13. StackOK(stack, ids)
  BY <1>2, StackGrows DEF TypeInv, NodeIds
<1> HIDE DEF ids
<1>14. StackOK(stack', ids) /\ stack' # <<>> /\ Last(stack') = f
  BY <1>10, <1>11, <1>12, <1>13, StackReplace
<1>15. TopOK'
  BY <1>10, <1>11, <1>14 DEF TopOK, Top
<1>16. ret' \in 0 .. Len(nodes) + 1
  BY <1>2, <1>11 DEF TypeInv, TypeOK
<1> QED
  BY <1>8, <1>11, <1>14, <1>15, <1>16, OneMoreNode DEF PC, ids

\* Frames that ParseBinOpRHS starts with.
LEMMA BinOpFrame ==
  ASSUME NEW ids, NEW id \in ids, NEW k \in Nat
  PROVE  /\ [NewFrame("BinOpRHS") EXCEPT !.kids = <<id>>] \in Frame(ids)
         /\ [NewFrame("BinOpRHS") EXCEPT !.prec = k, !.kids = <<id>>] \in Frame(ids)
<1>1. NewFrame("BinOpRHS") \in Frame(ids)
  BY NewFrameType
<1>2. <<id>> \in Seq(ids)
  OBVIOUS
<1> QED
  BY <1>1, <1>2 DEF Frame

LEMMA ClimbingSteps ==
  ASSUME TypeInv, ExpressionOperand \/ ParseBinOpRHS
  PROVE  TypeInv'
<1>1. ExpressionOperand \/ BinOpDone \/ BinOpOperator \/ BinOpOperand \/ BinOpMerge
  BY DEF ParseBinOpRHS
<1>2. /\ stack # <<>> /\ err = "none" /\ pc # "Construct"
      /\ Last(stack) \in Frame(NodeIds) /\ Shape(Last(stack)) /\ StackOK(Front(stack), NodeIds)
      /\ Front(stack) # <<>> => Last(Front(stack)) \in Frame(NodeIds) /\ Calls(Last(Front(stack)), Last(stack))
  <2>1. stack # <<>> /\ err = "none" /\ pc # "Construct"
    BY <1>1 DEF ExpressionOperand, BinOpDone, BinOpOperator, BinOpOperand, BinOpMerge,
                Returning, TypeInv, TopOK
  <2> QED
    BY <2>1, StackPop DEF TypeInv
<1>3. Len(nodes) \in Nat /\ ret \in 0 .. Len(nodes)
  BY LenProperties DEF TypeInv, TypeOK
<1>4. pc = "Return" => ret \in NodeIds
  BY <1>2, <1>3 DEF TypeInv, TypeOK, NodeIds
<1>5. Top.fn \in Climbing => Top.kids[1] \in NodeIds
  BY <1>2, ElementOfSeq DEF Shape, Frame, Top
<1>6. CASE ExpressionOperand
  <2> DEFINE f == [NewFrame("BinOpRHS") EXCEPT !.kids = <<ret>>]
  <2>1. stack' = Append(Front(stack), f) /\ pc' = "Loop" /\ Top.fn = "Expression" /\ pc = "Return"
        /\ UNCHANGED lexVars /\ UNCHANGED <<nodes, ret, err, lines, proto>>
    BY <1>6 DEF ExpressionOperand, Replace, Returning, defVars
  <2>2. f \in Frame(NodeIds) /\ f.fn = "BinOpRHS" /\ Len(f.kids) = 1
    BY <1>4, <2>1, BinOpFrame DEF NewFrame
  <2> HIDE DEF f
  <2>3. /\ Shape(f) /\ (Bottom(Last(stack)) => Bottom(f))
        /\ \A g \in Frame(NodeIds) : Calls(g, Last(stack)) => Calls(g, f)
    BY <2>1, <2>2 DEF Shape, Bottom, Calls, Climbing, Top
  <2>4. StackOK(stack', NodeIds) /\ stack' # <<>> /\ Last(stack') = f
    BY <1>2, <2>1, <2>2, <2>3, StackReplace DEF TypeInv
  <2>5. TopOK'
    BY <1>2, <2>1, <2>2, <2>4 DEF TopOK, Top
  <2> QED
    BY <1>2, <1>3, <2>1, <2>4, <2>5, SameNodes DEF TypeInv, TypeOK, PC
<1>7. CASE BinOpDone
  <2>1. stack' = Front(stack) /\ pc' = "Return" /\ ret' = Top.kids[1] /\ Top.fn = "BinOpRHS"
        /\ UNCHANGED lexVars /\ UNCHANGED <<nodes, err, lines, proto>>
    BY <1>7 DEF BinOpDone, Pop, defVars, TypeInv, TopOK
  <2>2. ret' \in 0 .. Len(nodes) /\ ret' # 0
    BY <1>3, <1>5, <2>1 DEF NodeIds, Climbing
  <2>3. TopOK'
    BY <1>2, <2>1 DEF TopOK, Top, Calls, Climbing
  <2> QED
    BY <1>2, <2>1, <2>2, <2>3, SameNodes DEF TypeInv, TypeOK, PC
<1>8. CASE BinOpOperator
  <2> DEFINE f == [Top EXCEPT !.fn = "RHS", !.val = CurTok]
  <2>1. stack' = Append(Front(stack), f) /\ pc' = "Primary" /\ Top.fn = "BinOpRHS" /\ GetTok
        /\ UNCHANGED <<nodes, ret, err, lines, proto>>
    BY <1>8 DEF BinOpOperator, Replace, defVars, TypeInv, TopOK
  <2>2. CurTok \in Kind
    <3>1. Last(toks) \in Token
      BY <1>2, FrontLast DEF TypeInv, TypeOK
    <3> QED
      BY <3>1 DEF Token, CurTok
  <2>3. f \in Frame(NodeIds) /\ f.fn = "RHS" /\ f.prec = Top.prec /\ f.kids = Top.kids
    BY <1>2, <2>2 DEF Frame, Top
  <2> HIDE DEF f
  <2>4. /\ Shape(f) /\ (Bottom(Last(stack)) => Bottom(f))
        /\ \A g \in Frame(NodeIds) : Calls(g, Last(stack)) => Calls(g, f)
    BY <1>2, <2>1, <2>3 DEF Shape, Bottom, Calls, Climbing, Top
  <2>5. StackOK(stack', NodeIds) /\ stack' # <<>> /\ Last(stack') = f
    BY <1>2, <2>1, <2>3, <2>4, StackReplace DEF TypeInv
  <2>6. TopOK'
    BY <1>2, <2>1, <2>3, <2>5 DEF TopOK, Top
  <2> QED
    BY <1>2, <1>3, <2>1, <2>5, <2>6, SameNodes DEF TypeInv, TypeOK, PC
<1>9. CASE BinOpOperand
  <2>1. Top.fn = "RHS" /\ pc = "Return"
    BY <1>9 DEF BinOpOperand, Returning
  <2>2. CASE NextBindsTighter(Top.val)
    <3> DEFINE f == [Top EXCEPT !.fn = "Merge"]
               k == RecursionPrec(Top.val)
               g == [NewFrame("BinOpRHS") EXCEPT !.prec = k, !.kids = <<ret>>]
               s == Append(Front(stack), f)
    <3>1. stack' = Append(s, g) /\ pc' = "Loop" /\ UNCHANGED lexVars
          /\ UNCHANGED <<nodes, ret, err, lines, proto>>
      BY <1>9, <2>2 DEF BinOpOperand, ReplaceAndPush, defVars
    <3>2. k \in Nat
      BY PrecedenceRange DEF RecursionPrec
    <3>3. g \in Frame(NodeIds) /\ g.fn = "BinOpRHS" /\ g.prec = RecursionPrec(Top.val) /\ Len(g.kids) = 1
      <4> HIDE DEF k
      <4>1. g \in Frame(NodeIds)
        BY <1>4, <2>1, <3>2, BinOpFrame
      <4> QED
        BY <4>1 DEF NewFrame, k
    <3>4. f \in Frame(NodeIds) /\ f.fn = "Merge" /\ f.prec = Top.prec /\ f.kids = Top.kids
          /\ f.val = Top.val
      BY <1>2 DEF Frame, Top
    <3> HIDE DEF f, g
    <3>5. /\ Shape(f) /\ Shape(g) /\ Calls(f, g) /\ (Bottom(Last(stack)) => Bottom(f))
          /\ \A h \in Frame(NodeIds) : Calls(h, Last(stack)) => Calls(h, f)
      BY <1>2, <2>1, <3>3, <3>4 DEF Shape, Bottom, Calls, Climbing, Top
    <3>6. StackOK(s, NodeIds) /\ s # <<>> /\ Last(s) = f
      BY <1>2, <3>4, <3>5, StackReplace DEF TypeInv
    <3> HIDE DEF s
    <3>7. StackOK(stack', NodeIds) /\ stack' # <<>> /\ Last(stack') = g
      BY <3>1, <3>3, <3>5, <3>6, StackPush
    <3>8. TopOK'
      BY <1>2, <3>1, <3>3, <3>7 DEF TopOK, Top
    <3> QED
      BY <1>2, <1>3, <3>1, <3>7, <3>8, SameNodes DEF TypeInv, TypeOK, PC
  <2>3. CASE ~NextBindsTighter(Top.val)
    BY <1>2, <1>4, <1>9, <2>1, <2>3, MergeStep DEF BinOpOperand
  <2> QED
    BY <2>2, <2>3
<1>10. CASE BinOpMerge
  BY <1>2, <1>4, <1>10, MergeStep DEF BinOpMerge, Returning
<1> QED
  BY <1>1, <1>6, <1>7, <1>8, <1>9, <1>10

LEMMA ParenCloseStep ==
  ASSUME TypeInv, ParenClose
  PROVE  TypeInv'
<1>1. /\ stack # <<>> /\ err = "none" /\ pc = "Return" /\ Top.fn = "Paren"
      /\ ret \in 0 .. Len(nodes) /\ ret # 0 /\ Len(nodes) \in Nat
  BY LenProperties DEF ParenClose, Returning, TypeInv, TypeOK
<1>2. ret \in 1 .. Len(nodes)
  BY <1>1
<1>3. CASE CurTok = ")"
  <2> DEFINE n == [nodes[ret] EXCEPT !.paren = @ + 1]
  <2>1. /\ nodes' = [nodes EXCEPT ![ret] = n] /\ GetTok /\ stack' = Front(stack)
        /\ UNCHANGED <<pc, ret, err, lines, proto>>
    BY <1>3 DEF ParenClose, Pop, defVars
  <2>2. nodes \in Seq(Node(NodeIds)) /\ nodes[ret] \in Node(NodeIds)
    BY <1>2, ElementOfSeq DEF TypeInv, TypeOK
  <2>3. n \in Node(NodeIds) /\ n.kind = nodes[ret].kind /\ n.kids = nodes[ret].kids
    <3>1. ASSUME NEW e \in Node(NodeIds)
          PROVE  /\ [e EXCEPT !.paren = @ + 1] \in Node(NodeIds)
                 /\ [e EXCEPT !.paren = @ + 1].kind = e.kind
                 /\ [e EXCEPT !.paren = @ + 1].kids = e.kids
      BY DEF Node
    <3> QED
      BY <2>2, <3>1
  <2> HIDE DEF n
  <2>4. /\ nodes' \in Seq(Node(NodeIds)) /\ Len(nodes') = Len(nodes)
        /\ \A i \in 1 .. Len(nodes) : nodes'[i] = IF i = ret THEN n ELSE nodes[i]
    BY <1>2, <2>1, <2>2, <2>3, ExceptSeq
  <2>5. NodeIds' = NodeIds
    BY <2>4 DEF NodeIds
  <2>6. BinaryHasTwoKids'
    BY <2>3, <2>4, <2>5 DEF TypeInv, BinaryHasTwoKids, NodeIds
  <2>7. /\ StackOK(stack', NodeIds)
        /\ stack' # <<>> => Last(stack') \in Frame(NodeIds) /\ Calls(Last(stack'), Last(stack))
    BY <1>1, <2>1, StackPop DEF TypeInv
  <2>8. TopOK'
    BY <1>1, <2>1, <2>7 DEF TopOK, Top, Calls
  <2>9. TypeOK'
    BY <1>1, <2>1, <2>4, <2>5, <2>7, LexerTypes DEF TypeInv, TypeOK, StackOK
  <2> QED
    BY <2>5, <2>6, <2>7, <2>8, <2>9 DEF TypeInv
<1>4. CASE CurTok # ")"
  BY <1>1, <1>4, FailStep DEF ParenClose, Error
<1> QED
  BY <1>3, <1>4

LEMMA DefinitionDoneStep ==
  ASSUME TypeInv, DefinitionDone
  PROVE  TypeInv'
<1>1. /\ stack = <<>> /\ err = "none" /\ pc = "Return" /\ Len(nodes) \in Nat
      /\ ret \in 0 .. Len(nodes) /\ ret # 0 /\ proto \in Prototype
  BY LenProperties DEF DefinitionDone, TypeInv, TypeOK
<1>2. [Proto |-> proto, Body |-> ret] \in Definition(NodeIds)
  BY <1>1 DEF Definition, NodeIds
<1>3. /\ lines' = Append(lines, [Proto |-> proto, Body |-> ret]) /\ pc' = "Module"
      /\ UNCHANGED lexVars /\ UNCHANGED <<stack, nodes, ret, err, proto>>
  BY DEF DefinitionDone
<1>4. lines' \in Seq(Definition(NodeIds)) /\ NodeIds' = NodeIds
  BY <1>2, <1>3, AppendLast DEF TypeInv, TypeOK, NodeIds
<1>5. TopOK' /\ BinaryHasTwoKids'
  BY <1>1, <1>3, <1>4 DEF TypeInv, TopOK, BinaryHasTwoKids
<1>6. TypeOK'
  BY <1>1, <1>3, <1>4, LexerTypes DEF TypeInv, TypeOK, PC
<1> QED
  BY <1>3, <1>4, <1>5, <1>6 DEF TypeInv

LEMMA PropagateStep ==
  ASSUME TypeInv, Propagate
  PROVE  TypeInv'
<1>1. /\ stack # <<>> /\ err # "none" /\ pc = "Return" /\ stack' = Front(stack)
      /\ UNCHANGED lexVars /\ UNCHANGED <<pc, nodes, ret, err, lines, proto>>
  BY DEF Propagate, Pop, defVars
<1>2. StackOK(stack', NodeIds)
  BY <1>1, StackPop DEF TypeInv
<1>3. TopOK'
  BY <1>1 DEF TopOK
<1> QED
  BY <1>1, <1>2, <1>3, SameNodes DEF TypeInv, TypeOK

LEMMA TypeInvInit ==
  ASSUME Init
  PROVE  TypeInv
<1>1. <<>> \in Seq(Token) /\ <<>> \in Seq(Frame(NodeIds)) /\ <<>> \in Seq(Node(NodeIds))
      /\ <<>> \in Seq(Definition(NodeIds)) /\ <<>> \in Seq(Text) /\ Len(<<>>) = 0
  BY EmptySeq
<1>2. proto \in Prototype
  BY <1>1 DEF Init, Prototype, Text
<1>3. /\ toks \in Seq(Token) /\ stack \in Seq(Frame(NodeIds)) /\ nodes \in Seq(Node(NodeIds))
      /\ lines \in Seq(Definition(NodeIds)) /\ Len(nodes) = 0 /\ Len(stack) = 0
  BY <1>1 DEF Init
<1>4. TypeOK
  <2>1. /\ identifier_str \in Text /\ real_num_value \in Text
        /\ pc = "Construct" /\ ret = 0 /\ err = "none"
    BY DEF Init, Text
  <2> QED
    BY <1>2, <1>3, <2>1 DEF TypeOK, PC
<1>5. BinaryHasTwoKids
  BY <1>3 DEF BinaryHasTwoKids, NodeIds
<1>6. StackOK(stack, NodeIds)
  BY <1>3 DEF StackOK
<1>7. TopOK
  BY DEF Init, TopOK
<1> QED
  BY <1>4, <1>5, <1>6, <1>7 DEF TypeInv

LEMMA TypeInvStep ==
  ASSUME TypeInv, [Next]_vars
  PROVE  TypeInv'
<1>1. CASE Construct \/ ParseModule \/ ModuleError
  BY <1>1, ModuleSteps
<1>2. CASE ParsePrototype
  BY <1>2, PrototypeSteps
<1>3. CASE ParsePrimary
  BY <1>3, PrimarySteps
<1>4. CASE ParseIdentifierExpr
  BY <1>4, IdentifierSteps
<1>5. CASE ExpressionOperand \/ ParseBinOpRHS
  BY <1>5, ClimbingSteps
<1>6. CASE ParenClose
  BY <1>6, ParenCloseStep
<1>7. CASE DefinitionDone
  BY <1>7, DefinitionDoneStep
<1>8. CASE Propagate
  BY <1>8, PropagateStep
<1>9. CASE UNCHANGED vars
  BY <1>9 DEF vars, lexVars, defVars, TypeInv, TypeOK, BinaryHasTwoKids, NodeIds, TopOK, Top
<1> QED
  BY <1>1, <1>2, <1>3, <1>4, <1>5, <1>6, <1>7, <1>8, <1>9 DEF Next, Terminated

-----------------------------------------------------------------------------
(***************************************************************************)
(* Type correctness: in every state of every parse the variables have      *)
(* their types, and no frame, node, definition or result refers to a node  *)
(* that was never made.                                                    *)
(***************************************************************************)
THEOREM TypeCorrect == Spec => []TypeOK
<1>1. Init => TypeInv
  BY TypeInvInit
<1>2. TypeInv /\ [Next]_vars => TypeInv'
  BY TypeInvStep
<1>3. TypeInv => TypeOK
  BY DEF TypeInv
<1> QED
  BY <1>1, <1>2, <1>3, PTL DEF Spec

-----------------------------------------------------------------------------
(***************************************************************************)
(* What a step does to the nodes and frames there were: it keeps the       *)
(* frames below the top and the nodes, except that ParenClose puts a pair  *)
(* of parentheses around one.  So no node comes to bind less tightly.      *)
(***************************************************************************)
Keeps ==
  \A n \in NodeIds :
    /\ n \in NodeIds'
    /\ nodes'[n].kind = nodes[n].kind /\ nodes'[n].val = nodes[n].val
    /\ nodes'[n].kids = nodes[n].kids
    /\ TopPrec(n)' >= TopPrec(n)

\* Every frame of t is one of new or where it is in the stack.
FromStack(t, new) ==
  \A i \in 1 .. Len(t) : t[i] \in new \/ (i \in 1 .. Len(stack) /\ t[i] = stack[i])

LEMMA TopPrecRange == \A n : TopPrec(n) \in {-1, 10, 20, 40, 100}
BY PrecedenceRange DEF TopPrec, Tightest

LEMMA KeepsSame ==
  ASSUME nodes' = nodes
  PROVE  Keeps /\ NodeIds' = NodeIds /\ \A n : TopPrec(n)' = TopPrec(n)
<1>1. \A n : TopPrec(n)' = TopPrec(n)
  BY DEF TopPrec
<1>2. \A n : TopPrec(n)' >= TopPrec(n)
  BY <1>1, TopPrecRange
<1> QED
  BY <1>1, <1>2 DEF Keeps, NodeIds

LEMMA KeepsAppend ==
  ASSUME TypeInv, NEW n \in Node(NodeIds), nodes' = Append(nodes, n),
         NEW m, m = Len(nodes)
  PROVE  /\ Keeps
         /\ NodeIds' = 1 .. m + 1 /\ m \in Nat
         /\ nodes'[m + 1] = n
         /\ TopPrec(m + 1)' =
              IF n.kind = "Binary" /\ n.paren = 0 THEN GetTokPrecedence(n.val) ELSE Tightest
         /\ \A i \in NodeIds : TopPrec(i)' = TopPrec(i)
<1>1. /\ Len(nodes') = Len(nodes) + 1 /\ nodes'[Len(nodes) + 1] = n
      /\ \A i \in 1 .. Len(nodes) : nodes'[i] = nodes[i]
      /\ Len(nodes) \in Nat
  BY AppendLast, LenProperties DEF TypeInv, TypeOK
<1>2. NodeIds' = 1 .. Len(nodes) + 1
  BY <1>1 DEF NodeIds
<1>3. \A i \in NodeIds : nodes'[i] = nodes[i] /\ i \in NodeIds' /\ TopPrec(i)' = TopPrec(i)
  BY <1>1, <1>2 DEF NodeIds, TopPrec
<1>4. \A i \in NodeIds : TopPrec(i)' >= TopPrec(i)
  BY <1>3, TopPrecRange
<1>5. Keeps
  BY <1>3, <1>4 DEF Keeps
<1>6. TopPrec(m + 1)' =
        IF n.kind = "Binary" /\ n.paren = 0 THEN GetTokPrecedence(n.val) ELSE Tightest
  BY <1>1 DEF TopPrec
<1> QED
  BY <1>1, <1>2, <1>3, <1>5, <1>6

LEMMA RespectedOnIds ==
  ASSUME TypeInv
  PROVE  /\ PrecedenceRespected <=> \A n \in NodeIds : nodes[n].kind = "Binary" =>
                /\ TopPrec(nodes[n].kids[1]) >= GetTokPrecedence(nodes[n].val)
                /\ TopPrec(nodes[n].kids[2]) > GetTokPrecedence(nodes[n].val)
         /\ \A n \in NodeIds : nodes[n].kind = "Binary" =>
                nodes[n].kids[1] \in NodeIds /\ nodes[n].kids[2] \in NodeIds
<1>1. DOMAIN nodes = NodeIds
  BY LenProperties DEF TypeInv, TypeOK, NodeIds
<1>2. ASSUME NEW n \in NodeIds, nodes[n].kind = "Binary"
      PROVE  nodes[n].kids[1] \in NodeIds /\ nodes[n].kids[2] \in NodeIds
  <2>1. nodes[n] \in Node(NodeIds) /\ Len(nodes[n].kids) = 2
    BY <1>2, ElementOfSeq DEF TypeInv, TypeOK, BinaryHasTwoKids, NodeIds
  <2>2. nodes[n].kids \in Seq(NodeIds)
    BY <2>1 DEF Node
  <2> QED
    BY <2>1, <2>2, ElementOfSeq
<1> QED
  BY <1>1, <1>2 DEF PrecedenceRespected

\* The old nodes still respect precedence; the new ones are left to show.
LEMMA RespectedKept ==
  ASSUME TypeInv, TypeInv', PrecedenceRespected, Keeps,
         \A n \in NodeIds' \ NodeIds : nodes'[n].kind = "Binary" =>
            /\ TopPrec(nodes[n].kids[1])' >= GetTokPrecedence(nodes'[n].val)
            /\ TopPrec(nodes[n].kids[2])' > GetTokPrecedence(nodes'[n].val)
  PROVE  PrecedenceRespected'
<1> SUFFICES ASSUME NEW n \in NodeIds', nodes'[n].kind = "Binary"
             PROVE  /\ TopPrec(nodes[n].kids[1])' >= GetTokPrecedence(nodes'[n].val)
                    /\ TopPrec(nodes[n].kids[2])' > GetTokPrecedence(nodes'[n].val)
  <2>1. DOMAIN nodes' = NodeIds'
    BY LenProperties DEF TypeInv, TypeOK, NodeIds
  <2> QED
    BY <2>1 DEF PrecedenceRespected
<1>1. CASE n \in NodeIds
  <2> DEFINE a == nodes[n].kids[1]
             b == nodes[n].kids[2]
             k == GetTokPrecedence(nodes[n].val)
  <2>1. nodes'[n].kids = nodes[n].kids /\ nodes'[n].val = nodes[n].val /\ nodes[n].kind = "Binary"
    BY <1>1 DEF Keeps
  <2>2. a \in NodeIds /\ b \in NodeIds /\ TopPrec(a) >= k /\ TopPrec(b) > k
    BY <1>1, <2>1, RespectedOnIds
  <2>3. TopPrec(nodes[n].kids[1])' >= TopPrec(a) /\ TopPrec(nodes[n].kids[2])' >= TopPrec(b)
    BY <2>1, <2>2 DEF Keeps, TopPrec
  <2>4. k \in Int /\ TopPrec(a) \in Int /\ TopPrec(b) \in Int
        /\ TopPrec(nodes[n].kids[1])' \in Int /\ TopPrec(nodes[n].kids[2])' \in Int
    BY PrecedenceRange DEF TopPrec, Tightest
  <2> QED
    BY <2>1, <2>2, <2>3, <2>4
<1> QED
  BY <1>1

LEMMA FromStackSame ==
  ASSUME StackOK(stack, NodeIds)
  PROVE  /\ FromStack(stack, {})
         /\ stack # <<>> => FromStack(Front(stack), {})
<1>1. stack \in Seq(Frame(NodeIds))
  BY DEF StackOK
<1>2. FromStack(stack, {})
  BY DEF FromStack
<1>3. ASSUME stack # <<>> PROVE FromStack(Front(stack), {})
  <2>1. /\ Len(stack) \in Nat \ {0} /\ Len(Front(stack)) = Len(stack) - 1
        /\ \A i \in 1 .. Len(stack) - 1 : Front(stack)[i] = stack[i]
    BY <1>1, <1>3, FrontLast
  <2>2. \A i \in 1 .. Len(Front(stack)) : i \in 1 .. Len(stack) /\ Front(stack)[i] = stack[i]
    BY <2>1
  <2> QED
    BY <2>2 DEF FromStack
<1> QED
  BY <1>2, <1>3

LEMMA FromStackAppend ==
  ASSUME NEW ids, NEW t, StackOK(t, ids), NEW new, FromStack(t, new), NEW f \in Frame(ids)
  PROVE  FromStack(Append(t, f), new \cup {f})
<1>1. /\ Len(t) \in Nat /\ Len(Append(t, f)) = Len(t) + 1
      /\ \A i \in 1 .. Len(t) : Append(t, f)[i] = t[i]
      /\ Append(t, f)[Len(t) + 1] = f
  BY AppendLast, LenProperties DEF StackOK
<1>2. ASSUME NEW i \in 1 .. Len(Append(t, f))
      PROVE  \/ Append(t, f)[i] \in new \cup {f}
             \/ i \in 1 .. Len(stack) /\ Append(t, f)[i] = stack[i]
  <2>1. i \in 1 .. Len(t) \/ i = Len(t) + 1
    BY <1>1
  <2> QED
    BY <1>1, <2>1 DEF FromStack
<1> QED
  BY <1>2 DEF FromStack

\* A frame that was there still binds; the new ones are left to show.
LEMMA FramesKept ==
  ASSUME TypeInv, FramesBind, Keeps, NEW new, FromStack(stack', new),
         \A f \in new : f.fn \in {"RHS", "Merge"} =>
            /\ nodes' = nodes /\ f.prec <= GetTokPrecedence(f.val)
            /\ TopPrec(f.kids[1]) >= GetTokPrecedence(f.val)
  PROVE  FramesBind'
<1> SUFFICES ASSUME NEW i \in 1 .. Len(stack'), stack'[i].fn \in {"RHS", "Merge"}
             PROVE  /\ stack'[i].prec <= GetTokPrecedence(stack'[i].val)
                    /\ TopPrec(stack[i].kids[1])' >= GetTokPrecedence(stack'[i].val)
  BY DEF FramesBind, FrameBinds
<1>1. CASE stack'[i] \in new
  <2>1. /\ nodes' = nodes /\ stack'[i].prec <= GetTokPrecedence(stack'[i].val)
        /\ TopPrec(stack'[i].kids[1]) >= GetTokPrecedence(stack'[i].val)
    BY <1>1
  <2>2. TopPrec(stack[i].kids[1])' = TopPrec(stack'[i].kids[1])
    BY <2>1 DEF TopPrec
  <2> QED
    BY <2>1, <2>2
<1>2. CASE i \in 1 .. Len(stack) /\ stack'[i] = stack[i]
  <2> DEFINE a == stack[i].kids[1]
             k == GetTokPrecedence(stack[i].val)
  <2>1. stack[i] \in Frame(NodeIds) /\ Len(stack[i].kids) = 1
    BY <1>2, ElementOfSeq DEF TypeInv, StackOK, Shape, Climbing
  <2>2. a \in NodeIds
    <3>1. stack[i].kids \in Seq(NodeIds)
      BY <2>1 DEF Frame
    <3> QED
      BY <2>1, <3>1, ElementOfSeq
  <2>3. stack[i].prec <= k /\ TopPrec(a) >= k
    BY <1>2 DEF FramesBind, FrameBinds
  <2>4. TopPrec(stack[i].kids[1])' >= TopPrec(a)
    BY <1>2, <2>2 DEF Keeps, TopPrec
  <2>5. k \in Int /\ TopPrec(a) \in Int /\ TopPrec(stack[i].kids[1])' \in Int
    BY PrecedenceRange DEF TopPrec, Tightest
  <2> QED
    BY <1>2, <2>3, <2>4, <2>5
<1> QED
  BY <1>1, <1>2 DEF FromStack

\* A step that makes no node and puts no frame of ParseBinOpRHS on the stack.
LEMMA QuietStep ==
  ASSUME TypeInv, TypeInv', PrecedenceInv, nodes' = nodes,
         NEW new, FromStack(stack', new), \A f \in new : f.fn \notin {"RHS", "Merge"},
         LoopBinds', ReturnBinds'
  PROVE  PrecedenceInv'
<1>1. Keeps /\ NodeIds' = NodeIds
  BY KeepsSame
<1>2. PrecedenceRespected'
  BY <1>1, RespectedKept DEF PrecedenceInv
<1>3. FramesBind'
  BY <1>1, FramesKept DEF PrecedenceInv
<1> QED
  BY <1>2, <1>3 DEF PrecedenceInv

\* A step that makes a node n and pops the frame of the call that made it, or none.
LEMMA NewOperand ==
  ASSUME TypeInv, TypeInv', PrecedenceInv,
         NEW n \in Node(NodeIds), n.kind # "Binary", nodes' = Append(nodes, n),
         ret' = Len(nodes) + 1, pc' = "Return",
         stack' = stack \/ (stack # <<>> /\ stack' = Front(stack)),
         stack' # <<>> => Last(stack').fn \in {"Expression", "RHS"}
  PROVE  PrecedenceInv'
<1> DEFINE m == Len(nodes)
<1>1. Keeps /\ NodeIds' = 1 .. m + 1 /\ m \in Nat /\ nodes'[m + 1] = n
  BY KeepsAppend
<1>2. \A i \in NodeIds' \ NodeIds : nodes'[i] = n
  BY <1>1 DEF NodeIds
<1>3. PrecedenceRespected'
  BY <1>1, <1>2, RespectedKept DEF PrecedenceInv
<1>4. FromStack(stack', {})
  BY FromStackSame DEF TypeInv
<1>5. FramesBind'
  BY <1>1, <1>4, FramesKept DEF PrecedenceInv
<1>6. TopPrec(ret)' = Tightest
  BY <1>1 DEF TopPrec
<1>7. LoopBinds' /\ ReturnBinds'
  BY <1>6 DEF LoopBinds, ReturnBinds, Top
<1> QED
  BY <1>3, <1>5, <1>7 DEF PrecedenceInv

\* No call is at the top of its operator loop, and none has just returned a tree.
LEMMA QuietSteps ==
  ASSUME TypeInv, TypeInv', PrecedenceInv,
         \/ Construct \/ ParseModule \/ ModuleError \/ ParsePrototype \/ DefinitionDone
         \/ Propagate \/ PrimaryUnknown \/ ParenExpr \/ IdentifierExpr
         \/ IdentifierCall \/ CallFirstArg \/ (\E e \in Error : Fail(e))
  PROVE  PrecedenceInv'
<1>1. stack # <<>> => Last(stack) \in Frame(NodeIds)
  BY StackPop DEF TypeInv
<1>2. StackOK(stack, NodeIds) /\ FromStack(stack, {})
  BY FromStackSame DEF TypeInv
<1>3. CASE (\E e \in Error : Fail(e)) \/ PrimaryUnknown
  <2>1. nodes' = nodes /\ stack' = stack /\ pc' = "Return" /\ err' # "none"
    BY <1>3 DEF PrimaryUnknown, Fail, Error
  <2> QED
    BY <1>2, <2>1, QuietStep DEF LoopBinds, ReturnBinds
<1>4. CASE Construct \/ ParseModule \/ ModuleError \/ DefinitionDone \/ IdentifierCall
  <2>1. nodes' = nodes /\ stack' = stack /\ pc' # "Loop" /\ (pc' = "Return" => err' # "none")
    BY <1>4 DEF Construct, ParseModule, ModuleEnd, ModuleLineBreak, ModuleDefinition,
                ModuleUnexpected, ModuleError, DefinitionDone, IdentifierCall, Fail, Error
  <2> QED
    BY <1>2, <2>1, QuietStep DEF LoopBinds, ReturnBinds
<1>5. CASE Propagate
  <2>1. nodes' = nodes /\ stack # <<>> /\ stack' = Front(stack) /\ pc' = "Return" /\ err' # "none"
    BY <1>5 DEF Propagate, Pop
  <2>2. FromStack(stack', {})
    BY <1>2, <2>1, FromStackSame
  <2> QED
    BY <2>1, <2>2, QuietStep DEF LoopBinds, ReturnBinds
<1>6. CASE ParsePrototype
  <2>1. CASE stack' = stack
    <3>1. nodes' = nodes /\ pc' # "Loop" /\ (pc' = "Return" => err' # "none")
      BY <1>6 DEF ParsePrototype, PrototypeArg, PrototypeDelimiter, PrototypeType, PrototypeArrow,
                  CallExpression, Fail, Error
    <3> QED
      BY <1>2, <2>1, <3>1, QuietStep DEF LoopBinds, ReturnBinds
  <2>2. CASE stack' # stack
    <3>1. nodes' = nodes /\ stack' = Append(stack, NewFrame("Expression")) /\ pc' = "Primary"
      BY <1>6, <2>2 DEF ParsePrototype, PrototypeArg, PrototypeDelimiter, PrototypeType,
                        PrototypeArrow, CallExpression, Push, Fail
    <3>2. NewFrame("Expression") \in Frame(NodeIds) /\ NewFrame("Expression").fn = "Expression"
      BY NewFrameType
    <3>3. FromStack(stack', {} \cup {NewFrame("Expression")})
      BY <1>2, <3>1, <3>2, FromStackAppend
    <3> QED
      BY <3>1, <3>2, <3>3, QuietStep DEF LoopBinds, ReturnBinds
  <2> QED
    BY <2>1, <2>2
<1>7. CASE CallFirstArg
  <2>1. nodes' = nodes /\ stack' = Append(stack, NewFrame("Expression")) /\ pc' = "Primary"
    BY <1>7 DEF CallFirstArg, CallExpression, Push
  <2>2. NewFrame("Expression") \in Frame(NodeIds) /\ NewFrame("Expression").fn = "Expression"
    BY NewFrameType
  <2>3. FromStack(stack', {} \cup {NewFrame("Expression")})
    BY <1>2, <2>1, <2>2, FromStackAppend
  <2> QED
    BY <2>1, <2>2, <2>3, QuietStep DEF LoopBinds, ReturnBinds
<1>8. CASE IdentifierExpr
  <2> DEFINE f == [NewFrame("Call") EXCEPT !.val = identifier_str, !.first = Len(toks)]
  <2>1. nodes' = nodes /\ stack' = Append(stack, f) /\ pc' = "Identifier"
    BY <1>8 DEF IdentifierExpr, Push
  <2>2. identifier_str \in Text /\ Len(toks) \in Nat
    BY LenProperties DEF TypeInv, TypeOK
  <2>3. f \in Frame(NodeIds) /\ f.fn = "Call"
    BY <2>2, NewFrameType DEF Frame
  <2> HIDE DEF f
  <2>4. FromStack(stack', {} \cup {f})
    BY <1>2, <2>1, <2>3, FromStackAppend
  <2> QED
    BY <2>1, <2>3, <2>4, QuietStep DEF LoopBinds, ReturnBinds
<1>9. CASE ParenExpr
  <2> DEFINE f == NewFrame("Paren")
             g == NewFrame("Expression")
  <2>1. /\ nodes' = nodes /\ stack' = Append(Append(stack, f), g) /\ pc' = "Primary"
        /\ stack # <<>> /\ Last(stack).fn \in {"Expression", "RHS"}
    BY <1>9 DEF ParenExpr, TypeInv, TopOK, Top
  <2>2. f \in Frame(NodeIds) /\ f.fn = "Paren" /\ g \in Frame(NodeIds) /\ g.fn = "Expression"
    BY NewFrameType
  <2> HIDE DEF f, g
  <2>3. Shape(f) /\ Calls(Last(stack), f)
    BY <1>1, <2>1, <2>2 DEF Shape, Calls, Climbing
  <2>4. StackOK(Append(stack, f), NodeIds)
    BY <1>2, <2>1, <2>2, <2>3, StackPush
  <2>5. FromStack(Append(stack, f), {} \cup {f})
    BY <1>2, <2>2, FromStackAppend
  <2>6. FromStack(stack', ({} \cup {f}) \cup {g})
    BY <2>1, <2>2, <2>4, <2>5, FromStackAppend
  <2> QED
    BY <2>1, <2>2, <2>6, QuietStep DEF LoopBinds, ReturnBinds
<1> QED
  BY <1>3, <1>4, <1>5, <1>6, <1>7, <1>8, <1>9

\* Numbers, variables and calls: new nodes that are no binary expressions.
LEMMA OperandSteps ==
  ASSUME TypeInv, TypeInv', PrecedenceInv, ParsePrimary \/ ParseIdentifierExpr
  PROVE  PrecedenceInv'
<1>1. /\ stack # <<>> /\ Last(stack) \in Frame(NodeIds) /\ err = "none"
      /\ ParsePrimary => Top.fn \in {"Expression", "RHS"}
      /\ ParseIdentifierExpr => Top.fn = "Call"
  <2>1. /\ stack # <<>> /\ err = "none"
        /\ ParsePrimary => Top.fn \in {"Expression", "RHS"}
        /\ ParseIdentifierExpr => Top.fn = "Call"
    BY DEF ParsePrimary, PrimaryUnknown, NumberExpr, ParenExpr, IdentifierExpr,
           ParseIdentifierExpr, IdentifierVariable, IdentifierCall, CallFirstArg, CallNoArgs,
           CallArg, Returning, TypeInv, TopOK
  <2> QED
    BY <2>1, StackPop DEF TypeInv
<1>2. /\ StackOK(Front(stack), NodeIds)
      /\ Front(stack) # <<>> => Calls(Last(Front(stack)), Last(stack))
  BY <1>1, StackPop DEF TypeInv
<1>3. CASE NumberExpr
  <2> DEFINE n == NewNode("Number", real_num_value, <<>>, Len(toks), Len(toks))
  <2>1. n \in Node(NodeIds) /\ n.kind # "Binary"
    BY EmptySeq, LenProperties DEF NewNode, Node, TypeInv, TypeOK
  <2>2. /\ nodes' = Append(nodes, n) /\ ret' = Len(nodes) + 1 /\ pc' = "Return" /\ stack' = stack
        /\ ParsePrimary
    BY <1>3 DEF NumberExpr, ReturnNew, ParsePrimary
  <2> HIDE DEF n
  <2> QED
    BY <1>1, <2>1, <2>2, NewOperand DEF Top
<1>4. CASE IdentifierVariable
  <2> DEFINE n == NewNode("Variable", Top.val, <<>>, Top.first, Top.first)
  <2>1. n \in Node(NodeIds) /\ n.kind # "Binary"
    BY <1>1, EmptySeq DEF NewNode, Node, Frame, Top
  <2>2. /\ nodes' = Append(nodes, n) /\ ret' = Len(nodes) + 1 /\ pc' = "Return"
        /\ stack' = Front(stack) /\ ParseIdentifierExpr
    BY <1>4 DEF IdentifierVariable, ReturnNew, Pop, ParseIdentifierExpr
  <2> HIDE DEF n
  <2>3. stack' # <<>> => Last(stack').fn \in {"Expression", "RHS"}
    BY <1>1, <1>2, <2>2 DEF Calls, Top
  <2> QED
    BY <1>1, <2>1, <2>2, <2>3, NewOperand
<1>5. ASSUME NEW args \in Seq(NodeIds), CloseCall(args), ParseIdentifierExpr
      PROVE  PrecedenceInv'
  <2> DEFINE n == NewNode("Call", Top.val, args, Top.first, Len(toks))
  <2>1. n \in Node(NodeIds) /\ n.kind # "Binary"
    BY <1>1, LenProperties DEF NewNode, Node, Frame, Top, TypeInv, TypeOK
  <2>2. /\ nodes' = Append(nodes, n) /\ ret' = Len(nodes) + 1 /\ pc' = "Return"
        /\ stack' = Front(stack)
    BY <1>5 DEF CloseCall, ReturnNew, Pop
  <2> HIDE DEF n
  <2>3. stack' # <<>> => Last(stack').fn \in {"Expression", "RHS"}
    BY <1>1, <1>2, <1>5, <2>2 DEF Calls, Top
  <2> QED
    BY <1>1, <2>1, <2>2, <2>3, NewOperand
<1>6. CASE CallNoArgs
  BY <1>5, <1>6, EmptySeq DEF CallNoArgs, ParseIdentifierExpr
<1>7. CASE CallArg
  <2>1. ret \in NodeIds /\ Top.kids \in Seq(NodeIds)
    <3>1. ret \in 0 .. Len(nodes) /\ ret # 0 /\ Len(nodes) \in Nat
      BY <1>7, LenProperties DEF CallArg, Returning, TypeInv, TypeOK
    <3>2. ret \in NodeIds
      BY <3>1 DEF NodeIds
    <3> QED
      BY <1>1, <3>2 DEF Frame, Top
  <2>2. Append(Top.kids, ret) \in Seq(NodeIds)
    BY <2>1, AppendLast
  <2>3. CASE CurTok = ")"
    BY <1>5, <1>7, <2>2, <2>3 DEF CallArg, ParseIdentifierExpr
  <2>4. CASE CurTok = ","
    <3> DEFINE f == [Top EXCEPT !.kids = Append(@, ret)]
               g == NewFrame("Expression")
    <3>1. stack' = Append(Append(Front(stack), f), g) /\ pc' = "Primary" /\ nodes' = nodes
      BY <1>7, <2>4 DEF CallArg, ReplaceAndPush
    <3>2. /\ f \in Frame(NodeIds) /\ f.fn = "Call" /\ f.prec = Top.prec
          /\ g \in Frame(NodeIds) /\ g.fn = "Expression"
      BY <1>1, <1>7, <2>2, NewFrameType DEF Frame, Top, CallArg, Returning
    <3> HIDE DEF f, g
    <3>3. /\ Shape(f) /\ (Bottom(Last(stack)) => Bottom(f))
          /\ \A h \in Frame(NodeIds) : Calls(h, Last(stack)) => Calls(h, f)
      BY <1>1, <1>7, <3>2 DEF Shape, Calls, Climbing, Top, Bottom, ParseIdentifierExpr
    <3>4. StackOK(Append(Front(stack), f), NodeIds)
      BY <1>1, <3>2, <3>3, StackReplace DEF TypeInv
    <3>5. FromStack(Front(stack), {})
      BY <1>1, FromStackSame DEF TypeInv
    <3>6. FromStack(Append(Front(stack), f), {} \cup {f})
      BY <1>2, <3>2, <3>5, FromStackAppend
    <3>7. FromStack(stack', ({} \cup {f}) \cup {g})
      BY <3>1, <3>2, <3>4, <3>6, FromStackAppend
    <3> QED
      BY <3>1, <3>2, <3>7, QuietStep DEF LoopBinds, ReturnBinds
  <2>5. CASE CurTok \notin {")", ","}
    BY <1>7, <2>5, QuietSteps DEF CallArg, Error
  <2> QED
    BY <2>3, <2>4, <2>5
<1> QED
  BY <1>3, <1>4, <1>6, <1>7, QuietSteps DEF ParsePrimary, ParseIdentifierExpr

LEMMA ParenCloseBinds ==
  ASSUME TypeInv, TypeInv', PrecedenceInv, ParenClose
  PROVE  PrecedenceInv'
<1>1. /\ stack # <<>> /\ err = "none" /\ pc = "Return" /\ Top.fn = "Paren"
      /\ ret \in 0 .. Len(nodes) /\ ret # 0 /\ Len(nodes) \in Nat
  BY LenProperties DEF ParenClose, Returning, TypeInv, TypeOK
<1>2. ret \in NodeIds
  BY <1>1 DEF NodeIds
<1>3. CASE CurTok = ")"
  <2> DEFINE n == [nodes[ret] EXCEPT !.paren = @ + 1]
  <2>1. nodes' = [nodes EXCEPT ![ret] = n] /\ stack' = Front(stack) /\ UNCHANGED <<pc, ret, err>>
    BY <1>3 DEF ParenClose, Pop
  <2>2. nodes \in Seq(Node(NodeIds)) /\ nodes[ret] \in Node(NodeIds)
    BY <1>2, ElementOfSeq DEF TypeInv, TypeOK, NodeIds
  <2>3. /\ n \in Node(NodeIds) /\ n.kind = nodes[ret].kind /\ n.kids = nodes[ret].kids
        /\ n.val = nodes[ret].val /\ n.paren # 0
    <3>1. ASSUME NEW e \in Node(NodeIds)
          PROVE  /\ [e EXCEPT !.paren = @ + 1] \in Node(NodeIds)
                 /\ [e EXCEPT !.paren = @ + 1].kind = e.kind
                 /\ [e EXCEPT !.paren = @ + 1].kids = e.kids
                 /\ [e EXCEPT !.paren = @ + 1].val = e.val
                 /\ [e EXCEPT !.paren = @ + 1].paren # 0
      BY DEF Node
    <3> QED
      BY <2>2, <3>1
  <2> HIDE DEF n
  <2>4. /\ Len(nodes') = Len(nodes)
        /\ \A i \in 1 .. Len(nodes) : nodes'[i] = IF i = ret THEN n ELSE nodes[i]
    BY <1>2, <2>1, <2>2, <2>3, ExceptSeq DEF NodeIds
  <2>5. NodeIds' = NodeIds
    BY <2>4 DEF NodeIds
  <2>6. \A i \in NodeIds : TopPrec(i)' = IF i = ret THEN Tightest ELSE TopPrec(i)
    BY <2>3, <2>4 DEF NodeIds, TopPrec
  <2>7. \A i \in NodeIds : TopPrec(i)' >= TopPrec(i)
    BY <2>6, TopPrecRange DEF Tightest
  <2>8. Keeps
    BY <2>3, <2>4, <2>5, <2>7 DEF Keeps, NodeIds
  <2>9. PrecedenceRespected'
    BY <2>5, <2>8, RespectedKept DEF PrecedenceInv
  <2>10. FromStack(stack', {})
    BY <1>1, <2>1, FromStackSame DEF TypeInv
  <2>11. FramesBind'
    BY <2>8, <2>10, FramesKept DEF PrecedenceInv
  <2>12. stack' # <<>> => Calls(Last(stack'), Last(stack))
    BY <1>1, <2>1, StackPop DEF TypeInv
  <2>13. TopPrec(ret)' = Tightest
    <3>1. ret' = ret
      BY <2>1
    <3> QED
      BY <1>2, <2>3, <2>4, <3>1 DEF TopPrec, NodeIds
  <2>14. LoopBinds' /\ ReturnBinds'
    BY <1>1, <2>1, <2>12, <2>13 DEF LoopBinds, ReturnBinds, Calls, Top
  <2> QED
    BY <2>9, <2>11, <2>14 DEF PrecedenceInv
<1>4. CASE CurTok # ")"
  BY <1>4, QuietSteps DEF ParenClose, Error
<1> QED
  BY <1>3, <1>4

\* The tree made of LHS and the operand rhs respects precedence and is the new LHS.
LEMMA MergeBinds ==
  ASSUME TypeInv, TypeInv', PrecedenceInv,
         stack # <<>>, Top.fn \in {"RHS", "Merge"},
         NEW rhs \in NodeIds, MergeOperands(rhs),
         TopPrec(rhs) > GetTokPrecedence(Top.val),
         GetTokPrecedence(CurTok) <= GetTokPrecedence(Top.val)
  PROVE  PrecedenceInv'
<1> DEFINE lhs == Top.kids[1]
           op == Top.val
           m == Len(nodes)
           n == NewNode("Binary", op, <<lhs, rhs>>, FirstOf(lhs), LastOf(rhs))
           f == [Top EXCEPT !.fn = "BinOpRHS", !.val = "", !.kids = <<m + 1>>]
<1>1. /\ Last(stack) \in Frame(NodeIds) /\ Shape(Last(stack)) /\ StackOK(Front(stack), NodeIds)
      /\ Len(stack) \in Nat \ {0} /\ Last(stack) = stack[Len(stack)]
  BY StackPop, FrontLast DEF TypeInv, StackOK
<1>2. lhs \in NodeIds
  <2>1. Top.kids \in Seq(NodeIds) /\ Len(Top.kids) = 1
    BY <1>1 DEF Frame, Top, Shape, Climbing
  <2> QED
    BY <2>1, ElementOfSeq
<1>3. nodes[lhs] \in Node(NodeIds) /\ nodes[rhs] \in Node(NodeIds)
  BY <1>2, ElementOfSeq DEF TypeInv, TypeOK, NodeIds
<1>4. n \in Node(NodeIds)
  <2>1. FirstOf(lhs) \in Int /\ LastOf(rhs) \in Int
    BY <1>3 DEF FirstOf, LastOf, Node
  <2>2. op \in Text \cup Kind
    BY <1>1 DEF Frame, Top
  <2>3. <<lhs, rhs>> \in Seq(NodeIds)
    BY <1>2
  <2> QED
    BY <2>1, <2>2, <2>3 DEF NewNode, Node
<1>5. n.kind = "Binary" /\ n.val = op /\ n.paren = 0 /\ n.kids[1] = lhs /\ n.kids[2] = rhs
  BY DEF NewNode
<1>6. /\ nodes' = Append(nodes, n) /\ stack' = Append(Front(stack), f) /\ pc' = "Loop"
      /\ UNCHANGED toks
  BY DEF MergeOperands, Replace, lexVars
<1>7. f.fn = "BinOpRHS" /\ f.prec = Top.prec /\ f.kids[1] = m + 1
  BY <1>1 DEF Frame, Top
<1>8. FrameBinds(Last(stack))
  BY <1>1 DEF PrecedenceInv, FramesBind
<1>9. Top.prec <= GetTokPrecedence(op) /\ TopPrec(lhs) >= GetTokPrecedence(op)
  BY <1>8 DEF FrameBinds, Top
<1> HIDE DEF n
<1>10. /\ Keeps /\ NodeIds' = 1 .. m + 1 /\ m \in Nat /\ nodes'[m + 1] = n
       /\ \A i \in NodeIds : TopPrec(i)' = TopPrec(i)
  BY <1>4, <1>6, KeepsAppend
<1>11. \A i \in NodeIds' \ NodeIds :
          /\ nodes'[i] = n
          /\ TopPrec(nodes[i].kids[1])' = TopPrec(lhs)
          /\ TopPrec(nodes[i].kids[2])' = TopPrec(rhs)
  <2> SUFFICES ASSUME NEW i \in NodeIds' \ NodeIds
               PROVE  /\ nodes'[i] = n
                      /\ TopPrec(nodes[i].kids[1])' = TopPrec(lhs)
                      /\ TopPrec(nodes[i].kids[2])' = TopPrec(rhs)
    OBVIOUS
  <2>1. nodes'[i] = n
    BY <1>10 DEF NodeIds
  <2>2. nodes'[lhs] = nodes[lhs] /\ nodes'[rhs] = nodes[rhs]
    BY <1>2, <1>4, <1>6, AppendLast DEF NodeIds, TypeInv, TypeOK
  <2> QED
    BY <1>5, <2>1, <2>2 DEF TopPrec
<1>12. PrecedenceRespected'
  BY <1>5, <1>9, <1>10, <1>11, RespectedKept DEF PrecedenceInv
<1>13. TypeInv' /\ Last(stack') = f /\ f \in Frame(NodeIds')
  <2>1. <<m + 1>> \in Seq(NodeIds')
    BY <1>10
  <2>2. Top.prec \in Nat /\ Top.first \in Nat /\ "" \in Text
    BY <1>1 DEF Frame, Top, Text
  <2>3. f \in Frame(NodeIds')
    BY <1>1, <2>1, <2>2 DEF Frame, Top
  <2>4. Front(stack) \in Seq(Frame(NodeIds'))
    <3>1. m \in Nat /\ m + 1 \in Nat /\ m <= m + 1
      BY <1>10
    <3>2. StackOK(Front(stack), 1 .. m + 1)
      BY <1>1, <3>1, StackGrows DEF NodeIds
    <3> QED
      BY <1>10, <3>2 DEF StackOK
  <2> HIDE DEF f
  <2>5. Last(stack') = f
    BY <1>6, <2>3, <2>4, AppendLast
  <2> QED
    BY <2>3, <2>5
<1> HIDE DEF f
<1>14. FramesBind'
  <2>1. FromStack(Front(stack), {})
    BY FromStackSame DEF TypeInv
  <2>2. StackOK(Front(stack), NodeIds')
    <3>1. m \in Nat /\ m + 1 \in Nat /\ m <= m + 1
      BY <1>10
    <3> QED
      BY <1>1, <1>10, <3>1, StackGrows DEF NodeIds
  <2>3. FromStack(stack', {} \cup {f})
    BY <1>6, <1>13, <2>1, <2>2, FromStackAppend
  <2> QED
    BY <1>7, <1>10, <2>3, FramesKept DEF PrecedenceInv
<1>15. LoopBinds'
  <2>1. Top'.kids[1] = m + 1 /\ Top'.prec = Top.prec
    BY <1>7, <1>13 DEF Top
  <2>2. TopPrec(Top.kids[1])' = GetTokPrecedence(op)
    BY <1>5, <1>10, <2>1 DEF TopPrec
  <2>3. CurTok' = CurTok
    BY <1>6 DEF CurTok
  <2> QED
    BY <1>9, <2>1, <2>2, <2>3 DEF LoopBinds
<1>16. ReturnBinds'
  BY <1>6 DEF ReturnBinds
<1> QED
  BY <1>12, <1>14, <1>15, <1>16 DEF PrecedenceInv

LEMMA ClimbingBinds ==
  ASSUME TypeInv, TypeInv', PrecedenceInv, ExpressionOperand \/ ParseBinOpRHS
  PROVE  PrecedenceInv'
<1>1. ExpressionOperand \/ BinOpDone \/ BinOpOperator \/ BinOpOperand \/ BinOpMerge
  BY DEF ParseBinOpRHS
<1>2. /\ stack # <<>> /\ err = "none"
      /\ Last(stack) \in Frame(NodeIds) /\ Shape(Last(stack)) /\ StackOK(Front(stack), NodeIds)
      /\ Front(stack) # <<>> => Calls(Last(Front(stack)), Last(stack))
      /\ FromStack(Front(stack), {})
      /\ Len(stack) \in Nat \ {0} /\ Last(stack) = stack[Len(stack)]
      /\ Front(stack) \in Seq(Frame(NodeIds))
  <2>1. stack # <<>> /\ err = "none"
    BY <1>1 DEF ExpressionOperand, BinOpDone, BinOpOperator, BinOpOperand, BinOpMerge,
                Returning, TypeInv, TopOK
  <2> QED
    BY <2>1, StackPop, FromStackSame, FrontLast DEF TypeInv, StackOK
<1>3. pc = "Return" => ret \in NodeIds
  <2>1. Len(nodes) \in Nat /\ ret \in 0 .. Len(nodes)
    BY LenProperties DEF TypeInv, TypeOK
  <2> QED
    BY <1>2, <2>1 DEF TypeInv, TypeOK, NodeIds
<1>4. Top.fn \in {"RHS", "Merge"} =>
        /\ Top.prec <= GetTokPrecedence(Top.val)
        /\ TopPrec(Top.kids[1]) >= GetTokPrecedence(Top.val)
  BY <1>2 DEF PrecedenceInv, FramesBind, FrameBinds, Top
<1>5. CASE ExpressionOperand
  <2> DEFINE f == [NewFrame("BinOpRHS") EXCEPT !.kids = <<ret>>]
  <2>1. /\ stack' = Append(Front(stack), f) /\ pc' = "Loop" /\ Top.fn = "Expression"
        /\ pc = "Return" /\ UNCHANGED toks /\ nodes' = nodes
    BY <1>5 DEF ExpressionOperand, Replace, Returning, lexVars
  <2>2. f \in Frame(NodeIds) /\ f.fn = "BinOpRHS" /\ f.kids[1] = ret /\ f.prec = 0
    BY <1>3, <2>1, BinOpFrame DEF NewFrame
  <2> HIDE DEF f
  <2>3. FromStack(stack', {} \cup {f}) /\ Last(stack') = f
    BY <1>2, <2>1, <2>2, FromStackAppend, AppendLast
  <2>4. TopPrec(ret) = Tightest
    BY <1>2, <2>1 DEF PrecedenceInv, ReturnBinds
  <2>5. LoopBinds'
    <3>1. TopPrec(Top.kids[1])' = Tightest /\ Top'.prec = 0 /\ CurTok' = CurTok
      BY <2>1, <2>2, <2>3, <2>4 DEF TopPrec, Top, CurTok
    <3>2. Tightest >= 0 /\ Tightest >= GetTokPrecedence(CurTok)
      BY PrecedenceRange DEF Tightest
    <3> QED
      BY <3>1, <3>2 DEF LoopBinds
  <2> QED
    BY <2>1, <2>2, <2>3, <2>5, QuietStep DEF ReturnBinds
<1>6. CASE BinOpDone
  <2> DEFINE lhs == Top.kids[1]
  <2>1. /\ stack' = Front(stack) /\ pc' = "Return" /\ ret' = lhs /\ Top.fn = "BinOpRHS"
        /\ pc = "Loop" /\ UNCHANGED toks /\ nodes' = nodes
        /\ GetTokPrecedence(CurTok) < Top.prec
    BY <1>6 DEF BinOpDone, Pop, lexVars, TypeInv, TopOK
  <2>2. TopPrec(lhs) >= Top.prec
    BY <2>1 DEF PrecedenceInv, LoopBinds
  <2>3. TopPrec(ret)' = TopPrec(lhs) /\ CurTok' = CurTok
    BY <2>1 DEF TopPrec, CurTok
  <2>4. ASSUME stack' # <<>>
        PROVE  /\ Top'.fn \notin {"Expression", "RHS"}
               /\ Top'.fn = "Merge" => Top.prec = GetTokPrecedence(Top'.val) + 1
    BY <1>2, <2>1, <2>4 DEF Calls, Climbing, Top, RecursionPrec
  <2>5. ASSUME stack' # <<>>, Top'.fn = "Merge"
        PROVE  /\ TopPrec(lhs) > GetTokPrecedence(Top'.val)
               /\ GetTokPrecedence(CurTok) <= GetTokPrecedence(Top'.val)
    <3>1. Top.prec = GetTokPrecedence(Top'.val) + 1
      BY <2>4, <2>5
    <3>2. GetTokPrecedence(Top'.val) \in Int /\ GetTokPrecedence(CurTok) \in Int /\ TopPrec(lhs) \in Int
      BY PrecedenceRange, TopPrecRange
    <3> QED
      BY <2>1, <2>2, <3>1, <3>2
  <2>6. LoopBinds' /\ ReturnBinds'
    BY <2>1, <2>3, <2>4, <2>5 DEF LoopBinds, ReturnBinds, Top
  <2> QED
    BY <1>2, <2>1, <2>6, QuietStep
<1>7. CASE BinOpOperator
  <2> DEFINE f == [Top EXCEPT !.fn = "RHS", !.val = CurTok]
  <2>1. /\ stack' = Append(Front(stack), f) /\ pc' = "Primary" /\ pc = "Loop" /\ nodes' = nodes
        /\ GetTokPrecedence(CurTok) >= Top.prec
    BY <1>7 DEF BinOpOperator, Replace
  <2>2. f \in Frame(NodeIds) /\ f.val = CurTok /\ f.prec = Top.prec /\ f.kids = Top.kids
    <3>1. Last(toks) \in Token
      BY <2>1, FrontLast DEF TypeInv, TypeOK
    <3>2. CurTok \in Kind
      BY <3>1 DEF Token, CurTok
    <3> QED
      BY <1>2, <3>2 DEF Frame, Top
  <2> HIDE DEF f
  <2>3. FromStack(stack', {} \cup {f})
    BY <1>2, <2>1, <2>2, FromStackAppend
  <2>4. f.prec <= GetTokPrecedence(f.val) /\ TopPrec(f.kids[1]) >= GetTokPrecedence(f.val)
    <3>1. Top.prec \in Int /\ GetTokPrecedence(CurTok) \in Int
      BY <1>2, PrecedenceRange DEF Frame, Top
    <3> QED
      BY <2>1, <2>2, <3>1 DEF PrecedenceInv, LoopBinds
  <2>5. Keeps /\ NodeIds' = NodeIds
    BY <2>1, KeepsSame
  <2>6. PrecedenceRespected'
    BY <2>5, RespectedKept DEF PrecedenceInv
  <2>7. FramesBind'
    BY <2>1, <2>3, <2>4, <2>5, FramesKept DEF PrecedenceInv
  <2>8. LoopBinds' /\ ReturnBinds'
    BY <2>1 DEF LoopBinds, ReturnBinds
  <2> QED
    BY <2>6, <2>7, <2>8 DEF PrecedenceInv
<1>8. CASE BinOpOperand
  <2>1. Top.fn = "RHS" /\ pc = "Return" /\ TopPrec(ret) = Tightest
    BY <1>2, <1>8 DEF BinOpOperand, Returning, PrecedenceInv, ReturnBinds
  <2>2. CASE NextBindsTighter(Top.val)
    <3> DEFINE f == [Top EXCEPT !.fn = "Merge"]
               k == RecursionPrec(Top.val)
               g == [NewFrame("BinOpRHS") EXCEPT !.prec = k, !.kids = <<ret>>]
               s == Append(Front(stack), f)
    <3>1. stack' = Append(s, g) /\ pc' = "Loop" /\ UNCHANGED toks /\ nodes' = nodes
      BY <1>8, <2>2 DEF BinOpOperand, ReplaceAndPush, lexVars
    <3>2. k \in Nat /\ k <= Tightest
      BY PrecedenceRange DEF RecursionPrec, Tightest
    <3>3. g \in Frame(NodeIds) /\ g.fn = "BinOpRHS" /\ g.prec = k /\ g.kids[1] = ret
      <4> HIDE DEF k
      <4>1. g \in Frame(NodeIds)
        BY <1>3, <2>1, <3>2, BinOpFrame
      <4> QED
        BY <4>1 DEF NewFrame
    <3>4. f \in Frame(NodeIds) /\ f.prec = Top.prec /\ f.kids = Top.kids
          /\ f.val = Top.val /\ f.fn = "Merge"
      BY <1>2 DEF Frame, Top
    <3> HIDE DEF f, g, k
    <3>5. StackOK(s, NodeIds)
      <4>1. /\ Shape(f) /\ (Bottom(Last(stack)) => Bottom(f))
            /\ \A h \in Frame(NodeIds) : Calls(h, Last(stack)) => Calls(h, f)
        BY <1>2, <2>1, <3>4 DEF Shape, Bottom, Calls, Climbing, Top
      <4> QED
        BY <1>2, <3>4, <4>1, StackReplace DEF TypeInv
    <3>6. FromStack(s, {} \cup {f}) /\ s \in Seq(Frame(NodeIds))
      BY <1>2, <3>4, <3>5, FromStackAppend DEF StackOK
    <3> HIDE DEF s
    <3>7. FromStack(stack', ({} \cup {f}) \cup {g}) /\ Last(stack') = g
      BY <3>1, <3>3, <3>5, <3>6, FromStackAppend, AppendLast
    <3>8. Keeps /\ NodeIds' = NodeIds
      BY <3>1, KeepsSame
    <3>9. PrecedenceRespected'
      BY <3>8, RespectedKept DEF PrecedenceInv
    <3>10. FramesBind'
      BY <1>4, <2>1, <3>1, <3>3, <3>4, <3>7, <3>8, FramesKept DEF PrecedenceInv
    <3>11. LoopBinds'
      <4>1. TopPrec(Top.kids[1])' = Tightest /\ Top'.prec = k /\ CurTok' = CurTok
        BY <2>1, <3>1, <3>3, <3>7 DEF TopPrec, Top, CurTok
      <4>2. Tightest >= k /\ Tightest >= GetTokPrecedence(CurTok)
        BY <3>2, PrecedenceRange DEF Tightest
      <4> QED
        BY <4>1, <4>2 DEF LoopBinds
    <3>12. ReturnBinds'
      BY <3>1 DEF ReturnBinds
    <3> QED
      BY <3>9, <3>10, <3>11, <3>12 DEF PrecedenceInv
  <2>3. CASE ~NextBindsTighter(Top.val)
    <3>1. MergeOperands(ret)
      BY <1>8, <2>3 DEF BinOpOperand
    <3>2. TopPrec(ret) > GetTokPrecedence(Top.val) /\ GetTokPrecedence(CurTok) <= GetTokPrecedence(Top.val)
      BY <2>1, <2>3, PrecedenceRange DEF NextBindsTighter, Tightest
    <3> QED
      BY <1>2, <1>3, <2>1, <3>1, <3>2, MergeBinds
  <2> QED
    BY <2>2, <2>3
<1>9. CASE BinOpMerge
  <2>1. Top.fn = "Merge" /\ pc = "Return" /\ MergeOperands(ret)
    BY <1>9 DEF BinOpMerge, Returning
  <2>2. TopPrec(ret) > GetTokPrecedence(Top.val) /\ GetTokPrecedence(CurTok) <= GetTokPrecedence(Top.val)
    BY <1>2, <2>1 DEF PrecedenceInv, ReturnBinds
  <2> QED
    BY <1>2, <1>3, <2>1, <2>2, MergeBinds
<1> QED
  BY <1>1, <1>5, <1>6, <1>7, <1>8, <1>9

LEMMA PrecedenceInvInit ==
  ASSUME Init
  PROVE  PrecedenceInv
<1>1. <<>> \in Seq({}) /\ Len(<<>>) = 0
  BY EmptySeq
<1>2. nodes = <<>> /\ Len(stack) = 0 /\ pc = "Construct"
  BY <1>1 DEF Init
<1>3. DOMAIN nodes = 1 .. 0
  BY <1>1, <1>2, LenProperties
<1> QED
  BY <1>2, <1>3 DEF PrecedenceInv, PrecedenceRespected, FramesBind, LoopBinds, ReturnBinds

LEMMA PrecedenceInvStep ==
  ASSUME TypeInv, PrecedenceInv, [Next]_vars
  PROVE  PrecedenceInv'
<1>1. TypeInv'
  BY TypeInvStep
<1>2. CASE Construct \/ ParseModule \/ ModuleError \/ ParsePrototype \/ DefinitionDone \/ Propagate
  BY <1>1, <1>2, QuietSteps
<1>3. CASE ParsePrimary \/ ParseIdentifierExpr
  BY <1>1, <1>3, OperandSteps
<1>4. CASE ExpressionOperand \/ ParseBinOpRHS
  BY <1>1, <1>4, ClimbingBinds
<1>5. CASE ParenClose
  BY <1>1, <1>5, ParenCloseBinds
<1>6. CASE UNCHANGED vars
  BY <1>6 DEF vars, lexVars, PrecedenceInv, PrecedenceRespected, FramesBind, FrameBinds, LoopBinds,
              ReturnBinds, TopPrec, Top, CurTok
<1> QED
  BY <1>2, <1>3, <1>4, <1>5, <1>6 DEF Next, Terminated

(***************************************************************************)
(* Precedence and associativity, for every source: an unparenthesised      *)
(* operand binds at least as tightly as its operator on the left and more  *)
(* tightly on the right.                                                   *)
(***************************************************************************)
THEOREM PrecedenceCorrect == Spec => []PrecedenceRespected
<1>1. Init => TypeInv /\ PrecedenceInv
  BY TypeInvInit, PrecedenceInvInit
<1>2. TypeInv /\ PrecedenceInv /\ [Next]_vars => (TypeInv /\ PrecedenceInv)'
  BY TypeInvStep, PrecedenceInvStep
<1>3. PrecedenceInv => PrecedenceRespected
  BY DEF PrecedenceInv
<1> QED
  BY <1>1, <1>2, <1>3, PTL DEF Spec

-----------------------------------------------------------------------------
(***************************************************************************)
(* The end of the source.  Every GetTok is guarded by what the current     *)
(* token is; the only guard that does not name it is that of the operator  *)
(* loop, where the precedence table has to answer -1 for the end of file.  *)
(***************************************************************************)
LEMMA EofIsNoOperator == GetTokPrecedence("eof") = -1
<1>1. TokCode("eof") + binop_array_offset = 119
  BY DEF TokCode, binop_array_offset
<1>2. init_binop_precedence[119] = 0
  BY DEF init_binop_precedence, TokCode, binop_array_offset, binop_array_size
<1> QED
  BY <1>1, <1>2 DEF GetTokPrecedence

LEMMA ReadOneToken ==
  ASSUME TypeInv, NeverReadsPastEof, GetTok, toks # <<>> => CurTok # "eof"
  PROVE  NeverReadsPastEof'
<1>1. PICK t : toks' = Append(toks, t)
  BY DEF GetTok
<1>2. toks \in Seq(Token) /\ toks' \in Seq(Token) /\ Len(toks) \in Nat /\ Len(toks') = Len(toks) + 1
  BY TokensDelivered, LenProperties DEF TypeInv, TypeOK
<1>3. ASSUME NEW i \in 1 .. Len(toks)
      PROVE  toks'[i].kind # "eof"
  <2>1. toks'[i] = toks[i]
    BY <1>1, <1>2
  <2>2. CASE i = Len(toks)
    <3>1. toks # <<>> /\ CurTok = toks[i].kind
      BY <1>2, <2>2, EmptySeq DEF CurTok, Last
    <3> QED
      BY <2>1, <3>1
  <2>3. CASE i \in 1 .. Len(toks) - 1
    BY <2>1, <2>3 DEF NeverReadsPastEof
  <2> QED
    BY <1>2, <2>2, <2>3
<1> QED
  BY <1>2, <1>3 DEF NeverReadsPastEof

\* The constructor reads the first token, and runs once.
ConstructIsFirst == pc = "Construct" => toks = <<>>

EofInv == TypeInv /\ ConstructIsFirst /\ NeverReadsPastEof

LEMMA ConstructOnce ==
  ASSUME ConstructIsFirst, [Next]_vars
  PROVE  ConstructIsFirst'
<1>1. CASE \/ Construct \/ ParseModule \/ ParsePrototype \/ ParsePrimary \/ ParenClose
           \/ DefinitionDone \/ Propagate \/ ModuleError
  <2>1. pc' # "Construct"
    BY <1>1 DEF Construct, ParseModule, ModuleEnd, ModuleLineBreak, ModuleDefinition,
                ModuleUnexpected, ParsePrototype, PrototypeArg, PrototypeDelimiter, PrototypeType,
                PrototypeArrow, CallExpression, ParsePrimary, PrimaryUnknown, NumberExpr,
                ParenExpr, IdentifierExpr, ParenClose, Returning, ReturnNew, Fail,
                DefinitionDone, Propagate, ModuleError
  <2> QED
    BY <2>1 DEF ConstructIsFirst
<1>2. CASE ParseIdentifierExpr \/ ParseBinOpRHS \/ ExpressionOperand
  <2>1. pc' # "Construct"
    BY <1>2 DEF ParseIdentifierExpr, IdentifierVariable, IdentifierCall, CallFirstArg, CallNoArgs,
                CallArg, CloseCall, CallExpression, ReturnNew, Fail, ParseBinOpRHS, BinOpDone,
                BinOpOperator, BinOpOperand, BinOpMerge, MergeOperands, ExpressionOperand
  <2> QED
    BY <2>1 DEF ConstructIsFirst
<1>3. CASE UNCHANGED vars
  BY <1>3 DEF vars, lexVars, ConstructIsFirst
<1> QED
  BY <1>1, <1>2, <1>3 DEF Next, Terminated

LEMMA ReadsGuarded ==
  ASSUME TypeInv, ConstructIsFirst, [Next]_vars
  PROVE  UNCHANGED toks \/ (GetTok /\ (toks # <<>> => CurTok # "eof"))
<1>1. CASE Construct
  BY <1>1 DEF Construct, ConstructIsFirst
<1>2. CASE ParseModule \/ ParsePrototype \/ ParsePrimary \/ ParenClose
  BY <1>2 DEF ParseModule, ModuleEnd, ModuleLineBreak, ModuleDefinition, ModuleUnexpected,
              ParsePrototype, PrototypeArg, PrototypeDelimiter, PrototypeType, PrototypeArrow,
              ParsePrimary, PrimaryUnknown, NumberExpr, ParenExpr, IdentifierExpr, ParenClose,
              Fail, lexVars
<1>3. CASE ParseIdentifierExpr
  BY <1>3 DEF ParseIdentifierExpr, IdentifierVariable, IdentifierCall, CallFirstArg, CallNoArgs,
              CallArg, CloseCall, Fail, lexVars
<1>4. CASE BinOpOperator
  <2>1. Top.prec \in Nat
    BY <1>4, StackPop DEF BinOpOperator, TypeInv, TopOK, Top, Frame
  <2>2. CurTok # "eof"
    BY <1>4, <2>1, EofIsNoOperator DEF BinOpOperator
  <2> QED
    BY <1>4, <2>2 DEF BinOpOperator
<1>5. CASE BinOpDone \/ BinOpOperand \/ BinOpMerge \/ ExpressionOperand
  BY <1>5 DEF BinOpDone, BinOpOperand, BinOpMerge, ExpressionOperand, MergeOperands, lexVars
<1>6. CASE DefinitionDone \/ Propagate \/ ModuleError \/ UNCHANGED vars
  BY <1>6 DEF DefinitionDone, Propagate, ModuleError, vars, lexVars
<1> QED
  BY <1>1, <1>2, <1>3, <1>4, <1>5, <1>6 DEF Next, ParseBinOpRHS, Terminated

(***************************************************************************)
(* No parse, of any source, asks the lexer for a token after it has got    *)
(* the end of file.                                                        *)
(***************************************************************************)
THEOREM EofIsLast == Spec => []NeverReadsPastEof
<1>1. Init => EofInv
  <2> USE DEF EofInv
  <2>1. Len(<<>>) = 0
    BY EmptySeq
  <2>2. Init => Len(toks) = 0 /\ ConstructIsFirst
    BY <2>1 DEF Init, ConstructIsFirst
  <2> QED
    BY <2>2, TypeInvInit DEF NeverReadsPastEof
<1>2. EofInv /\ [Next]_vars => EofInv'
  <2> SUFFICES ASSUME EofInv, [Next]_vars
               PROVE  EofInv'
    OBVIOUS
  <2> USE DEF EofInv
  <2>1. TypeInv' /\ ConstructIsFirst'
    BY TypeInvStep, ConstructOnce
  <2>2. CASE UNCHANGED toks
    BY <2>1, <2>2 DEF NeverReadsPastEof
  <2>3. CASE GetTok /\ (toks # <<>> => CurTok # "eof")
    BY <2>1, <2>3, ReadOneToken
  <2> QED
    BY <2>2, <2>3, ReadsGuarded
<1>3. EofInv => NeverReadsPastEof
  BY DEF EofInv
<1> QED
  BY <1>1, <1>2, <1>3, PTL DEF Spec
-----------------------------------------------------------------------------
(***************************************************************************)
(* What the AST is made of.  The frames, nodes and definitions hold the    *)
(* names and operators that the tokens had, and a node's kids were made    *)
(* before it.                                                              *)
(***************************************************************************)
Operators == {"<", ">", "grtr_eq", "lssr_eq", "+", "-", "*", "/"}

FrameSound(f) ==
  /\ f.fn \in {"RHS", "Merge"} => f.val \in Operators
  /\ f.fn = "Call" => f.val \in Idents

NodeSound(e, n) ==
  /\ e.kids \in Seq(1 .. n - 1)
  /\ e.kind \in {"Number", "Variable"} => e.kids = <<>>
  /\ e.kind = "Binary" => e.val \in Operators
  /\ e.kind \in {"Variable", "Call"} => e.val \in Idents

ProtoSound(p) == p.Name \in Idents /\ p.Args \in Seq(Idents)

FramesSound == \A i \in 1 .. Len(stack) : FrameSound(stack[i])
NodesSound == \A n \in NodeIds : NodeSound(nodes[n], n)
TokenSound == toks # <<>> /\ CurTok = "identifier" => identifier_str \in Idents
ProtosSound ==
  /\ pc \notin {"Construct", "Module", "Done"} /\ err = "none" => ProtoSound(proto)
  /\ \A i \in 1 .. Len(lines) : ProtoSound(lines[i].Proto)

ASTSound == FramesSound /\ NodesSound /\ TokenSound /\ ProtosSound

\* Only the declared operators have a precedence.
LEMMA OperatorTokens ==
  ASSUME NEW k, GetTokPrecedence(k) >= 0
  PROVE  k \in Operators
<1> SUFFICES ASSUME k \notin Operators PROVE FALSE
  OBVIOUS
<1> DEFINE i == TokCode(k) + binop_array_offset
           declared == {180, 182, 107, 106, 163, 165, 162, 167}
<1>0. /\ k # "<" /\ k # ">" /\ k # "grtr_eq" /\ k # "lssr_eq"
      /\ k # "+" /\ k # "-" /\ k # "*" /\ k # "/"
  BY DEF Operators
<1>1. /\ TokCode(k) \in Int /\ TokCode(k) <= 255
      /\ TokCode(k) # 60 /\ TokCode(k) # 62 /\ TokCode(k) # -13 /\ TokCode(k) # -14
      /\ TokCode(k) # 43 /\ TokCode(k) # 45 /\ TokCode(k) # 42 /\ TokCode(k) # 47
  BY <1>0 DEF TokCode
<1>2. i \in Int /\ i < binop_array_size /\ i \notin declared
  BY <1>1 DEF binop_array_offset, binop_array_size
<1> DEFINE at(x) == TokCode(x) + binop_array_offset
<1>3. /\ at("<") = 180 /\ at(">") = 182 /\ at("grtr_eq") = 107 /\ at("lssr_eq") = 106
      /\ at("+") = 163 /\ at("-") = 165 /\ at("*") = 162 /\ at("/") = 167
  BY DEF TokCode, binop_array_offset
<1>4. \A j \in 0 .. binop_array_size - 1 : j \notin declared => init_binop_precedence[j] = 0
  <2> HIDE DEF at
  <2> QED
    BY <1>3 DEF at, init_binop_precedence
<1>5. i >= 0 => init_binop_precedence[i] = 0
  BY <1>2, <1>4 DEF binop_array_size
<1>6. GetTokPrecedence(k) = IF i < 0 \/ init_binop_precedence[i] <= 0 THEN -1 ELSE init_binop_precedence[i]
  BY DEF GetTokPrecedence
<1> HIDE DEF i
<1>7. i < 0 \/ init_binop_precedence[i] <= 0
  BY <1>2, <1>5
<1> QED
  BY <1>6, <1>7
\* A frame more on the stack, whatever it is
LEMMA OneFrameMore ==
  ASSUME NEW S, NEW t \in Seq(S), NEW new, FromStack(t, new), NEW f
  PROVE  FromStack(Append(t, f), new \cup {f}) /\ Append(t, f) \in Seq(S \cup {f})
<1>1. t \in Seq(S \cup {f}) /\ f \in S \cup {f}
  BY SeqMonotonic
<1>2. /\ Len(t) \in Nat /\ Len(Append(t, f)) = Len(t) + 1
      /\ Append(t, f) \in Seq(S \cup {f})
      /\ \A i \in 1 .. Len(t) : Append(t, f)[i] = t[i]
      /\ Append(t, f)[Len(t) + 1] = f
  BY <1>1, AppendLast, LenProperties
<1>3. ASSUME NEW i \in 1 .. Len(Append(t, f))
      PROVE  \/ Append(t, f)[i] \in new \cup {f}
             \/ i \in 1 .. Len(stack) /\ Append(t, f)[i] = stack[i]
  <2>1. i \in 1 .. Len(t) \/ i = Len(t) + 1
    BY <1>2
  <2> QED
    BY <1>2, <2>1 DEF FromStack
<1> QED
  BY <1>2, <1>3 DEF FromStack

LEMMA FramesStaySound ==
  ASSUME FramesSound, NEW new, FromStack(stack', new), \A f \in new : FrameSound(f)
  PROVE  FramesSound'
<1>1. ASSUME NEW i \in 1 .. Len(stack') PROVE FrameSound(stack'[i])
  <2>1. stack'[i] \in new \/ (i \in 1 .. Len(stack) /\ stack'[i] = stack[i])
    BY DEF FromStack
  <2> QED
    BY <2>1 DEF FramesSound
<1> QED
  BY <1>1 DEF FramesSound

LEMMA FramesSoundStep ==
  ASSUME TypeInv, ASTSound, [Next]_vars
  PROVE  FramesSound'
<1> DEFINE F == Frame(NodeIds)
<1>0. /\ stack \in Seq(F) /\ FromStack(stack, {}) /\ FramesSound
      /\ stack # <<>> => /\ Last(stack) \in F /\ Front(stack) \in Seq(F)
                         /\ FromStack(Front(stack), {}) /\ FrameSound(Top)
  <2>1. StackOK(stack, NodeIds) /\ stack \in Seq(F)
    BY DEF TypeInv, StackOK
  <2>2. stack # <<>> => /\ Last(stack) \in F /\ Front(stack) \in Seq(F)
                        /\ Last(stack) = stack[Len(stack)] /\ Len(stack) \in 1 .. Len(stack)
    <3>1. stack # <<>> => /\ Last(stack) \in F /\ Front(stack) \in Seq(F)
                          /\ Last(stack) = stack[Len(stack)] /\ Len(stack) \in Nat \ {0}
      BY <2>1, FrontLast
    <3> QED
      BY <3>1
  <2> QED
    BY <2>1, <2>2, FromStackSame DEF ASTSound, FramesSound, Top
<1>f. \A fn \in {"Expression", "BinOpRHS", "RHS", "Merge", "Paren", "Call"} : NewFrame(fn).fn = fn
  BY DEF NewFrame
<1> HIDE DEF F
<1>q. ASSUME stack' = stack PROVE FramesSound'
  BY <1>0, <1>q DEF FramesSound
<1>o. ASSUME stack # <<>>, stack' = Front(stack) PROVE FramesSound'
  <2>1. FromStack(stack', {})
    BY <1>0, <1>o
  <2> QED
    BY <1>0, <2>1, FramesStaySound
<1>a. ASSUME NEW f, FrameSound(f), stack' = Append(stack, f) PROVE FramesSound'
  <2>1. FromStack(stack', {} \cup {f})
    BY <1>0, <1>a, OneFrameMore
  <2> QED
    BY <1>0, <1>a, <2>1, FramesStaySound
<1>r. ASSUME NEW f, FrameSound(f), stack # <<>>, stack' = Append(Front(stack), f) PROVE FramesSound'
  <2>1. FromStack(stack', {} \cup {f})
    BY <1>0, <1>r, OneFrameMore
  <2> QED
    BY <1>0, <1>r, <2>1, FramesStaySound
<1>b. ASSUME NEW f, NEW g, FrameSound(f), FrameSound(g),
             NEW s, s = stack \/ (stack # <<>> /\ s = Front(stack)), stack' = Append(Append(s, f), g)
      PROVE  FramesSound'
  <2>1. FromStack(s, {}) /\ s \in Seq(F)
    BY <1>0, <1>b
  <2>2. FromStack(Append(s, f), {} \cup {f}) /\ Append(s, f) \in Seq(F \cup {f})
    BY <2>1, OneFrameMore
  <2>3. FromStack(stack', ({} \cup {f}) \cup {g})
    BY <1>b, <2>2, OneFrameMore
  <2> QED
    BY <1>0, <1>b, <2>3, FramesStaySound
<1>n. \A fn \in {"Expression", "BinOpRHS", "Paren"} : FrameSound(NewFrame(fn))
  BY <1>f DEF FrameSound
<1>1. CASE Construct \/ ParseModule \/ ModuleError \/ DefinitionDone \/ IdentifierCall \/ NumberExpr
           \/ PrimaryUnknown \/ (\E e \in Error : Fail(e)) \/ PrototypeArg \/ PrototypeDelimiter
           \/ PrototypeType \/ UNCHANGED vars
  <2>1. stack' = stack
    BY <1>1 DEF Construct, ParseModule, ModuleEnd, ModuleLineBreak, ModuleDefinition, ModuleUnexpected,
       ModuleError, DefinitionDone, IdentifierCall, NumberExpr, PrimaryUnknown, Fail, PrototypeArg,
       PrototypeDelimiter, PrototypeType, vars, lexVars, defVars
  <2> QED
    BY <1>q, <2>1
<1>2. CASE PrototypeArrow \/ CallFirstArg
  <2>1. stack' = stack \/ stack' = Append(stack, NewFrame("Expression"))
    BY <1>2 DEF PrototypeArrow, CallFirstArg, CallExpression, Push, Fail
  <2> QED
    BY <1>q, <1>a, <1>n, <2>1
<1>3. CASE ParenExpr
  BY <1>3, <1>b, <1>n DEF ParenExpr
<1>4. CASE IdentifierExpr
  <2> DEFINE f == [NewFrame("Call") EXCEPT !.val = identifier_str, !.first = Len(toks)]
  <2>1. stack' = Append(stack, f) /\ CurTok = "identifier" /\ toks # <<>>
    BY <1>4 DEF IdentifierExpr, Push, TypeInv, TypeOK
  <2>2. f.fn = "Call" /\ f.val = identifier_str
    BY DEF NewFrame
  <2>3. FrameSound(f)
    BY <2>1, <2>2 DEF FrameSound, ASTSound, TokenSound
  <2> QED
    BY <1>a, <2>1, <2>3
<1>5. CASE IdentifierVariable \/ CallNoArgs \/ Propagate \/ BinOpDone
  <2>1. stack' = Front(stack)
    BY <1>5 DEF IdentifierVariable, CloseCall, CallNoArgs, Propagate, BinOpDone, Pop
  <2>2. stack # <<>>
    BY <1>5 DEF IdentifierVariable, CallNoArgs, Propagate, BinOpDone, TypeInv, TopOK
  <2> QED
    BY <1>o, <2>1, <2>2
<1>6. CASE CallArg
  <2>1. stack # <<>> /\ Top.fn = "Call" /\ Top \in Frame(NodeIds)
    BY <1>0, <1>6 DEF CallArg, Returning, F, Top
  <2>2. CASE CurTok = ")"
    BY <1>6, <1>o, <2>1, <2>2 DEF CallArg, CloseCall, Pop
  <2>3. CASE CurTok = ","
    <3> DEFINE f == [Top EXCEPT !.kids = Append(@, ret)]
    <3>1. stack' = Append(Append(Front(stack), f), NewFrame("Expression"))
      BY <1>6, <2>3 DEF CallArg, ReplaceAndPush
    <3>2. f.fn = "Call" /\ f.val = Top.val
      BY <2>1 DEF Frame
    <3> HIDE DEF f
    <3>3. FrameSound(f)
      BY <1>0, <2>1, <3>2 DEF FrameSound
    <3> QED
      BY <1>b, <1>n, <2>1, <3>1, <3>3
  <2>4. CASE CurTok \notin {")", ","}
    BY <1>6, <1>q, <2>4 DEF CallArg, Fail
  <2> QED
    BY <2>2, <2>3, <2>4
<1>7. CASE ExpressionOperand
  <2> DEFINE f == [NewFrame("BinOpRHS") EXCEPT !.kids = <<ret>>]
  <2>1. stack # <<>> /\ stack' = Append(Front(stack), f)
    BY <1>7 DEF ExpressionOperand, Returning, Replace
  <2>2. f.fn = "BinOpRHS"
    BY DEF NewFrame
  <2> HIDE DEF f
  <2> QED
    BY <1>r, <2>1, <2>2 DEF FrameSound
<1>8. CASE BinOpOperator
  <2> DEFINE f == [Top EXCEPT !.fn = "RHS", !.val = CurTok]
  <2>1. stack # <<>> /\ Top \in Frame(NodeIds) /\ stack' = Append(Front(stack), f)
    BY <1>0, <1>8 DEF BinOpOperator, Replace, TypeInv, TopOK, F, Top
  <2>2. f.fn = "RHS" /\ f.val = CurTok /\ Top.prec \in Nat
    BY <2>1 DEF Frame
  <2>3. CurTok \in Operators
    BY <1>8, <2>2, PrecedenceRange, OperatorTokens DEF BinOpOperator
  <2> HIDE DEF f
  <2> QED
    BY <1>r, <2>1, <2>2, <2>3 DEF FrameSound
<1>9. ASSUME NEW rhs, MergeOperands(rhs), stack # <<>> PROVE FramesSound'
  <2> DEFINE f == [Top EXCEPT !.fn = "BinOpRHS", !.val = "", !.kids = <<Len(nodes) + 1>>]
  <2>1. stack' = Append(Front(stack), f) /\ Top \in Frame(NodeIds)
    BY <1>0, <1>9 DEF MergeOperands, Replace, F, Top
  <2>2. f.fn = "BinOpRHS"
    BY <2>1 DEF Frame
  <2> HIDE DEF f
  <2> QED
    BY <1>r, <1>9, <2>1, <2>2 DEF FrameSound
<1>10. CASE BinOpOperand
  <2>1. stack # <<>> /\ Top.fn = "RHS" /\ Top \in Frame(NodeIds)
    BY <1>0, <1>10 DEF BinOpOperand, Returning, F, Top
  <2>2. CASE NextBindsTighter(Top.val)
    <3> DEFINE f == [Top EXCEPT !.fn = "Merge"]
               g == [NewFrame("BinOpRHS") EXCEPT !.prec = RecursionPrec(Top.val), !.kids = <<ret>>]
    <3>1. stack' = Append(Append(Front(stack), f), g)
      BY <1>10, <2>2 DEF BinOpOperand, ReplaceAndPush
    <3>2. f.fn = "Merge" /\ f.val = Top.val
      BY <2>1 DEF Frame
    <3>3. g.fn = "BinOpRHS"
      BY DEF NewFrame
    <3> HIDE DEF f, g
    <3>4. FrameSound(f) /\ FrameSound(g)
      BY <1>0, <2>1, <3>2, <3>3 DEF FrameSound
    <3> QED
      BY <1>b, <2>1, <3>1, <3>4
  <2>3. CASE ~NextBindsTighter(Top.val)
    BY <1>9, <1>10, <2>1, <2>3 DEF BinOpOperand
  <2> QED
    BY <2>2, <2>3
<1>11. CASE BinOpMerge
  BY <1>9, <1>11 DEF BinOpMerge, Returning
<1>12. CASE ParenClose
  <2>1. stack # <<>> /\ (stack' = Front(stack) \/ stack' = stack)
    BY <1>12 DEF ParenClose, Returning, Pop, Fail
  <2> QED
    BY <1>o, <1>q, <2>1
<1> QED
  BY <1>1, <1>2, <1>3, <1>4, <1>5, <1>6, <1>7, <1>8, <1>10, <1>11, <1>12
     DEF Next, ParsePrototype, ParsePrimary, ParseIdentifierExpr, ParseBinOpRHS, Terminated

LEMMA SoundNode ==
  ASSUME NEW e, NEW m \in Nat, e.kids \in Seq(1 .. m),
         e.kind \in {"Number", "Variable"} => e.kids = <<>>,
         e.kind = "Binary" => e.val \in Operators,
         e.kind \in {"Variable", "Call"} => e.val \in Idents
  PROVE  NodeSound(e, m + 1)
BY DEF NodeSound

LEMMA NodeAdded ==
  ASSUME TypeInv, NodesSound, NEW n, nodes' = Append(nodes, n), NodeSound(n, Len(nodes) + 1)
  PROVE  NodesSound'
<1> DEFINE N == Node(NodeIds)
           m == Len(nodes)
<1>1. nodes \in Seq(N)
  BY DEF TypeInv, TypeOK
<1> HIDE DEF N
<1>2. nodes \in Seq(N \cup {n}) /\ n \in N \cup {n}
  BY <1>1, SeqMonotonic
<1>3. /\ m \in Nat /\ Len(nodes') = m + 1
      /\ \A i \in 1 .. m : nodes'[i] = nodes[i]
      /\ nodes'[m + 1] = n
  BY <1>2, AppendLast, LenProperties
<1>4. \A i \in 1 .. m : NodeSound(nodes[i], i)
  BY DEF NodesSound, NodeIds
<1>5. NodeSound(n, m + 1)
  OBVIOUS
<1> HIDE DEF m
<1>6. ASSUME NEW i \in 1 .. m + 1 PROVE NodeSound(nodes'[i], i)
  <2>1. i \in 1 .. m \/ i = m + 1
    BY <1>3
  <2> QED
    BY <1>3, <1>4, <1>5, <2>1
<1> QED
  BY <1>3, <1>6 DEF NodesSound, NodeIds

LEMMA NodesSoundStep ==
  ASSUME TypeInv, ASTSound, [Next]_vars
  PROVE  NodesSound'
<1>0. /\ NodesSound /\ Len(nodes) \in Nat
      /\ stack # <<>> => Top \in Frame(NodeIds) /\ FrameSound(Top) /\ Shape(Top)
  <2>1. StackOK(stack, NodeIds) /\ Len(nodes) \in Nat
    BY LenProperties DEF TypeInv, TypeOK
  <2>2. stack # <<>> => Last(stack) = stack[Len(stack)] /\ Len(stack) \in 1 .. Len(stack)
    <3>1. stack # <<>> => Last(stack) = stack[Len(stack)] /\ Len(stack) \in Nat \ {0}
      BY <2>1, FrontLast DEF StackOK
    <3> QED
      BY <3>1
  <2> QED
    BY <2>1, <2>2, StackPop DEF ASTSound, FramesSound, Top
<1>n. \A k, v, kids, a, b : /\ NewNode(k, v, kids, a, b).kind = k /\ NewNode(k, v, kids, a, b).val = v
                            /\ NewNode(k, v, kids, a, b).kids = kids
  BY DEF NewNode
<1>q. ASSUME nodes' = nodes PROVE NodesSound'
  BY <1>0, <1>q DEF NodesSound, NodeIds
<1>a. ASSUME NEW k, NEW v, NEW kids, NEW a, NEW b, nodes' = Append(nodes, NewNode(k, v, kids, a, b)),
             kids \in Seq(NodeIds), k \in {"Number", "Variable"} => kids = <<>>,
             k = "Binary" => v \in Operators, k \in {"Variable", "Call"} => v \in Idents
      PROVE  NodesSound'
  <2> DEFINE n == NewNode(k, v, kids, a, b)
             m == Len(nodes)
  <2>1. m \in Nat /\ kids \in Seq(1 .. m)
    BY <1>0, <1>a DEF NodeIds
  <2>2. n.kind = k /\ n.val = v /\ n.kids = kids
    BY <1>n
  <2> HIDE DEF n, m
  <2>3. /\ n.kids \in Seq(1 .. m)
        /\ n.kind \in {"Number", "Variable"} => n.kids = <<>>
        /\ n.kind = "Binary" => n.val \in Operators
        /\ n.kind \in {"Variable", "Call"} => n.val \in Idents
    BY <1>a, <2>1, <2>2
  <2>4. NodeSound(n, m + 1)
    BY <2>1, <2>3, SoundNode
  <2> QED
    BY <1>0, <1>a, <2>4, NodeAdded DEF n, m
<1>1. CASE Construct \/ ParseModule \/ ModuleError \/ DefinitionDone \/ Propagate \/ PrimaryUnknown
           \/ ParsePrototype \/ ParenExpr \/ IdentifierExpr \/ IdentifierCall \/ CallFirstArg
           \/ ExpressionOperand \/ BinOpDone \/ BinOpOperator \/ UNCHANGED vars
  <2>1. nodes' = nodes
    BY <1>1 DEF Construct, ParseModule, ModuleEnd, ModuleLineBreak, ModuleDefinition, ModuleUnexpected,
       ModuleError, DefinitionDone, Propagate, PrimaryUnknown, Fail, ParsePrototype, PrototypeArg,
       PrototypeDelimiter, PrototypeType, PrototypeArrow, CallExpression, ParenExpr, IdentifierExpr,
       IdentifierCall, CallFirstArg, ExpressionOperand, BinOpDone, BinOpOperator, vars
  <2> QED
    BY <1>q, <2>1
<1>2. CASE NumberExpr
  <2> DEFINE none == <<>>
  <2>1. nodes' = Append(nodes, NewNode("Number", real_num_value, none, Len(toks), Len(toks)))
    BY <1>2 DEF NumberExpr, ReturnNew
  <2>2. none \in Seq(NodeIds) /\ none = <<>>
    BY EmptySeq
  <2> HIDE DEF none
  <2>3. /\ "Number" \in {"Number", "Variable"} => none = <<>>
        /\ "Number" # "Binary" /\ "Number" \notin {"Variable", "Call"}
    BY <2>2
  <2> QED
    BY <1>a, <2>1, <2>2, <2>3, Zenon
<1>3. CASE IdentifierVariable
  <2> DEFINE none == <<>>
  <2>1. nodes' = Append(nodes, NewNode("Variable", Top.val, none, Top.first, Top.first))
    BY <1>3 DEF IdentifierVariable, ReturnNew
  <2>2. none \in Seq(NodeIds) /\ none = <<>>
    BY EmptySeq
  <2>3. Top.val \in Idents
    BY <1>0, <1>3 DEF IdentifierVariable, TypeInv, TopOK, FrameSound
  <2> HIDE DEF none
  <2>4. /\ "Variable" \in {"Number", "Variable"} => none = <<>>
        /\ "Variable" # "Binary"
    BY <2>2
  <2> QED
    BY <1>a, <2>1, <2>2, <2>3, <2>4, Zenon
<1>4. ASSUME NEW args \in Seq(NodeIds), CloseCall(args), stack # <<>>, Top.fn = "Call"
      PROVE  NodesSound'
  <2>1. nodes' = Append(nodes, NewNode("Call", Top.val, args, Top.first, Len(toks)))
    BY <1>4 DEF CloseCall, ReturnNew
  <2>2. Top.val \in Idents
    BY <1>0, <1>4 DEF FrameSound
  <2> QED
    BY <1>a, <1>4, <2>1, <2>2
<1>5. CASE CallNoArgs
  <2>1. stack # <<>> /\ Top.fn = "Call" /\ CloseCall(<<>>) /\ <<>> \in Seq(NodeIds)
    BY <1>5, EmptySeq DEF CallNoArgs, TypeInv, TopOK
  <2> QED
    BY <1>4, <2>1
<1>r. pc = "Return" /\ err = "none" => ret \in NodeIds
  BY <1>0 DEF TypeInv, TypeOK, NodeIds
<1>6. CASE CallArg
  <2>1. stack # <<>> /\ Top.fn = "Call" /\ ret \in NodeIds
    BY <1>6, <1>r DEF CallArg, Returning
  <2>2. Append(Top.kids, ret) \in Seq(NodeIds)
    <3>1. Top.kids \in Seq(NodeIds)
      BY <1>0, <2>1 DEF Frame
    <3> QED
      BY <2>1, <3>1, AppendLast
  <2>3. CASE CurTok = ")"
    BY <1>4, <1>6, <2>1, <2>2, <2>3 DEF CallArg
  <2>4. CASE CurTok # ")"
    BY <1>6, <1>q, <2>4 DEF CallArg, Fail
  <2> QED
    BY <2>3, <2>4
<1>7. ASSUME NEW rhs \in NodeIds, MergeOperands(rhs), stack # <<>>, Top.fn \in {"RHS", "Merge"}
      PROVE  NodesSound'
  <2> DEFINE lhs == Top.kids[1]
             kids == <<lhs, rhs>>
  <2>1. nodes' = Append(nodes, NewNode("Binary", Top.val, kids, FirstOf(lhs), LastOf(rhs)))
    BY <1>7 DEF MergeOperands
  <2>2. Top.val \in Operators
    BY <1>0, <1>7 DEF FrameSound
  <2>3. lhs \in NodeIds
    <3>1. Top.kids \in Seq(NodeIds) /\ Len(Top.kids) = 1
      BY <1>0, <1>7 DEF Frame, Shape, Climbing
    <3> QED
      BY <3>1, ElementOfSeq
  <2>4. kids \in Seq(NodeIds)
    BY <2>3, <1>7
  <2> HIDE DEF lhs, kids
  <2> QED
    BY <1>a, <2>1, <2>2, <2>4
<1>8. CASE BinOpOperand
  BY <1>7, <1>8, <1>q, <1>r DEF BinOpOperand, Returning
<1>9. CASE BinOpMerge
  BY <1>7, <1>9, <1>r DEF BinOpMerge, Returning
<1>10. CASE ParenClose
  <2>1. ret \in NodeIds
    BY <1>10, <1>r DEF ParenClose, Returning
  <2>2. CASE CurTok = ")"
    <3> DEFINE e == [nodes[ret] EXCEPT !.paren = @ + 1]
    <3>1. nodes' = [nodes EXCEPT ![ret] = e] /\ nodes \in Seq(Node(NodeIds))
      BY <1>10, <2>2 DEF ParenClose, TypeInv, TypeOK
    <3>2. nodes[ret] \in Node(NodeIds)
      BY <2>1, <3>1, ElementOfSeq DEF NodeIds
    <3>3. e \in Node(NodeIds) /\ e.kind = nodes[ret].kind /\ e.val = nodes[ret].val /\ e.kids = nodes[ret].kids
      <4>1. ASSUME NEW x \in Node(NodeIds)
            PROVE  /\ [x EXCEPT !.paren = @ + 1] \in Node(NodeIds)
                   /\ [x EXCEPT !.paren = @ + 1].kind = x.kind /\ [x EXCEPT !.paren = @ + 1].val = x.val
                   /\ [x EXCEPT !.paren = @ + 1].kids = x.kids
        BY DEF Node
      <4> QED
        BY <3>2, <4>1
    <3> HIDE DEF e
    <3>4. Len(nodes') = Len(nodes) /\ \A i \in 1 .. Len(nodes) : nodes'[i] = IF i = ret THEN e ELSE nodes[i]
      BY <2>1, <3>1, <3>3, ExceptSeq DEF NodeIds
    <3> QED
      BY <1>0, <3>3, <3>4 DEF NodesSound, NodeIds, NodeSound
  <2>3. CASE CurTok # ")"
    BY <1>10, <1>q, <2>3 DEF ParenClose, Fail
  <2> QED
    BY <2>2, <2>3
<1> QED
  BY <1>1, <1>2, <1>3, <1>5, <1>6, <1>8, <1>9, <1>10
     DEF Next, ParsePrimary, ParseIdentifierExpr, ParseBinOpRHS, Terminated

\* A token that is read leaves its text in the registers.
LEMMA TokenSoundStep ==
  ASSUME TypeInv, TokenSound, GetTok \/ UNCHANGED lexVars
  PROVE  TokenSound'
<1>1. CASE UNCHANGED lexVars
  BY <1>1 DEF lexVars, TokenSound, CurTok
<1>2. CASE GetTok
  <2>1. PICK t \in NextTokens(toks) :
          /\ toks' = Append(toks, t)
          /\ identifier_str' = IF t.kind \in {"identifier", "extern"} THEN t.text ELSE identifier_str
    BY <1>2 DEF GetTok
  <2>2. PICK k \in Kind : t \in [kind : {k}, text : TextsOf(k)]
    BY KindsAssumption DEF NextTokens, Kind
  <2>3. t \in Token /\ t.kind = k /\ t.text \in TextsOf(k)
    BY <2>2 DEF Token
  <2>4. toks \in Seq(Token)
    BY DEF TypeInv, TypeOK
  <2>5. Last(toks') = t
    BY <2>1, <2>3, <2>4, AppendLast
  <2>6. TextsOf("identifier") = Idents
    BY DEF TextsOf
  <2>7. t.kind = "identifier" => t.text \in Idents /\ identifier_str' = t.text
    BY <2>1, <2>3, <2>6
  <2> QED
    BY <2>5, <2>7 DEF TokenSound, CurTok
<1> QED
  BY <1>1, <1>2

LEMMA ReadsOrNot ==
  ASSUME [Next]_vars
  PROVE  GetTok \/ UNCHANGED lexVars
<1>1. CASE Construct \/ ParseModule \/ ModuleError \/ DefinitionDone \/ Propagate
  BY <1>1 DEF Construct, ParseModule, ModuleEnd, ModuleLineBreak, ModuleDefinition, ModuleUnexpected,
              ModuleError, DefinitionDone, Propagate, Fail
<1>2. CASE ParsePrototype
  BY <1>2 DEF ParsePrototype, PrototypeArg, PrototypeDelimiter, PrototypeType, PrototypeArrow, Fail
<1>3. CASE ParsePrimary
  BY <1>3 DEF ParsePrimary, PrimaryUnknown, NumberExpr, ParenExpr, IdentifierExpr, Fail
<1>4. CASE ParseIdentifierExpr \/ ParenClose
  BY <1>4 DEF ParseIdentifierExpr, IdentifierVariable, IdentifierCall, CallFirstArg, CallNoArgs, CallArg,
              CloseCall, ParenClose, Fail
<1>5. CASE ExpressionOperand \/ ParseBinOpRHS
  BY <1>5 DEF ExpressionOperand, ParseBinOpRHS, BinOpDone, BinOpOperator, BinOpOperand, BinOpMerge,
              MergeOperands
<1>6. CASE UNCHANGED vars
  BY <1>6 DEF vars
<1> QED
  BY <1>1, <1>2, <1>3, <1>4, <1>5, <1>6 DEF Next, Terminated

LEMMA ProtosSoundStep ==
  ASSUME TypeInv, ASTSound, [Next]_vars
  PROVE  ProtosSound'
<1>0. ProtosSound /\ TypeOK /\ lines \in Seq(Definition(NodeIds)) /\ proto \in Prototype
  BY DEF ASTSound, TypeInv, TypeOK
<1>q. ASSUME lines' = lines, proto' = proto,
             pc' \in {"Construct", "Module", "Done"} \/ err' # "none"
             \/ (pc \notin {"Construct", "Module", "Done"} /\ err = "none")
      PROVE  ProtosSound'
  BY <1>0, <1>q DEF ProtosSound
<1>1. CASE Construct \/ ModuleEnd \/ ModuleLineBreak \/ ModuleError \/ UNCHANGED vars
  <2>1. CASE UNCHANGED vars
    BY <1>0, <2>1 DEF ProtosSound, vars, defVars
  <2>2. CASE Construct \/ ModuleEnd \/ ModuleLineBreak \/ ModuleError
    BY <1>q, <2>2 DEF Construct, ModuleEnd, ModuleLineBreak, ModuleError, defVars
  <2> QED
    BY <1>1, <2>1, <2>2
<1>2. ASSUME NEW e \in Error, Fail(e) PROVE ProtosSound'
  <2>1. lines' = lines /\ proto' = proto /\ err' # "none"
    BY <1>2 DEF Fail, defVars, Error
  <2> QED
    BY <1>q, <2>1
<1>3. CASE ModuleDefinition
  <2> DEFINE none == <<>>
             p == [Name |-> identifier_str, Args |-> none, first |-> Len(toks)]
  <2>1. identifier_str \in Idents
    BY <1>3 DEF ModuleDefinition, ASTSound, TokenSound, TypeInv, TypeOK
  <2>2. none \in Seq(Idents)
    BY EmptySeq
  <2>3. proto' = p /\ lines' = lines
    BY <1>3 DEF ModuleDefinition
  <2> HIDE DEF none
  <2>4. p.Name = identifier_str /\ p.Args = none
    OBVIOUS
  <2> HIDE DEF p
  <2>5. ProtoSound(p)
    BY <2>1, <2>2, <2>4 DEF ProtoSound
  <2> QED
    BY <1>0, <2>3, <2>5 DEF ProtosSound
<1>4. CASE PrototypeArg
  <2> DEFINE p == [proto EXCEPT !.Args = Append(@, identifier_str)]
  <2>1. identifier_str \in Idents /\ ProtoSound(proto) /\ err = "none"
    BY <1>0, <1>4 DEF PrototypeArg, ASTSound, TokenSound, ProtosSound, TypeInv, TypeOK, TopOK
  <2>2. proto' = p /\ lines' = lines
    BY <1>4 DEF PrototypeArg
  <2>3. p.Name = proto.Name /\ p.Args = Append(proto.Args, identifier_str)
    BY <1>0 DEF Prototype
  <2>4. Append(proto.Args, identifier_str) \in Seq(Idents)
    BY <2>1, AppendLast DEF ProtoSound
  <2> HIDE DEF p
  <2>5. ProtoSound(p)
    BY <2>1, <2>3, <2>4 DEF ProtoSound
  <2> QED
    BY <1>0, <2>2, <2>5 DEF ProtosSound
<1>5. CASE DefinitionDone
  <2> DEFINE d == [Proto |-> proto, Body |-> ret]
             D == Definition(NodeIds)
  <2>1. ProtoSound(proto)
    BY <1>0, <1>5 DEF DefinitionDone, ProtosSound
  <2>2. lines' = Append(lines, d) /\ pc' = "Module"
    BY <1>5 DEF DefinitionDone
  <2>3. d.Proto = proto
    OBVIOUS
  <2> HIDE DEF d, D
  <2>4. lines \in Seq(D \cup {d}) /\ d \in D \cup {d}
    BY <1>0, SeqMonotonic DEF D
  <2>5. /\ Len(lines) \in Nat /\ Len(lines') = Len(lines) + 1
        /\ \A i \in 1 .. Len(lines) : lines'[i] = lines[i]
        /\ lines'[Len(lines) + 1] = d
    BY <2>2, <2>4, AppendLast, LenProperties
  <2>6. ASSUME NEW i \in 1 .. Len(lines') PROVE ProtoSound(lines'[i].Proto)
    <3>1. i \in 1 .. Len(lines) \/ i = Len(lines) + 1
      BY <2>5
    <3> QED
      BY <1>0, <2>1, <2>3, <2>5, <3>1 DEF ProtosSound
  <2> QED
    BY <2>2, <2>6 DEF ProtosSound
<1>6. CASE Propagate
  BY <1>6, <1>q DEF Propagate, defVars
<1>7. CASE ParsePrototype /\ ~PrototypeArg /\ ~(\E e \in Error : Fail(e))
  <2>1. /\ lines' = lines /\ proto' = proto /\ pc \in {"Arg", "Delimiter", "Type"}
    BY <1>7 DEF ParsePrototype, PrototypeDelimiter, PrototypeType, PrototypeArrow, defVars, Error
  <2>2. err = "none"
    BY <2>1 DEF TypeInv, TopOK
  <2> QED
    BY <1>q, <2>1, <2>2
<1>8. CASE ParsePrimary \/ ParseIdentifierExpr \/ ExpressionOperand \/ ParseBinOpRHS \/ ParenClose
  <2>1. lines' = lines /\ proto' = proto
    <3>1. CASE ParsePrimary
      BY <3>1 DEF ParsePrimary, PrimaryUnknown, NumberExpr, ParenExpr, IdentifierExpr, Fail, defVars
    <3>2. CASE ParseIdentifierExpr \/ ParenClose
      BY <3>2 DEF ParseIdentifierExpr, IdentifierVariable, IdentifierCall, CallFirstArg, CallNoArgs, CallArg,
                  CloseCall, ParenClose, Fail, defVars
    <3>3. CASE ExpressionOperand \/ ParseBinOpRHS
      BY <3>3 DEF ExpressionOperand, ParseBinOpRHS, BinOpDone, BinOpOperator, BinOpOperand, BinOpMerge,
                  MergeOperands, defVars
    <3> QED
      BY <1>8, <3>1, <3>2, <3>3
  <2>2. pc \in {"Primary", "Identifier", "Args", "Loop"} \/ (pc = "Return" /\ err = "none")
    BY <1>8 DEF ParsePrimary, PrimaryUnknown, NumberExpr, ParenExpr, IdentifierExpr,
       ParseIdentifierExpr, IdentifierVariable, IdentifierCall, CallFirstArg, CallNoArgs, CallArg,
       ExpressionOperand, ParseBinOpRHS, BinOpDone, BinOpOperator, BinOpOperand, BinOpMerge, ParenClose, Returning
  <2>3. pc \notin {"Construct", "Module", "Done"} /\ err = "none"
    BY <2>2 DEF TypeInv, TopOK
  <2> QED
    BY <1>q, <2>1, <2>3
<1>9. CASE ModuleUnexpected
  BY <1>2, <1>9 DEF ModuleUnexpected, Error
<1> QED
  BY <1>1, <1>2, <1>3, <1>4, <1>5, <1>6, <1>7, <1>8, <1>9 DEF Next, ParseModule, Terminated

LEMMA ASTInvariant == Spec => [](TypeInv /\ ASTSound)
<1>1. Init => TypeInv /\ ASTSound
  <2> SUFFICES ASSUME Init PROVE TypeInv /\ ASTSound
    OBVIOUS
  <2>1. TypeInv
    BY TypeInvInit
  <2>2. Len(stack) = 0 /\ Len(nodes) = 0 /\ Len(lines) = 0 /\ toks = <<>> /\ pc = "Construct"
    BY EmptySeq DEF Init
  <2> QED
    BY <2>1, <2>2 DEF ASTSound, FramesSound, NodesSound, NodeIds, TokenSound, ProtosSound
<1>2. TypeInv /\ ASTSound /\ [Next]_vars => (TypeInv /\ ASTSound)'
  BY TypeInvStep, FramesSoundStep, NodesSoundStep, ReadsOrNot, TokenSoundStep, ProtosSoundStep DEF ASTSound
<1> QED
  BY <1>1, <1>2, PTL DEF Spec

\* get() returns a module only at the end of the file, and then nothing changes.
FinishedAtEof == pc = "Done" /\ err = "none" => CurTok = "eof"

LEMMA Finishes == Spec => []FinishedAtEof
<1>1. Init => FinishedAtEof
  BY DEF Init, FinishedAtEof
<1>2. FinishedAtEof /\ [Next]_vars => FinishedAtEof'
  <2> SUFFICES ASSUME FinishedAtEof, [Next]_vars PROVE FinishedAtEof'
    OBVIOUS
  <2>1. CASE UNCHANGED vars
    BY <2>1 DEF vars, lexVars, FinishedAtEof, CurTok
  <2>2. CASE ModuleEnd
    BY <2>2 DEF ModuleEnd, lexVars, FinishedAtEof, CurTok
  <2>3. CASE ~UNCHANGED vars /\ ~ModuleEnd
    <3>1. pc' # "Done" \/ err' # "none"
      <4>1. CASE Construct \/ ParseModule \/ ModuleError \/ DefinitionDone \/ Propagate
        BY <2>3, <4>1 DEF Construct, ParseModule, ModuleLineBreak, ModuleDefinition, ModuleUnexpected,
           ModuleError, DefinitionDone, Propagate, Fail
      <4>2. CASE ParsePrototype
        BY <4>2 DEF ParsePrototype, PrototypeArg, PrototypeDelimiter, PrototypeType, PrototypeArrow,
                    CallExpression, Fail
      <4>3. CASE ParsePrimary
        BY <4>3 DEF ParsePrimary, PrimaryUnknown, NumberExpr, ReturnNew, ParenExpr, IdentifierExpr, Fail
      <4>4. CASE ParseIdentifierExpr \/ ParenClose
        BY <4>4 DEF ParseIdentifierExpr, IdentifierVariable, IdentifierCall, CallFirstArg, CallExpression,
                    CallNoArgs, CallArg, CloseCall, ReturnNew, ParenClose, Returning, Fail
      <4>5. CASE ExpressionOperand \/ ParseBinOpRHS
        BY <4>5 DEF ExpressionOperand, ParseBinOpRHS, BinOpDone, BinOpOperator, BinOpOperand, BinOpMerge,
                    MergeOperands
      <4> QED
        BY <2>3, <4>1, <4>2, <4>3, <4>4, <4>5 DEF Next, Terminated
    <3> QED
      BY <3>1 DEF FinishedAtEof
  <2> QED
    BY <2>1, <2>2, <2>3
<1> QED
  BY <1>1, <1>2, PTL DEF Spec

\* After get() has returned nothing happens any more.
LEMMA DoneStays == ASSUME pc = "Done", [Next]_vars PROVE UNCHANGED vars
BY DEF Next, Construct, ParseModule, ModuleEnd, ModuleLineBreak, ModuleDefinition, ModuleUnexpected,
   ParsePrototype, PrototypeArg, PrototypeDelimiter, PrototypeType, PrototypeArrow,
   ParsePrimary, PrimaryUnknown, NumberExpr, ParenExpr, IdentifierExpr,
   ParseIdentifierExpr, IdentifierVariable, IdentifierCall, CallFirstArg, CallNoArgs, CallArg, Returning,
   ExpressionOperand, ParseBinOpRHS, BinOpDone, BinOpOperator, BinOpOperand, BinOpMerge, ParenClose,
   DefinitionDone, Propagate, ModuleError, Terminated

-----------------------------------------------------------------------------
(***************************************************************************)
(* Ownership: every node has one owner.  A slot is a std::unique_ptr: of   *)
(* the kids of a node or a frame, the result, or the body of a definition. *)
(***************************************************************************)
Slot == {"nodes", "stack", "ret", "lines"} \X Nat \X Nat
SlotOf(owner, i, j) == <<owner, i, j>>
Result == SlotOf("ret", 0, 0)

In(s, i, j, n) == i \in 1 .. Len(s) /\ j \in 1 .. Len(s[i].kids) /\ s[i].kids[j] = n
Returned(n) == pc = "Return" /\ err = "none" /\ ret = n
IsBody(i, n) == i \in 1 .. Len(lines) /\ lines[i].Body = n

Holds(p, n) ==
  \/ p[1] = "nodes" /\ In(nodes, p[2], p[3], n)
  \/ p[1] = "stack" /\ In(stack, p[2], p[3], n)
  \/ p = Result /\ Returned(n)
  \/ p[1] = "lines" /\ p[3] = 0 /\ IsBody(p[2], n)

Owned ==
  /\ \A n \in NodeIds, p, q \in Slot : Holds(p, n) /\ Holds(q, n) => p = q
  /\ err = "none" => \A n \in NodeIds : \E p \in Slot : Holds(p, n)

\* A call that waits for its first operand has none yet, and no call and no node has
\* more kids than there are tokens.
FrameFits(f, m) == (f.fn \in {"Expression", "Paren"} => f.kids = <<>>) /\ Len(f.kids) <= m
Fits(s, m) == \A i \in 1 .. Len(s) : FrameFits(s[i], m)

KidsFit ==
  /\ Fits(stack, Len(toks))
  /\ \A i \in 1 .. Len(nodes) : Len(nodes[i].kids) <= Len(toks)
  /\ stack # <<>> => Len(toks) >= 2
  /\ pc \in {"Identifier", "Args"} => Top.kids = <<>>

OwnedInv == Owned /\ KidsFit

\* What is held is a node.
LEMMA HeldAreNodes ==
  ASSUME TypeInv
  PROVE  \A p \in Slot : \A n : Holds(p, n) => n \in NodeIds
<1>1. ASSUME NEW S, NEW s \in Seq(S), \A e \in S : e.kids \in Seq(NodeIds), NEW i, NEW j, NEW n, In(s, i, j, n)
      PROVE  n \in NodeIds
  <2>1. s[i] \in S /\ s[i].kids \in Seq(NodeIds)
    BY <1>1, ElementOfSeq DEF In
  <2> QED
    BY <1>1, <2>1, ElementOfSeq DEF In
<1>2. nodes \in Seq(Node(NodeIds)) /\ stack \in Seq(Frame(NodeIds)) /\ lines \in Seq(Definition(NodeIds))
  BY DEF TypeInv, TypeOK
<1>3. (\A e \in Node(NodeIds) : e.kids \in Seq(NodeIds)) /\ (\A e \in Frame(NodeIds) : e.kids \in Seq(NodeIds))
  BY DEF Node, Frame
<1>4. \A i, j, n : In(nodes, i, j, n) \/ In(stack, i, j, n) => n \in NodeIds
  BY <1>1, <1>2, <1>3
<1>5. ASSUME NEW i, NEW n, IsBody(i, n) PROVE n \in NodeIds
  <2>1. lines[i] \in Definition(NodeIds)
    BY <1>2, <1>5, ElementOfSeq DEF IsBody
  <2> QED
    BY <1>5, <2>1 DEF Definition, IsBody
<1>6. \A n : Returned(n) => n \in NodeIds
  BY DEF Returned, TypeInv, TypeOK, NodeIds
<1> QED
  BY <1>4, <1>5, <1>6 DEF Holds

\* A step hands nodes on from slot to slot, and may put a new node in a slot.
LEMMA HandOn ==
  ASSUME TypeInv, Owned, NEW to \in [Slot -> Slot], NEW for \in Slot,
         \A q \in Slot : \A n : Holds(q, n)' =>
           (n \notin NodeIds /\ q = for) \/ \E p \in Slot : Holds(p, n) /\ q = to[p],
         err' = "none" =>
           /\ err = "none"
           /\ \A p \in Slot : \A n : Holds(p, n) => Holds(to[p], n)'
           /\ \A n \in NodeIds' : n \notin NodeIds => Holds(for, n)'
  PROVE  Owned'
<1>1. ASSUME NEW n \in NodeIds', NEW p \in Slot, NEW q \in Slot, Holds(p, n)', Holds(q, n)'
      PROVE  p = q
  <2>1. CASE n \in NodeIds
    <3>1. PICK r \in Slot : Holds(r, n) /\ p = to[r]
      BY <1>1, <2>1
    <3>2. PICK s \in Slot : Holds(s, n) /\ q = to[s]
      BY <1>1, <2>1
    <3> QED
      BY <2>1, <3>1, <3>2 DEF Owned
  <2>2. CASE n \notin NodeIds
    BY <1>1, <2>2, HeldAreNodes
  <2> QED
    BY <2>1, <2>2
<1>2. ASSUME err' = "none", NEW n \in NodeIds'
      PROVE  \E p \in Slot : Holds(p, n)'
  <2>1. CASE n \in NodeIds
    <3>1. PICK p \in Slot : Holds(p, n)
      BY <1>2, <2>1 DEF Owned
    <3> QED
      BY <1>2, <3>1
  <2>2. CASE n \notin NodeIds
    BY <1>2, <2>2
  <2> QED
    BY <2>1, <2>2
<1> QED
  BY <1>1, <1>2 DEF Owned

\* The kids of a sequence of nodes or frames with one more, or one less
LEMMA InAppend ==
  ASSUME NEW S, NEW s \in Seq(S), NEW e
  PROVE  \A i, j, n : In(Append(s, e), i, j, n) <=>
           In(s, i, j, n) \/ (i = Len(s) + 1 /\ j \in 1 .. Len(e.kids) /\ e.kids[j] = n)
<1> DEFINE t == Append(s, e)
           m == Len(s)
<1>1. s \in Seq(S \cup {e}) /\ e \in S \cup {e}
  BY SeqMonotonic
<1>2. /\ m \in Nat /\ Len(t) = m + 1 /\ t[m + 1] = e
      /\ \A i \in 1 .. m : t[i] = s[i]
  BY <1>1, AppendLast, LenProperties
<1> HIDE DEF t, m
<1>3. \A i : i \in 1 .. m + 1 <=> i \in 1 .. m \/ i = m + 1
  BY <1>2
<1>4. m + 1 \notin 1 .. m
  BY <1>2
<1>5. \A i, j, n : In(t, i, j, n) <=> In(s, i, j, n) \/ (i = m + 1 /\ j \in 1 .. Len(e.kids) /\ e.kids[j] = n)
  BY <1>2, <1>3, <1>4 DEF In, m
<1> QED
  BY <1>5 DEF t, m

LEMMA InFront ==
  ASSUME NEW S, NEW s \in Seq(S), s # <<>>
  PROVE  /\ Len(s) \in Nat \ {0}
         /\ \A i, j, n : In(s, i, j, n) <=>
              In(Front(s), i, j, n) \/ (i = Len(s) /\ j \in 1 .. Len(Last(s).kids) /\ Last(s).kids[j] = n)
         /\ \A i, j, n : In(Front(s), i, j, n) => i # Len(s)
<1> DEFINE t == Front(s)
           m == Len(s)
<1>1. /\ m \in Nat \ {0} /\ Len(t) = m - 1 /\ Last(s) = s[m]
      /\ \A i \in 1 .. m - 1 : t[i] = s[i]
  BY FrontLast
<1> HIDE DEF t, m
<1>2. \A i : i \in 1 .. m <=> i \in 1 .. m - 1 \/ i = m
  BY <1>1
<1>3. m \notin 1 .. m - 1
  BY <1>1
<1>4. \A i, j, n : In(s, i, j, n) <=> In(t, i, j, n) \/ (i = m /\ j \in 1 .. Len(Last(s).kids) /\ Last(s).kids[j] = n)
  BY <1>1, <1>2, <1>3 DEF In, m
<1>5. \A i, j, n : In(t, i, j, n) => i # m
  BY <1>1, <1>3 DEF In
<1> QED
  BY <1>1, <1>4, <1>5 DEF t, m

\* Where frames are replaced or pushed: the frame s gives up what it has and f gets.
LEMMA InReplaced ==
  ASSUME NEW S, NEW s \in Seq(S), s # <<>>, NEW f
  PROVE  /\ \A i, j, n : In(Append(Front(s), f), i, j, n) <=>
              In(Front(s), i, j, n) \/ (i = Len(s) /\ j \in 1 .. Len(f.kids) /\ f.kids[j] = n)
         /\ f.kids = Last(s).kids => \A i, j, n : In(Append(Front(s), f), i, j, n) <=> In(s, i, j, n)
<1>1. Front(s) \in Seq(S) /\ Len(Front(s)) + 1 = Len(s)
  BY FrontLast
<1>2. \A i, j, n : In(Append(Front(s), f), i, j, n) <=>
        In(Front(s), i, j, n) \/ (i = Len(s) /\ j \in 1 .. Len(f.kids) /\ f.kids[j] = n)
  BY <1>1, InAppend
<1> QED
  BY <1>2, InFront, Zenon

LEMMA FitsOn ==
  ASSUME NEW s, NEW m \in Nat, NEW k \in Nat, Fits(s, m), m <= k, NEW S, s \in Seq(S), \A e \in S : Len(e.kids) \in Nat
  PROVE  Fits(s, k)
<1>1. \A i \in 1 .. Len(s) : Len(s[i].kids) \in Nat
  BY ElementOfSeq
<1> QED
  BY <1>1 DEF Fits, FrameFits

LEMMA FitsAppend ==
  ASSUME NEW S, NEW s \in Seq(S), NEW m, Fits(s, m), NEW f, FrameFits(f, m)
  PROVE  Fits(Append(s, f), m)
<1> DEFINE t == Append(s, f)
           k == Len(s)
<1>1. s \in Seq(S \cup {f}) /\ f \in S \cup {f}
  BY SeqMonotonic
<1>2. /\ k \in Nat /\ Len(t) = k + 1 /\ t[k + 1] = f
      /\ \A i \in 1 .. k : t[i] = s[i]
  BY <1>1, AppendLast, LenProperties
<1> HIDE DEF t, k
<1>3. \A i \in 1 .. k + 1 : i \in 1 .. k \/ i = k + 1
  BY <1>2
<1>4. \A i \in 1 .. k : FrameFits(s[i], m)
  BY DEF Fits, k
<1>5. Fits(t, m)
  BY <1>2, <1>3, <1>4 DEF Fits
<1> QED
  BY <1>5 DEF t

LEMMA FitsFront ==
  ASSUME NEW S, NEW s \in Seq(S), NEW m, Fits(s, m), s # <<>>
  PROVE  Fits(Front(s), m) /\ FrameFits(Last(s), m)
<1> DEFINE t == Front(s)
           k == Len(s)
<1>1. /\ k \in Nat \ {0} /\ Len(t) = k - 1 /\ Last(s) = s[k]
      /\ \A i \in 1 .. k - 1 : t[i] = s[i]
  BY FrontLast
<1> HIDE DEF t, k
<1>2. \A i \in 1 .. k - 1 : i \in 1 .. k
  BY <1>1
<1>4. \A i \in 1 .. k : FrameFits(s[i], m)
  BY DEF Fits, k
<1>5. Fits(t, m) /\ FrameFits(s[k], m)
  BY <1>1, <1>2, <1>4 DEF Fits
<1> QED
  BY <1>1, <1>5 DEF t

\* What a frame may hold
LEMMA FrameKids ==
  ASSUME TypeInv
  PROVE  /\ Len(toks) \in Nat /\ stack \in Seq(Frame(NodeIds)) /\ nodes \in Seq(Node(NodeIds))
         /\ \A f \in Frame(NodeIds) : f.kids \in Seq(NodeIds) /\ Len(f.kids) \in Nat
         /\ \A f \in Node(NodeIds) : f.kids \in Seq(NodeIds) /\ Len(f.kids) \in Nat
         /\ stack # <<>> => /\ Front(stack) \in Seq(Frame(NodeIds)) /\ Top \in Frame(NodeIds)
                            /\ Top = stack[Len(stack)] /\ Shape(Top)
<1>1. \A f \in Frame(NodeIds) : f.kids \in Seq(NodeIds) /\ Len(f.kids) \in Nat
  <2>1. \A f \in Frame(NodeIds) : f.kids \in Seq(NodeIds)
    BY DEF Frame
  <2> QED
    BY <2>1, LenProperties
<1>2. \A f \in Node(NodeIds) : f.kids \in Seq(NodeIds) /\ Len(f.kids) \in Nat
  <2>1. \A f \in Node(NodeIds) : f.kids \in Seq(NodeIds)
    BY DEF Node
  <2> QED
    BY <2>1, LenProperties
<1>3. stack \in Seq(Frame(NodeIds)) /\ nodes \in Seq(Node(NodeIds)) /\ Len(toks) \in Nat
  BY LenProperties DEF TypeInv, TypeOK
<1>4. stack # <<>> => /\ Front(stack) \in Seq(Frame(NodeIds)) /\ Top \in Frame(NodeIds)
                      /\ Top = stack[Len(stack)] /\ Shape(Top)
  BY <1>3, FrontLast, StackPop DEF TypeInv, StackOK, Top
<1> QED
  BY <1>1, <1>2, <1>3, <1>4

\* A step that reads a token or none leaves what fits as it is.
LEMMA StillFits ==
  ASSUME TypeInv, KidsFit, GetTok \/ UNCHANGED lexVars
  PROVE  /\ Len(toks) \in Nat /\ Len(toks') \in Nat /\ Len(toks') = Len(toks) + (IF GetTok THEN 1 ELSE 0)
         /\ Fits(stack, Len(toks'))
         /\ stack # <<>> => Fits(Front(stack), Len(toks')) /\ FrameFits(Top, Len(toks'))
         /\ \A i \in 1 .. Len(nodes) : Len(nodes[i].kids) <= Len(toks')
<1>1. Len(toks) \in Nat /\ Len(toks') \in Nat /\ Len(toks') = Len(toks) + (IF GetTok THEN 1 ELSE 0)
  <2>1. CASE GetTok
    BY <2>1, TokensDelivered, FrameKids, LenProperties DEF TypeInv, TypeOK
  <2>2. CASE ~GetTok
    BY <2>2, FrameKids DEF lexVars
  <2> QED
    BY <2>1, <2>2
<1>2. Fits(stack, Len(toks'))
  BY <1>1, FitsOn, FrameKids DEF KidsFit
<1>3. stack # <<>> => Fits(Front(stack), Len(toks')) /\ FrameFits(Top, Len(toks'))
  BY <1>2, FitsFront, FrameKids DEF Top
<1>4. ASSUME NEW i \in 1 .. Len(nodes) PROVE Len(nodes[i].kids) <= Len(toks')
  <2>1. Len(nodes[i].kids) \in Nat
    BY <1>4, FrameKids, ElementOfSeq
  <2> QED
    BY <1>1, <1>4, <2>1 DEF KidsFit
<1> QED
  BY <1>1, <1>2, <1>3, <1>4

\* A step that makes no node.
LEMMA NoNodeFits ==
  ASSUME TypeInv, KidsFit, GetTok \/ UNCHANGED lexVars, nodes' = nodes,
         Fits(stack', Len(toks')), stack' # <<>> => Len(toks') >= 2,
         pc' \in {"Identifier", "Args"} => Last(stack').kids = <<>>
  PROVE  KidsFit'
BY StillFits DEF KidsFit, Top

\* A step that makes the node e.
LEMMA NodeFits ==
  ASSUME TypeInv, KidsFit, GetTok \/ UNCHANGED lexVars, NEW e, nodes' = Append(nodes, e),
         Len(e.kids) <= Len(toks'),
         Fits(stack', Len(toks')), stack' # <<>> => Len(toks') >= 2,
         pc' \notin {"Identifier", "Args"}
  PROVE  KidsFit'
<1> DEFINE k == Len(nodes)
           N == Node(NodeIds)
<1>1. nodes \in Seq(N)
  BY DEF TypeInv, TypeOK
<1> HIDE DEF N
<1>2. nodes \in Seq(N \cup {e}) /\ e \in N \cup {e}
  BY <1>1, SeqMonotonic
<1>3. /\ k \in Nat /\ Len(nodes') = k + 1 /\ nodes'[k + 1] = e
      /\ \A i \in 1 .. k : nodes'[i] = nodes[i]
  BY <1>2, AppendLast, LenProperties
<1>4. \A i \in 1 .. k : Len(nodes[i].kids) <= Len(toks')
  BY StillFits
<1> HIDE DEF k
<1>5. \A i \in 1 .. k + 1 : Len(nodes'[i].kids) <= Len(toks')
  BY <1>3, <1>4
<1> QED
  BY <1>3, <1>5 DEF KidsFit, Top

LEMMA OneMore ==
  ASSUME TypeInv, NEW e, nodes' = Append(nodes, e)
  PROVE  /\ Len(nodes) \in Nat /\ Len(nodes') = Len(nodes) + 1 /\ nodes'[Len(nodes) + 1] = e
         /\ \A n \in NodeIds : nodes'[n] = nodes[n]
<1> DEFINE N == Node(NodeIds)
<1>1. nodes \in Seq(N)
  BY DEF TypeInv, TypeOK
<1> HIDE DEF N
<1>2. nodes \in Seq(N \cup {e}) /\ e \in N \cup {e}
  BY <1>1, SeqMonotonic
<1> QED
  BY <1>2, AppendLast, LenProperties DEF NodeIds

\* The slots of the state after a step, from those of its parts
LEMMA HoldsNext ==
  \A p \in Slot : \A n :
    Holds(p, n)' <=> \/ p[1] = "nodes" /\ In(nodes', p[2], p[3], n)
                     \/ p[1] = "stack" /\ In(stack', p[2], p[3], n)
                     \/ p = Result /\ pc' = "Return" /\ err' = "none" /\ ret' = n
                     \/ p[1] = "lines" /\ p[3] = 0 /\ p[2] \in 1 .. Len(lines') /\ lines'[p[2]].Body = n
BY DEF Holds, In, Returned, IsBody

LEMMA SlotParts ==
  /\ Result \in Slot /\ Result[1] = "ret"
  /\ \A p \in Slot : /\ p[1] \in {"nodes", "stack", "ret", "lines"} /\ p[2] \in Nat /\ p[3] \in Nat
                     /\ p = SlotOf(p[1], p[2], p[3])
BY DEF Slot, Result, SlotOf

LEMMA SlotMade ==
  ASSUME NEW i \in Nat, NEW j \in Nat, NEW c \in {"nodes", "stack", "ret", "lines"}
  PROVE  /\ SlotOf(c, i, j) \in Slot
         /\ SlotOf(c, i, j)[1] = c /\ SlotOf(c, i, j)[2] = i /\ SlotOf(c, i, j)[3] = j
BY DEF Slot, SlotOf

\* No node is made or handed on, but an error may let nodes go.
LEMMA NothingHanded ==
  ASSUME TypeInv, Owned, NodeIds' = NodeIds, lines' = lines,
         \A i, j, n : In(nodes', i, j, n) <=> In(nodes, i, j, n),
         \A i, j, n : In(stack', i, j, n) => In(stack, i, j, n),
         pc' = "Return" /\ err' = "none" => pc = "Return" /\ err = "none" /\ ret' = ret,
         err' = "none" =>
           /\ err = "none" /\ (pc = "Return" => pc' = "Return")
           /\ \A i, j, n : In(stack, i, j, n) => In(stack', i, j, n)
  PROVE  Owned'
<1> DEFINE to == [p \in Slot |-> p]
<1>1. to \in [Slot -> Slot] /\ \A p \in Slot : to[p] = p
  OBVIOUS
<1> HIDE DEF to
<1>2. \A p \in Slot : \A n : Holds(p, n)' => Holds(p, n)
  BY HoldsNext, Zenon DEF Holds, Returned, IsBody
<1>3. err' = "none" => \A p \in Slot : \A n : Holds(p, n) => Holds(p, n)'
  BY HoldsNext, Zenon DEF Holds, Returned, IsBody
<1> QED
  BY <1>1, <1>2, <1>3, HandOn, SlotParts

\* The result is taken up, in slot for.
LEMMA ResultTaken ==
  ASSUME TypeInv, Owned, NodeIds' = NodeIds, pc = "Return", err = "none", err' = "none", pc' # "Return",
         NEW for \in Slot, for # Result,
         \A p \in Slot : \A n : p # Result => (Holds(p, n)' <=> Holds(p, n) \/ (p = for /\ n = ret))
  PROVE  Owned'
<1> DEFINE to == [p \in Slot |-> IF p = Result THEN for ELSE p]
<1>1. to \in [Slot -> Slot] /\ to[Result] = for /\ \A p \in Slot : p # Result => to[p] = p
  BY SlotParts
<1> HIDE DEF to
<1>2. \A n : ~Holds(Result, n)' /\ (Holds(Result, n) <=> n = ret)
  BY HoldsNext, SlotParts DEF Holds, Returned
<1>3. \A q \in Slot : \A n : Holds(q, n)' => \E p \in Slot : Holds(p, n) /\ q = to[p]
  BY <1>1, <1>2, SlotParts
<1>4. \A p \in Slot : \A n : Holds(p, n) => Holds(to[p], n)'
  BY <1>1, <1>2, SlotParts
<1> QED
  BY <1>1, <1>3, <1>4, HandOn

\* A new node without kids is the result.
LEMMA ResultMade ==
  ASSUME TypeInv, Owned, pc # "Return", pc' = "Return", err = "none", err' = "none", lines' = lines,
         NEW e, nodes' = Append(nodes, e), e.kids = <<>>, ret' = Len(nodes) + 1,
         \A i, j, n : In(stack', i, j, n) <=> In(stack, i, j, n)
  PROVE  Owned'
<1> DEFINE to == [p \in Slot |-> p]
<1>1. to \in [Slot -> Slot] /\ \A p \in Slot : to[p] = p
  OBVIOUS
<1> HIDE DEF to
<1>2. nodes \in Seq(Node(NodeIds))
  BY FrameKids
<1>3. \A i, j, n : In(nodes', i, j, n) <=> In(nodes, i, j, n)
  BY <1>2, InAppend
<1>4. \A n : n \in NodeIds' <=> n \in NodeIds \/ n = Len(nodes) + 1
  <2>1. Len(nodes) \in Nat /\ Len(nodes') = Len(nodes) + 1
    BY OneMore
  <2> QED
    BY <2>1 DEF NodeIds
<1>5. Len(nodes) + 1 \notin NodeIds
  BY <1>2, LenProperties DEF NodeIds
<1>6. \A q \in Slot : \A n : Holds(q, n)' <=> Holds(q, n) \/ (q = Result /\ n = Len(nodes) + 1)
  BY <1>3, HoldsNext, SlotParts, Zenon DEF Holds, Returned, IsBody
<1> QED
  BY <1>1, <1>4, <1>5, <1>6, HandOn, SlotParts

LEMMA NodeHolds ==
  ASSUME TypeInv, NEW e, nodes' = Append(nodes, e), NEW p \in Slot, NEW n, p[1] = "nodes"
  PROVE  Holds(p, n)' <=>
           Holds(p, n) \/ (p[2] = Len(nodes) + 1 /\ p[3] \in 1 .. Len(e.kids) /\ e.kids[p[3]] = n)
<1>1. PICK i, j : p[2] = i /\ p[3] = j
  OBVIOUS
<1>2. In(nodes', i, j, n) <=> In(nodes, i, j, n) \/ (i = Len(nodes) + 1 /\ j \in 1 .. Len(e.kids) /\ e.kids[j] = n)
  BY InAppend, FrameKids
<1>3. p # Result /\ p[1] # "stack" /\ p[1] # "lines"
  BY SlotParts
<1>4. (Holds(p, n)' <=> In(nodes', i, j, n)) /\ (Holds(p, n) <=> In(nodes, i, j, n))
  BY <1>1, <1>3, HoldsNext, Zenon DEF Holds
<1> QED
  BY <1>1, <1>2, <1>4, Zenon

\* What the call on top has, and the result after it, become the kids of the new node e, and the
\* node goes to slot for.
LEMMA KidsTaken ==
  ASSUME TypeInv, Owned, pc = "Return", err = "none", err' = "none", stack # <<>>,
         NEW e, nodes' = Append(nodes, e),
         e.kids = Append(Top.kids, ret),
         NEW for \in Slot, for[1] # "nodes",
         \A p \in Slot : \A n : p[1] # "nodes" =>
           (Holds(p, n)' <=> \/ Holds(p, n) /\ p # Result /\ ~(p[1] = "stack" /\ p[2] = Len(stack))
                             \/ p = for /\ n = Len(nodes) + 1)
  PROVE  Owned'
<1>p. PICK k, m, l : k = Len(nodes) /\ m = Len(stack) /\ l = Len(Top.kids)
  OBVIOUS
<1> DEFINE to == [p \in Slot |-> IF p = Result THEN SlotOf("nodes", k + 1, l + 1)
                                 ELSE IF p[1] = "stack" /\ p[2] = m THEN SlotOf("nodes", k + 1, p[3]) ELSE p]
           kids == Top.kids
<1>n. k + 1 \in Nat /\ l + 1 \in Nat /\ m \in Nat
  BY <1>p, FrameKids, LenProperties, FrontLast
<1>0. /\ nodes \in Seq(Node(NodeIds)) /\ stack \in Seq(Frame(NodeIds)) /\ kids \in Seq(NodeIds)
      /\ k \in Nat /\ m \in Nat \ {0} /\ l \in Nat /\ ret \in NodeIds
  BY <1>p, FrameKids, LenProperties, FrontLast DEF TypeInv, TypeOK, NodeIds
<1>1. /\ Len(e.kids) = l + 1 /\ e.kids[l + 1] = ret
      /\ \A j \in 1 .. l : e.kids[j] = kids[j]
  BY <1>0, <1>p, AppendLast
<1>2. \A p \in Slot : \A n : p[1] = "nodes" =>
        (Holds(p, n)' <=> Holds(p, n) \/ (p[2] = k + 1 /\ p[3] \in 1 .. l + 1 /\ e.kids[p[3]] = n))
  <2> SUFFICES ASSUME NEW p \in Slot, NEW n, p[1] = "nodes"
               PROVE  Holds(p, n)' <=> Holds(p, n) \/ (p[2] = k + 1 /\ p[3] \in 1 .. l + 1 /\ e.kids[p[3]] = n)
    OBVIOUS
  <2>1. Holds(p, n)' <=>
           Holds(p, n) \/ (p[2] = Len(nodes) + 1 /\ p[3] \in 1 .. Len(e.kids) /\ e.kids[p[3]] = n)
    BY NodeHolds
  <2>2. Len(nodes) + 1 = k + 1 /\ Len(e.kids) = l + 1
    BY <1>1, <1>p
  <2> QED
    BY <2>1, <2>2, Zenon
<1>3. \A p \in Slot : \A n : p[1] = "stack" /\ p[2] = m => (Holds(p, n) <=> p[3] \in 1 .. l /\ kids[p[3]] = n)
  <2>1. \A j, n : In(stack, m, j, n) <=> j \in 1 .. l /\ kids[j] = n
    BY <1>0, <1>p, FrameKids DEF In
  <2> QED
    BY <2>1, SlotParts DEF Holds
<1>4. \A n : Holds(Result, n) <=> n = ret
  BY SlotParts DEF Holds, Returned
<1> HIDE DEF kids
<1>5. /\ to \in [Slot -> Slot] /\ to[Result] = SlotOf("nodes", k + 1, l + 1)
      /\ \A p \in Slot : p[1] = "stack" /\ p[2] = m => to[p] = SlotOf("nodes", k + 1, p[3])
      /\ \A p \in Slot : p # Result /\ ~(p[1] = "stack" /\ p[2] = m) => to[p] = p
  BY <1>n, SlotParts, SlotMade
<1> HIDE DEF to
<1>6. \A j \in 1 .. l + 1 : j \in 1 .. l \/ j = l + 1
  BY <1>0
<1>7. \A n : n \in NodeIds' <=> n \in NodeIds \/ n = k + 1
  <2>1. Len(nodes') = k + 1
    BY <1>p, OneMore
  <2> QED
    BY <1>0, <1>p, <2>1 DEF NodeIds
<1>8. k + 1 \notin NodeIds
  BY <1>0, <1>p DEF NodeIds
<1>9. ASSUME NEW q \in Slot, NEW n, Holds(q, n)'
      PROVE  (n \notin NodeIds /\ q = for) \/ \E p \in Slot : Holds(p, n) /\ q = to[p]
  <2>1. CASE q[1] # "nodes"
    BY <1>5, <1>8, <1>9, <1>p, <2>1
  <2>2. CASE q[1] = "nodes" /\ Holds(q, n)
    <3>1. q # Result /\ q[1] # "stack"
      BY <2>2, SlotParts
    <3> QED
      BY <1>5, <2>2, <3>1
  <2>3. CASE q[1] = "nodes" /\ q[2] = k + 1 /\ q[3] \in 1 .. l /\ e.kids[q[3]] = n
    <3> DEFINE p == SlotOf("stack", m, q[3])
    <3>0. q[3] \in Nat
      BY <1>0, <2>3
    <3>1. p \in Slot /\ p[1] = "stack" /\ p[2] = m /\ p[3] = q[3]
      <4>1. ASSUME NEW i \in Nat, NEW j \in Nat
            PROVE  LET s == SlotOf("stack", i, j)
                   IN  s \in Slot /\ s[1] = "stack" /\ s[2] = i /\ s[3] = j
        BY SlotMade
      <4> QED
        BY <1>n, <3>0, <4>1
    <3> HIDE DEF p
    <3>2. Holds(p, n)
      BY <1>1, <1>3, <2>3, <3>1
    <3>3. to[p] = q
      BY <1>5, <2>3, <3>1, SlotParts
    <3> QED
      BY <3>1, <3>2, <3>3
  <2>4. CASE q[1] = "nodes" /\ q[2] = k + 1 /\ q[3] = l + 1 /\ e.kids[q[3]] = n
    BY <1>1, <1>4, <1>5, <2>4, SlotParts
  <2> QED
    BY <1>2, <1>6, <1>9, <2>1, <2>2, <2>3, <2>4
<1>10. ASSUME NEW p \in Slot, NEW n, Holds(p, n)
       PROVE  Holds(to[p], n)'
  <2>1. CASE p = Result
    <3> DEFINE q == SlotOf("nodes", k + 1, l + 1)
    <3>1. q \in Slot /\ q[1] = "nodes" /\ q[2] = k + 1 /\ q[3] = l + 1
      BY <1>n, SlotParts, SlotMade
    <3> HIDE DEF q
    <3>2. to[p] = q
      BY <1>5, <2>1 DEF q
    <3>3. l + 1 \in 1 .. l + 1
      BY <1>0
    <3> QED
      BY <1>1, <1>2, <1>4, <1>10, <2>1, <3>1, <3>2, <3>3
  <2>2. CASE p[1] = "stack" /\ p[2] = m
    <3> DEFINE q == SlotOf("nodes", k + 1, p[3])
    <3>1. q \in Slot /\ q[1] = "nodes" /\ q[2] = k + 1 /\ q[3] = p[3]
      BY <1>n, SlotParts, SlotMade
    <3> HIDE DEF q
    <3>2. to[p] = q
      BY <1>5, <2>2 DEF q
    <3>3. p[3] \in 1 .. l /\ kids[p[3]] = n
      BY <1>3, <1>10, <2>2
    <3>4. p[3] \in 1 .. l + 1
      BY <1>0, <3>3
    <3> QED
      BY <1>1, <1>2, <3>1, <3>2, <3>3, <3>4
  <2>3. CASE p # Result /\ ~(p[1] = "stack" /\ p[2] = m)
    <3>1. to[p] = p
      BY <1>5, <2>3
    <3>2. Holds(p, n)'
      BY <1>2, <1>10, <1>p, <2>3
    <3> QED
      BY <3>1, <3>2
  <2> QED
    BY <2>1, <2>2, <2>3
<1>11. \A n \in NodeIds' : n \notin NodeIds => Holds(for, n)'
  BY <1>7, <1>p
<1> QED
  BY <1>9, <1>10, <1>11, <1>5, HandOn

-----------------------------------------------------------------------------
\* A call is made: it has no nodes yet.
LEMMA CallOwnsNothing ==
  ASSUME NEW S, NEW s \in Seq(S), NEW f, f.kids = <<>>
  PROVE  /\ \A i, j, n : In(Append(s, f), i, j, n) <=> In(s, i, j, n)
         /\ \A m \in Nat : Fits(s, m) => Fits(Append(s, f), m)
         /\ Append(s, f) # <<>> /\ Last(Append(s, f)) = f /\ Append(s, f) \in Seq(S \cup {f})
<1>1. \A i, j, n : In(Append(s, f), i, j, n) <=> In(s, i, j, n)
  BY InAppend
<1>2. \A m \in Nat : FrameFits(f, m)
  BY DEF FrameFits
<1>3. \A m \in Nat : Fits(s, m) => Fits(Append(s, f), m)
  BY <1>2, FitsAppend
<1>4. s \in Seq(S \cup {f}) /\ f \in S \cup {f}
  BY SeqMonotonic
<1> QED
  BY <1>1, <1>3, <1>4, AppendLast

\* A step on which no owner changes
LEMMA QuietOwned ==
  ASSUME TypeInv, OwnedInv, GetTok \/ UNCHANGED lexVars, nodes' = nodes, lines' = lines,
         \A i, j, n : In(stack', i, j, n) <=> In(stack, i, j, n), Fits(stack', Len(toks')),
         stack' # <<>> => Len(toks') >= 2,
         pc' \in {"Identifier", "Args"} => Last(stack').kids = <<>>,
         pc' # "Return" \/ err' # "none", err' = "none" => err = "none" /\ pc # "Return"
  PROVE  OwnedInv'
<1>1. \A i, j, n : In(nodes', i, j, n) <=> In(nodes, i, j, n)
  OBVIOUS
<1>2. NodeIds' = NodeIds
  BY DEF NodeIds
<1>3. Owned'
  BY <1>1, <1>2, NothingHanded DEF OwnedInv
<1>4. KidsFit'
  BY NoNodeFits DEF OwnedInv
<1> QED
  BY <1>3, <1>4 DEF OwnedInv

\* ... and the stack does not, either
LEMMA SameStackOwned ==
  ASSUME TypeInv, OwnedInv, GetTok \/ UNCHANGED lexVars, nodes' = nodes, lines' = lines, stack' = stack,
         pc' \in {"Identifier", "Args"} => Top.kids = <<>>,
         pc' # "Return" \/ err' # "none", err' = "none" => err = "none" /\ pc # "Return"
  PROVE  OwnedInv'
<1>1. /\ Fits(stack', Len(toks')) /\ (stack' # <<>> => Len(toks') >= 2)
  BY StillFits DEF OwnedInv, KidsFit
<1>2. \A i, j, n : In(stack', i, j, n) <=> In(stack, i, j, n)
  OBVIOUS
<1> QED
  BY <1>1, <1>2, QuietOwned DEF Top

LEMMA FailOwned ==
  ASSUME TypeInv, OwnedInv, NEW e \in Error, Fail(e)
  PROVE  OwnedInv'
<1>1. err' # "none" /\ pc' = "Return"
  BY DEF Fail, Error
<1> QED
  BY <1>1, SameStackOwned DEF Fail, defVars

LEMMA ModuleOwned ==
  ASSUME TypeInv, OwnedInv, Construct \/ ParseModule \/ ModuleError
  PROVE  OwnedInv'
<1>f. "unexpected token in module" \in Error
  BY DEF Error
<1>1. CASE ModuleUnexpected
  BY <1>1, <1>f, FailOwned DEF ModuleUnexpected
<1>2. CASE Construct \/ ModuleEnd \/ ModuleLineBreak \/ ModuleDefinition \/ ModuleError
  BY <1>2, SameStackOwned
     DEF Construct, ModuleEnd, ModuleLineBreak, ModuleDefinition, ModuleError, defVars, TypeInv, TopOK
<1> QED
  BY <1>1, <1>2 DEF ParseModule

LEMMA NewFrameOwned ==
  ASSUME NEW fn
  PROVE  NewFrame(fn).kids = <<>> /\ NewFrame(fn).fn = fn
BY DEF NewFrame

LEMMA PrototypeOwned ==
  ASSUME TypeInv, OwnedInv, ParsePrototype
  PROVE  OwnedInv'
<1>f. {"expected a type delimiter", "expected a type", "expected a function arrow"} \subseteq Error
  BY DEF Error
<1>1. CASE PrototypeArg
  BY <1>1, SameStackOwned DEF PrototypeArg, TypeInv, TopOK
<1>2. CASE PrototypeDelimiter \/ PrototypeType
  <2>1. CASE \E e \in Error : Fail(e)
    BY <2>1, FailOwned
  <2>2. CASE ~ \E e \in Error : Fail(e)
    BY <1>2, <1>f, <2>2, SameStackOwned DEF PrototypeDelimiter, PrototypeType, defVars, TypeInv, TopOK
  <2> QED
    BY <2>1, <2>2
<1>3. CASE PrototypeArrow
  <2>1. CASE CurTok = "func_arrow"
    <3>1. /\ GetTok /\ stack' = Append(stack, NewFrame("Expression")) /\ pc' = "Primary" /\ pc = "Arg"
          /\ nodes' = nodes /\ lines' = lines /\ err' = err
      BY <1>3, <2>1 DEF PrototypeArrow, CallExpression, Push, defVars
    <3>2. Len(toks) # 0
      BY <3>1, EmptySeq DEF TypeInv, TypeOK
    <3>3. Len(toks') \in Nat /\ Len(toks') >= 2 /\ Fits(stack, Len(toks'))
      BY <3>1, <3>2, StillFits DEF OwnedInv
    <3>4. /\ \A i, j, n : In(stack', i, j, n) <=> In(stack, i, j, n)
          /\ Fits(stack', Len(toks'))
      BY <3>1, <3>3, CallOwnsNothing, NewFrameOwned, FrameKids
    <3>5. err = "none"
      BY <3>1 DEF TypeInv, TopOK
    <3> QED
      BY <3>1, <3>3, <3>4, <3>5, QuietOwned
  <2>2. CASE CurTok # "func_arrow"
    BY <1>3, <1>f, <2>2, FailOwned DEF PrototypeArrow
  <2> QED
    BY <2>1, <2>2
<1> QED
  BY <1>1, <1>2, <1>3 DEF ParsePrototype

\* A new node without kids, returned, and the stack as it was or without a call that had none
LEMMA LeafOwned ==
  ASSUME TypeInv, OwnedInv, GetTok \/ UNCHANGED lexVars, err = "none", pc # "Return",
         NEW e, ReturnNew(e), e.kids = <<>>, UNCHANGED <<err, lines>>,
         stack' = stack \/ (stack # <<>> /\ Top.kids = <<>> /\ stack' = Front(stack))
  PROVE  OwnedInv'
<1>1. nodes' = Append(nodes, e) /\ ret' = Len(nodes) + 1 /\ pc' = "Return"
  BY DEF ReturnNew
<1>2. \A i, j, n : In(stack', i, j, n) <=> In(stack, i, j, n)
  BY FrameKids, InFront DEF Top
<1>3. Fits(stack', Len(toks')) /\ (stack' # <<>> => Len(toks') >= 2) /\ Len(e.kids) <= Len(toks')
  BY StillFits, EmptySeq DEF OwnedInv, KidsFit
<1>4. Owned'
  BY <1>1, <1>2, ResultMade DEF OwnedInv
<1>5. KidsFit'
  BY <1>1, <1>3, NodeFits DEF OwnedInv
<1> QED
  BY <1>4, <1>5 DEF OwnedInv

LEMMA NewNodeKids ==
  ASSUME NEW k, NEW v, NEW kids, NEW a, NEW b
  PROVE  NewNode(k, v, kids, a, b).kids = kids
BY DEF NewNode

LEMMA PrimaryOwned ==
  ASSUME TypeInv, OwnedInv, ParsePrimary
  PROVE  OwnedInv'
<1>0. stack \in Seq(Frame(NodeIds)) /\ pc = "Primary" /\ stack # <<>> /\ err = "none"
  BY DEF ParsePrimary, PrimaryUnknown, NumberExpr, ParenExpr, IdentifierExpr, TypeInv, TypeOK, TopOK
<1>t. GetTok => Len(toks') \in Nat /\ Len(toks') >= 2 /\ Fits(stack, Len(toks'))
  BY <1>0, StillFits DEF OwnedInv, KidsFit
<1>1. CASE PrimaryUnknown
  <2>1. "expected an expression" \in Error
    BY DEF Error
  <2> QED
    BY <1>1, <2>1, FailOwned DEF PrimaryUnknown
<1>2. CASE NumberExpr
  BY <1>0, <1>2, LeafOwned, NewNodeKids DEF NumberExpr, defVars
<1>3. CASE ParenExpr
  <2>1. /\ GetTok /\ stack' = Append(Append(stack, NewFrame("Paren")), NewFrame("Expression")) /\ pc' = "Primary"
        /\ nodes' = nodes /\ lines' = lines /\ err' = err
    BY <1>3 DEF ParenExpr, defVars
  <2> DEFINE s == Append(stack, NewFrame("Paren"))
             S == Frame(NodeIds) \cup {NewFrame("Paren")}
  <2>2. /\ \A i, j, n : In(s, i, j, n) <=> In(stack, i, j, n)
        /\ Fits(s, Len(toks')) /\ s \in Seq(S)
    BY <1>0, <1>t, <2>1, CallOwnsNothing, NewFrameOwned
  <2> HIDE DEF s, S
  <2>3. /\ \A i, j, n : In(stack', i, j, n) <=> In(s, i, j, n)
        /\ Fits(stack', Len(toks'))
    BY <1>t, <2>1, <2>2, CallOwnsNothing, NewFrameOwned DEF s
  <2> QED
    BY <1>0, <1>t, <2>1, <2>2, <2>3, QuietOwned
<1>4. CASE IdentifierExpr
  <2> DEFINE f == [NewFrame("Call") EXCEPT !.val = identifier_str, !.first = Len(toks)]
  <2>1. /\ GetTok /\ stack' = Append(stack, f) /\ pc' = "Identifier"
        /\ nodes' = nodes /\ lines' = lines /\ err' = err
    BY <1>4 DEF IdentifierExpr, Push, defVars
  <2>2. f.kids = <<>>
    BY DEF NewFrame
  <2> HIDE DEF f
  <2>3. /\ \A i, j, n : In(stack', i, j, n) <=> In(stack, i, j, n)
        /\ Fits(stack', Len(toks')) /\ Last(stack').kids = <<>>
    BY <1>0, <1>t, <2>1, <2>2, CallOwnsNothing
  <2> QED
    BY <1>0, <1>t, <2>1, <2>3, QuietOwned
<1> QED
  BY <1>1, <1>2, <1>3, <1>4 DEF ParsePrimary

\* A step that takes up the result, in the frame that replaces the one on top or in one more
LEMMA ResultOwned ==
  ASSUME TypeInv, OwnedInv, GetTok \/ UNCHANGED lexVars, UNCHANGED <<nodes, err, lines>>,
         pc = "Return", err = "none", pc' \notin {"Return", "Identifier", "Args"},
         Fits(stack', Len(toks')), stack' # <<>> => Len(toks') >= 2,
         NEW a \in Nat, NEW b \in Nat,
         \A i, j, n : In(stack', i, j, n) <=> In(stack, i, j, n) \/ (i = a /\ j = b /\ n = ret)
  PROVE  OwnedInv'
<1> DEFINE for == SlotOf("stack", a, b)
<1>1. for \in Slot /\ for[1] = "stack" /\ for[2] = a /\ for[3] = b /\ for # Result
  BY SlotMade, SlotParts
<1>2. \A p \in Slot : p = for <=> p[1] = "stack" /\ p[2] = a /\ p[3] = b
  BY <1>1, SlotParts
<1> HIDE DEF for
<1>3. NodeIds' = NodeIds
  BY DEF NodeIds
<1>4. ASSUME NEW p \in Slot, NEW n, p # Result
      PROVE  Holds(p, n)' <=> Holds(p, n) \/ (p = for /\ n = ret)
  <2>1. CASE p[1] = "stack"
    <3>1. PICK i, j : p[2] = i /\ p[3] = j
      OBVIOUS
    <3>2. Holds(p, n)' <=> In(stack', i, j, n)
      BY <1>4, <2>1, <3>1, HoldsNext, Zenon
    <3>3. Holds(p, n) <=> In(stack, i, j, n)
      BY <1>4, <2>1, <3>1, Zenon DEF Holds
    <3>4. p = for <=> i = a /\ j = b
      BY <1>2, <2>1, <3>1
    <3>5. In(stack', i, j, n) <=> In(stack, i, j, n) \/ (i = a /\ j = b /\ n = ret)
      OBVIOUS
    <3> QED
      BY <3>2, <3>3, <3>4, <3>5, Zenon
  <2>2. CASE p[1] # "stack"
    <3>1. Holds(p, n)' <=> Holds(p, n)
      BY <1>4, <2>2, HoldsNext, Zenon DEF Holds, In, IsBody
    <3> QED
      BY <1>1, <2>2, <3>1
  <2> QED
    BY <2>1, <2>2
<1>5. Owned'
  BY <1>1, <1>3, <1>4, ResultTaken DEF OwnedInv
<1>6. KidsFit'
  BY NoNodeFits DEF OwnedInv
<1> QED
  BY <1>5, <1>6 DEF OwnedInv

LEMMA FrameUpdates ==
  ASSUME NEW ids, NEW f \in Frame(ids), NEW fn, NEW val, NEW kids
  PROVE  /\ [f EXCEPT !.kids = kids].kids = kids /\ [f EXCEPT !.kids = kids].fn = f.fn
         /\ [f EXCEPT !.fn = fn].kids = f.kids /\ [f EXCEPT !.fn = fn].fn = fn
         /\ [f EXCEPT !.fn = fn, !.val = val].kids = f.kids /\ [f EXCEPT !.fn = fn, !.val = val].fn = fn
         /\ [f EXCEPT !.fn = fn, !.val = val, !.kids = kids].kids = kids
         /\ [f EXCEPT !.fn = fn, !.val = val, !.kids = kids].fn = fn
BY DEF Frame

LEMMA OperandFrame ==
  ASSUME NEW fn, NEW prec, NEW kids
  PROVE  /\ [NewFrame(fn) EXCEPT !.kids = kids].kids = kids /\ [NewFrame(fn) EXCEPT !.kids = kids].fn = fn
         /\ [NewFrame(fn) EXCEPT !.prec = prec, !.kids = kids].kids = kids
         /\ [NewFrame(fn) EXCEPT !.prec = prec, !.kids = kids].fn = fn
BY DEF NewFrame

LEMMA OneKid == \A n : Len(<<n>>) = 1 /\ <<n>>[1] = n
OBVIOUS

\* A call taken up again, with one more node than it had
LEMMA OneKidMore ==
  ASSUME NEW S, NEW kids \in Seq(S), NEW r
  PROVE  /\ Len(kids) \in Nat /\ Len(Append(kids, r)) = Len(kids) + 1
         /\ \A j, n : j \in 1 .. Len(Append(kids, r)) /\ Append(kids, r)[j] = n <=>
              (j \in 1 .. Len(kids) /\ kids[j] = n) \/ (j = Len(kids) + 1 /\ n = r)
<1> DEFINE t == Append(kids, r)
           k == Len(kids)
<1>1. kids \in Seq(S \cup {r}) /\ r \in S \cup {r}
  BY SeqMonotonic
<1>2. /\ k \in Nat /\ Len(t) = k + 1 /\ t[k + 1] = r
      /\ \A i \in 1 .. k : t[i] = kids[i]
  BY <1>1, AppendLast, LenProperties
<1> HIDE DEF t, k
<1>3. \A j : j \in 1 .. k + 1 <=> j \in 1 .. k \/ j = k + 1
  BY <1>2
<1>4. k + 1 \notin 1 .. k
  BY <1>2
<1>5. \A j, n : j \in 1 .. Len(t) /\ t[j] = n <=> (j \in 1 .. k /\ kids[j] = n) \/ (j = k + 1 /\ n = r)
  BY <1>2, <1>3, <1>4
<1> QED
  BY <1>2, <1>5 DEF t, k

LEMMA ReplacedOwned ==
  ASSUME TypeInv, stack # <<>>, NEW f, f.kids = Append(Top.kids, ret)
  PROVE  \A i, j, n : In(Append(Front(stack), f), i, j, n) <=>
           In(stack, i, j, n) \/ (i = Len(stack) /\ j = Len(Top.kids) + 1 /\ n = ret)
<1> DEFINE t == Append(Front(stack), f)
<1>1. stack \in Seq(Frame(NodeIds)) /\ Top.kids \in Seq(NodeIds)
  BY FrameKids
<1>2. \A i, j, n : In(t, i, j, n) <=>
        In(Front(stack), i, j, n) \/ (i = Len(stack) /\ j \in 1 .. Len(f.kids) /\ f.kids[j] = n)
  BY <1>1, InReplaced
<1>3. \A i, j, n : In(stack, i, j, n) <=>
        In(Front(stack), i, j, n) \/ (i = Len(stack) /\ j \in 1 .. Len(Top.kids) /\ Top.kids[j] = n)
  BY <1>1, InFront DEF Top
<1>4. \A j, n : j \in 1 .. Len(f.kids) /\ f.kids[j] = n <=>
        (j \in 1 .. Len(Top.kids) /\ Top.kids[j] = n) \/ (j = Len(Top.kids) + 1 /\ n = ret)
  BY <1>1, OneKidMore
<1> HIDE DEF t
<1>5. \A i, j, n : In(t, i, j, n) <=>
        In(stack, i, j, n) \/ (i = Len(stack) /\ j = Len(Top.kids) + 1 /\ n = ret)
  <2> SUFFICES ASSUME NEW i, NEW j, NEW n
               PROVE  In(t, i, j, n) <=>
                        In(stack, i, j, n) \/ (i = Len(stack) /\ j = Len(Top.kids) + 1 /\ n = ret)
    OBVIOUS
  <2>1. In(t, i, j, n) <=>
          In(Front(stack), i, j, n) \/ (i = Len(stack) /\ j \in 1 .. Len(f.kids) /\ f.kids[j] = n)
    BY <1>2
  <2>2. In(stack, i, j, n) <=>
          In(Front(stack), i, j, n) \/ (i = Len(stack) /\ j \in 1 .. Len(Top.kids) /\ Top.kids[j] = n)
    BY <1>3
  <2>3. j \in 1 .. Len(f.kids) /\ f.kids[j] = n <=>
          (j \in 1 .. Len(Top.kids) /\ Top.kids[j] = n) \/ (j = Len(Top.kids) + 1 /\ n = ret)
    BY <1>4
  <2> QED
    BY <2>1, <2>2, <2>3, Zenon
<1> QED
  BY <1>5 DEF t

\* The frame on top replaced by one that fits.
LEMMA ReplacedFits ==
  ASSUME TypeInv, stack # <<>>, NEW m, Fits(Front(stack), m), NEW f, FrameFits(f, m)
  PROVE  Fits(Append(Front(stack), f), m) /\ Append(Front(stack), f) \in Seq(Frame(NodeIds) \cup {f})
<1>1. Front(stack) \in Seq(Frame(NodeIds)) /\ Front(stack) \in Seq(Frame(NodeIds) \cup {f})
  BY FrameKids, SeqMonotonic
<1> QED
  BY <1>1, FitsAppend, AppendLast

LEMMA ExpressionOwned ==
  ASSUME TypeInv, OwnedInv, ExpressionOperand
  PROVE  OwnedInv'
<1> DEFINE f == [NewFrame("BinOpRHS") EXCEPT !.kids = <<ret>>]
<1>1. /\ stack' = Append(Front(stack), f) /\ UNCHANGED <<lexVars, nodes, err, lines>> /\ pc' = "Loop"
      /\ pc = "Return" /\ err = "none" /\ stack # <<>> /\ Top.fn = "Expression"
  BY DEF ExpressionOperand, Returning, Replace, defVars
<1>2. f.kids = <<ret>> /\ f.fn = "BinOpRHS"
  BY OperandFrame
<1> HIDE DEF f
<1>3. /\ Len(toks') \in Nat /\ Len(toks') >= 2
      /\ Fits(Front(stack), Len(toks')) /\ FrameFits(Top, Len(toks'))
  BY <1>1, StillFits DEF OwnedInv, KidsFit
<1>4. Top.kids = <<>>
  BY <1>1, <1>3 DEF FrameFits
<1>5. f.kids = Append(Top.kids, ret) /\ Len(Top.kids) + 1 = 1
  BY <1>2, <1>4
<1>6. \A i, j, n : In(stack', i, j, n) <=> In(stack, i, j, n) \/ (i = Len(stack) /\ j = 1 /\ n = ret)
  BY <1>1, <1>5, ReplacedOwned
<1>7. FrameFits(f, Len(toks'))
  BY <1>2, <1>3, OneKid DEF FrameFits
<1>8. Fits(stack', Len(toks'))
  BY <1>1, <1>3, <1>7, ReplacedFits
<1>9. Len(stack) \in Nat
  BY FrameKids, LenProperties
<1> QED
  BY <1>1, <1>3, <1>6, <1>8, <1>9, ResultOwned

LEMMA TighterOwned ==
  ASSUME TypeInv, OwnedInv, BinOpOperand, NextBindsTighter(Top.val)
  PROVE  OwnedInv'
<1> DEFINE f == [Top EXCEPT !.fn = "Merge"]
           g == [NewFrame("BinOpRHS") EXCEPT !.prec = RecursionPrec(Top.val), !.kids = <<ret>>]
           s == Append(Front(stack), f)
<1>1. /\ stack' = Append(s, g) /\ UNCHANGED <<lexVars, nodes, err, lines>> /\ pc' = "Loop"
      /\ pc = "Return" /\ err = "none" /\ stack # <<>> /\ Top.fn = "RHS"
  BY Zenon DEF BinOpOperand, Returning, ReplaceAndPush, defVars
<1>2. /\ g.kids = <<ret>> /\ g.fn = "BinOpRHS"
      /\ f.kids = Top.kids /\ f.fn = "Merge"
  BY <1>1, OperandFrame, FrameUpdates, FrameKids
<1> HIDE DEF f, g
<1>3. /\ Len(toks') \in Nat /\ Len(toks') >= 2
      /\ Fits(Front(stack), Len(toks')) /\ FrameFits(Top, Len(toks'))
  BY <1>1, StillFits DEF OwnedInv, KidsFit
<1>4. FrameFits(f, Len(toks')) /\ FrameFits(g, Len(toks'))
  BY <1>2, <1>3, OneKid DEF FrameFits
<1>5. Fits(s, Len(toks')) /\ s \in Seq(Frame(NodeIds) \cup {f})
  BY <1>1, <1>3, <1>4, ReplacedFits
<1>6. \A i, j, n : In(s, i, j, n) <=> In(stack, i, j, n)
  BY <1>1, <1>2, InReplaced, FrameKids DEF Top
<1>7. Len(s) \in Nat
  BY <1>5, LenProperties
<1> HIDE DEF s
<1>8. Fits(stack', Len(toks'))
  BY <1>1, <1>4, <1>5, FitsAppend
<1>9. \A i, j, n : In(stack', i, j, n) <=> In(s, i, j, n) \/ (i = Len(s) + 1 /\ j = 1 /\ n = ret)
  <2>1. \A j, n : j \in 1 .. Len(g.kids) /\ g.kids[j] = n <=> j = 1 /\ n = ret
    BY <1>2, OneKid
  <2>2. \A i, j, n : In(stack', i, j, n) <=> In(s, i, j, n) \/ (i = Len(s) + 1 /\ j \in 1 .. Len(g.kids) /\ g.kids[j] = n)
    BY <1>1, <1>5, InAppend
  <2> QED
    BY <2>1, <2>2
<1>10. \A i, j, n : In(stack', i, j, n) <=> In(stack, i, j, n) \/ (i = Len(s) + 1 /\ j = 1 /\ n = ret)
  BY <1>6, <1>9, Zenon
<1>11. Len(s) + 1 \in Nat /\ 1 \in Nat
  BY <1>7
<1> QED
  BY <1>1, <1>3, <1>8, <1>10, <1>11, ResultOwned

\* The result and what the call on top has become the kids of a new node.
LEMMA NodeOwned ==
  ASSUME TypeInv, OwnedInv, GetTok \/ UNCHANGED lexVars, UNCHANGED <<err, lines>>,
         pc = "Return", err = "none", stack # <<>>, pc' \notin {"Identifier", "Args"},
         NEW e, nodes' = Append(nodes, e), e.kids = Append(Top.kids, ret),
         Len(e.kids) <= Len(toks'),
         \/ pc' = "Return" /\ ret' = Len(nodes) + 1 /\ stack' = Front(stack)
         \/ /\ pc' # "Return"
            /\ \E f : stack' = Append(Front(stack), f) /\ f.kids = <<Len(nodes) + 1>> /\ f.fn = "BinOpRHS"
  PROVE  OwnedInv'
<1>p. PICK m, new : m = Len(stack) /\ new = Len(nodes) + 1
  OBVIOUS
<1>0. stack \in Seq(Frame(NodeIds)) /\ m \in Nat /\ new \in Nat
  BY <1>p, FrameKids, LenProperties
<1>t. /\ Len(toks') \in Nat /\ Len(toks') >= 2
      /\ Fits(Front(stack), Len(toks')) /\ FrameFits(Top, Len(toks'))
  BY StillFits DEF OwnedInv, KidsFit
<1>s. /\ \A i, j, n : In(stack, i, j, n) <=>
           In(Front(stack), i, j, n) \/ (i = m /\ j \in 1 .. Len(Top.kids) /\ Top.kids[j] = n)
      /\ \A i, j, n : In(Front(stack), i, j, n) => i # m
  BY <1>0, <1>p, InFront DEF Top
<1>f. \A i, j, n : In(Front(stack), i, j, n) <=> In(stack, i, j, n) /\ i # m
  <2> SUFFICES ASSUME NEW i, NEW j, NEW n
               PROVE  In(Front(stack), i, j, n) <=> In(stack, i, j, n) /\ i # m
    OBVIOUS
  <2>1. In(stack, i, j, n) <=>
          In(Front(stack), i, j, n) \/ (i = m /\ j \in 1 .. Len(Top.kids) /\ Top.kids[j] = n)
    BY <1>s
  <2>2. In(Front(stack), i, j, n) => i # m
    BY <1>s
  <2> QED
    BY <2>1, <2>2, Zenon
<1>1. CASE pc' = "Return" /\ ret' = new /\ stack' = Front(stack)
  <2>1. Result \in Slot /\ Result[1] # "nodes"
    BY SlotParts
  <2>2. ASSUME NEW p \in Slot, NEW n, p[1] # "nodes"
        PROVE  Holds(p, n)' <=> \/ Holds(p, n) /\ p # Result /\ ~(p[1] = "stack" /\ p[2] = m)
                                \/ p = Result /\ n = new
    <3>1. CASE p[1] = "stack"
      <4>1. PICK i, j : p[2] = i /\ p[3] = j
        OBVIOUS
      <4>2. p # Result
        BY <3>1, SlotParts
      <4>3. (Holds(p, n)' <=> In(stack', i, j, n)) /\ (Holds(p, n) <=> In(stack, i, j, n))
        BY <3>1, <4>1, <4>2, HoldsNext, Zenon DEF Holds
      <4>4. In(Front(stack), i, j, n) <=> In(stack, i, j, n) /\ i # m
        BY <1>f
      <4> QED
        BY <1>1, <3>1, <4>1, <4>2, <4>3, <4>4, Zenon
    <3>2. CASE p = Result
      BY <1>1, <3>2, SlotParts, HoldsNext
    <3>3. CASE p # Result /\ p[1] # "stack"
      <4>1. p # Result
        BY <3>3
      <4>2. Holds(p, n)' <=> Holds(p, n)
        BY <2>2, <3>3, HoldsNext, Zenon DEF Holds, IsBody
      <4> QED
        BY <3>3, <4>1, <4>2
    <3> QED
      BY <2>2, <3>1, <3>2, <3>3
  <2>3. Owned'
    BY <1>p, <2>1, <2>2, KidsTaken DEF OwnedInv
  <2>4. KidsFit'
    BY <1>1, <1>t, NodeFits DEF OwnedInv
  <2> QED
    BY <2>3, <2>4 DEF OwnedInv
<1>2. CASE /\ pc' # "Return"
           /\ \E f : stack' = Append(Front(stack), f) /\ f.kids = <<new>> /\ f.fn = "BinOpRHS"
  <2>f. PICK f : stack' = Append(Front(stack), f) /\ f.kids = <<new>> /\ f.fn = "BinOpRHS"
    BY <1>2
  <2> DEFINE for == SlotOf("stack", m, 1)
  <2>1. for \in Slot /\ for[1] = "stack" /\ for[2] = m /\ for[3] = 1 /\ for # Result /\ for[1] # "nodes"
    BY <1>0, SlotMade, SlotParts
  <2>2. \A p \in Slot : p = for <=> p[1] = "stack" /\ p[2] = m /\ p[3] = 1
    BY <2>1, SlotParts
  <2> HIDE DEF for
  <2>3. \A i, j, n : In(stack', i, j, n) <=> (In(stack, i, j, n) /\ i # m) \/ (i = m /\ j = 1 /\ n = new)
    <3> SUFFICES ASSUME NEW i, NEW j, NEW n
                 PROVE  In(stack', i, j, n) <=> (In(stack, i, j, n) /\ i # m) \/ (i = m /\ j = 1 /\ n = new)
      OBVIOUS
    <3>1. In(stack', i, j, n) <=> In(Front(stack), i, j, n) \/ (i = m /\ j \in 1 .. Len(f.kids) /\ f.kids[j] = n)
      BY <1>0, <1>p, <2>f, InReplaced
    <3>2. j \in 1 .. Len(f.kids) /\ f.kids[j] = n <=> j = 1 /\ n = new
      BY <2>f, OneKid
    <3>3. In(Front(stack), i, j, n) <=> In(stack, i, j, n) /\ i # m
      BY <1>f
    <3> QED
      BY <3>1, <3>2, <3>3, Zenon
  <2>4. ASSUME NEW p \in Slot, NEW n, p[1] # "nodes"
        PROVE  Holds(p, n)' <=> \/ Holds(p, n) /\ p # Result /\ ~(p[1] = "stack" /\ p[2] = m)
                                \/ p = for /\ n = new
    <3>1. CASE p[1] = "stack"
      <4>1. PICK i, j : p[2] = i /\ p[3] = j
        OBVIOUS
      <4>2. p # Result
        BY <3>1, SlotParts
      <4>3. (Holds(p, n)' <=> In(stack', i, j, n)) /\ (Holds(p, n) <=> In(stack, i, j, n))
        BY <3>1, <4>1, <4>2, HoldsNext, Zenon DEF Holds
      <4>4. In(stack', i, j, n) <=> (In(stack, i, j, n) /\ i # m) \/ (i = m /\ j = 1 /\ n = new)
        BY <2>3
      <4>5. p = for <=> i = m /\ j = 1
        BY <2>2, <3>1, <4>1
      <4> QED
        BY <3>1, <4>1, <4>2, <4>3, <4>4, <4>5, Zenon
    <3>2. CASE p = Result
      BY <1>2, <2>1, <3>2, SlotParts, HoldsNext
    <3>3. CASE p # Result /\ p[1] # "stack"
      <4>1. p # Result /\ p # for
        BY <2>1, <3>3
      <4>2. Holds(p, n)' <=> Holds(p, n)
        BY <2>4, <3>3, HoldsNext, Zenon DEF Holds, IsBody
      <4> QED
        BY <3>3, <4>1, <4>2
    <3> QED
      BY <2>4, <3>1, <3>2, <3>3
  <2>5. Owned'
    BY <1>p, <2>1, <2>4, KidsTaken DEF OwnedInv
  <2>6. FrameFits(f, Len(toks'))
    BY <1>t, <2>f, OneKid DEF FrameFits
  <2>7. Fits(stack', Len(toks'))
    BY <1>t, <2>f, <2>6, ReplacedFits
  <2>8. KidsFit'
    BY <1>2, <1>t, <2>7, NodeFits DEF OwnedInv
  <2> QED
    BY <2>5, <2>8 DEF OwnedInv
<1> QED
  BY <1>1, <1>2, <1>p

LEMMA BinOpDoneOwned ==
  ASSUME TypeInv, OwnedInv, BinOpDone
  PROVE  OwnedInv'
<1>p. PICK m, k : m = Len(stack) /\ k = Top.kids[1]
  OBVIOUS
<1>1. /\ stack' = Front(stack) /\ UNCHANGED <<lexVars, nodes, err, lines>> /\ pc' = "Return" /\ pc = "Loop"
      /\ ret' = k /\ err = "none" /\ stack # <<>> /\ Top.fn = "BinOpRHS"
  BY <1>p DEF BinOpDone, Pop, defVars, TypeInv, TopOK
<1>2. stack \in Seq(Frame(NodeIds)) /\ m \in Nat /\ Len(Top.kids) = 1
  BY <1>1, <1>p, FrameKids, LenProperties DEF Shape, Climbing
<1>s. /\ \A i, j, n : In(stack, i, j, n) <=>
           In(Front(stack), i, j, n) \/ (i = m /\ j \in 1 .. Len(Top.kids) /\ Top.kids[j] = n)
      /\ \A i, j, n : In(Front(stack), i, j, n) => i # m
  BY <1>1, <1>2, <1>p, InFront DEF Top
<1>f. \A i, j, n : In(stack, i, j, n) <=> In(Front(stack), i, j, n) \/ (i = m /\ j = 1 /\ n = k)
  <2> SUFFICES ASSUME NEW i, NEW j, NEW n
               PROVE  In(stack, i, j, n) <=> In(Front(stack), i, j, n) \/ (i = m /\ j = 1 /\ n = k)
    OBVIOUS
  <2>1. In(stack, i, j, n) <=>
          In(Front(stack), i, j, n) \/ (i = m /\ j \in 1 .. Len(Top.kids) /\ Top.kids[j] = n)
    BY <1>s
  <2>2. j \in 1 .. Len(Top.kids) /\ Top.kids[j] = n <=> j = 1 /\ n = k
    BY <1>2, <1>p
  <2> QED
    BY <2>1, <2>2, Zenon
<1> DEFINE from == SlotOf("stack", m, 1)
           to == [p \in Slot |-> IF p = from THEN Result ELSE p]
<1>3. from \in Slot /\ from[1] = "stack" /\ from[2] = m /\ from[3] = 1 /\ from # Result /\ Result \in Slot
  BY <1>2, SlotMade, SlotParts
<1>4. \A p \in Slot : p = from <=> p[1] = "stack" /\ p[2] = m /\ p[3] = 1
  BY <1>3, SlotParts
<1> HIDE DEF from
<1>5. to \in [Slot -> Slot] /\ to[from] = Result /\ \A p \in Slot : p # from => to[p] = p
  BY <1>3
<1> HIDE DEF to
<1>6. \A n : (Holds(from, n) <=> n = k) /\ ~Holds(from, n)'
  <2> SUFFICES ASSUME NEW n PROVE (Holds(from, n) <=> n = k) /\ ~Holds(from, n)'
    OBVIOUS
  <2>1. (Holds(from, n) <=> In(stack, m, 1, n)) /\ (Holds(from, n)' <=> In(stack', m, 1, n))
    BY <1>3, HoldsNext, Zenon DEF Holds
  <2>2. (In(stack, m, 1, n) <=> In(Front(stack), m, 1, n) \/ n = k) /\ ~In(Front(stack), m, 1, n)
    BY <1>s, <1>f
  <2> QED
    BY <1>1, <2>1, <2>2, Zenon
<1>7. \A n : (Holds(Result, n)' <=> n = k) /\ ~Holds(Result, n)
  BY <1>1, <1>3, HoldsNext, SlotParts DEF Holds, Returned
<1>8. ASSUME NEW p \in Slot, NEW n, p # from, p # Result
      PROVE  Holds(p, n)' <=> Holds(p, n)
  <2>1. CASE p[1] = "stack"
    <3>1. PICK i, j : p[2] = i /\ p[3] = j
      OBVIOUS
    <3>2. (Holds(p, n)' <=> In(stack', i, j, n)) /\ (Holds(p, n) <=> In(stack, i, j, n))
      BY <1>8, <2>1, <3>1, HoldsNext, Zenon DEF Holds
    <3>3. In(stack, i, j, n) <=> In(Front(stack), i, j, n) \/ (i = m /\ j = 1 /\ n = k)
      BY <1>f
    <3>4. ~(i = m /\ j = 1)
      BY <1>4, <1>8, <2>1, <3>1
    <3> QED
      BY <1>1, <3>2, <3>3, <3>4, Zenon
  <2>2. CASE p[1] # "stack"
    <3>1. Holds(p, n)' <=> Holds(p, n)
      BY <1>1, <1>8, <2>2, HoldsNext, Zenon DEF Holds, In, IsBody
    <3> QED
      BY <3>1
  <2> QED
    BY <2>1, <2>2
<1>9. NodeIds' = NodeIds
  BY <1>1 DEF NodeIds
<1>10. \A q \in Slot : \A n : Holds(q, n)' => \E p \in Slot : Holds(p, n) /\ q = to[p]
  BY <1>3, <1>5, <1>6, <1>7, <1>8
<1>11. \A p \in Slot : \A n : Holds(p, n) => Holds(to[p], n)'
  BY <1>3, <1>5, <1>6, <1>7, <1>8
<1>12. Owned'
  BY <1>1, <1>3, <1>5, <1>9, <1>10, <1>11, HandOn DEF OwnedInv
<1>13. Fits(stack', Len(toks')) /\ (stack' # <<>> => Len(toks') >= 2)
  BY <1>1, StillFits DEF OwnedInv, KidsFit
<1>14. KidsFit'
  BY <1>1, <1>13, NoNodeFits DEF OwnedInv
<1> QED
  BY <1>12, <1>14 DEF OwnedInv

LEMMA DefinitionOwned ==
  ASSUME TypeInv, OwnedInv, DefinitionDone
  PROVE  OwnedInv'
<1> DEFINE d == [Proto |-> proto, Body |-> ret]
<1>p. PICK k : k = Len(lines)
  OBVIOUS
<1>1. /\ UNCHANGED <<lexVars, stack, nodes, ret, err, proto>> /\ pc' = "Module" /\ pc = "Return" /\ err = "none"
      /\ stack = <<>> /\ lines' = Append(lines, d)
  BY DEF DefinitionDone
<1>2. d.Body = ret
  OBVIOUS
<1> HIDE DEF d
<1>3. k \in Nat /\ Len(lines') = k + 1 /\ lines'[k + 1] = d /\ \A i \in 1 .. k : lines'[i] = lines[i]
  <2> DEFINE D == Definition(NodeIds)
  <2>1. lines \in Seq(D)
    BY DEF TypeInv, TypeOK
  <2> HIDE DEF D
  <2>2. lines \in Seq(D \cup {d}) /\ d \in D \cup {d}
    BY <2>1, SeqMonotonic
  <2> QED
    BY <1>1, <1>p, <2>2, AppendLast, LenProperties
<1>4. \A i : i \in 1 .. k + 1 <=> i \in 1 .. k \/ i = k + 1
  BY <1>3
<1>5. \A i, n : i \in 1 .. Len(lines') /\ lines'[i].Body = n <=> IsBody(i, n) \/ (i = k + 1 /\ n = ret)
  <2>1. k + 1 \notin 1 .. k
    BY <1>3
  <2> QED
    BY <1>2, <1>3, <1>4, <1>p, <2>1 DEF IsBody
<1> DEFINE for == SlotOf("lines", k + 1, 0)
<1>6. for \in Slot /\ for[1] = "lines" /\ for[2] = k + 1 /\ for[3] = 0 /\ for # Result
  <2>1. k + 1 \in Nat /\ 0 \in Nat
    BY <1>3
  <2> QED
    BY <2>1, SlotMade, SlotParts
<1>7. \A p \in Slot : p = for <=> p[1] = "lines" /\ p[2] = k + 1 /\ p[3] = 0
  BY <1>6, SlotParts
<1> HIDE DEF for
<1>8. ASSUME NEW p \in Slot, NEW n, p # Result
      PROVE  Holds(p, n)' <=> Holds(p, n) \/ (p = for /\ n = ret)
  <2>1. CASE p[1] = "lines"
    <3>1. PICK i, j : p[2] = i /\ p[3] = j
      OBVIOUS
    <3>2. /\ Holds(p, n)' <=> j = 0 /\ i \in 1 .. Len(lines') /\ lines'[i].Body = n
          /\ Holds(p, n) <=> j = 0 /\ IsBody(i, n)
      BY <1>8, <2>1, <3>1, HoldsNext, Zenon DEF Holds
    <3>3. i \in 1 .. Len(lines') /\ lines'[i].Body = n <=> IsBody(i, n) \/ (i = k + 1 /\ n = ret)
      BY <1>5
    <3>4. p = for <=> i = k + 1 /\ j = 0
      BY <1>7, <2>1, <3>1
    <3> QED
      BY <3>2, <3>3, <3>4, Zenon
  <2>2. CASE p[1] # "lines"
    <3>1. Holds(p, n)' <=> Holds(p, n)
      BY <1>1, <1>8, <2>2, HoldsNext, Zenon DEF Holds, In
    <3> QED
      BY <1>6, <2>2, <3>1
  <2> QED
    BY <2>1, <2>2
<1>9. NodeIds' = NodeIds
  BY <1>1 DEF NodeIds
<1>10. Owned'
  BY <1>1, <1>6, <1>8, <1>9, ResultTaken DEF OwnedInv
<1>11. KidsFit'
  BY <1>1, StillFits, NoNodeFits DEF OwnedInv
<1> QED
  BY <1>10, <1>11 DEF OwnedInv

\* A stack without the call on top, which had nothing
LEMMA ReturnedOwned ==
  ASSUME TypeInv, OwnedInv, GetTok \/ UNCHANGED lexVars, stack # <<>>, Top.kids = <<>>
  PROVE  /\ \A i, j, n : In(Front(stack), i, j, n) <=> In(stack, i, j, n)
         /\ Fits(Front(stack), Len(toks')) /\ Len(toks') >= 2
BY FrameKids, InFront, StillFits DEF Top, OwnedInv, KidsFit

LEMMA CallArgOwned ==
  ASSUME TypeInv, OwnedInv, CallArg
  PROVE  OwnedInv'
<1>1. pc = "Return" /\ err = "none" /\ stack # <<>> /\ Top.fn = "Call"
  BY DEF CallArg, Returning
<1>2. Top \in Frame(NodeIds) /\ Top.kids \in Seq(NodeIds) /\ Len(stack) \in Nat
  BY <1>1, FrameKids, LenProperties
<1> DEFINE l == Len(Top.kids)
           kids == Append(Top.kids, ret)
<1>3. l \in Nat /\ Len(kids) = l + 1
  BY <1>2, OneKidMore
<1>4. l <= Len(toks) /\ Len(toks) \in Nat /\ Len(toks) >= 2
  BY <1>1, FitsFront, FrameKids DEF Top, OwnedInv, KidsFit, FrameFits
<1> HIDE DEF l
<1>5. CASE CurTok = ")"
  <2> DEFINE e == NewNode("Call", Top.val, kids, Top.first, Len(toks))
  <2>1. ReturnNew(e) /\ GetTok /\ stack' = Front(stack) /\ UNCHANGED <<err, lines>>
    <3>1. CloseCall(kids)
      BY <1>5, Zenon DEF CallArg
    <3> HIDE DEF kids
    <3> QED
      BY <3>1, Zenon DEF CloseCall, Pop, defVars
  <2>2. e.kids = kids
    BY Zenon DEF NewNode
  <2> HIDE DEF e
  <2>3. nodes' = Append(nodes, e) /\ ret' = Len(nodes) + 1 /\ pc' = "Return"
    BY <2>1 DEF ReturnNew
  <2>4. Len(toks') = Len(toks) + 1
    BY <2>1, StillFits DEF OwnedInv
  <2>5. Len(e.kids) <= Len(toks')
    BY <1>3, <1>4, <2>2, <2>4
  <2> QED
    BY <1>1, <2>1, <2>2, <2>3, <2>5, NodeOwned
<1>6. CASE CurTok = ","
  <2> DEFINE f == [Top EXCEPT !.kids = kids]
             s == Append(Front(stack), f)
  <2>1. /\ stack' = Append(s, NewFrame("Expression")) /\ GetTok /\ pc' = "Primary"
        /\ UNCHANGED <<nodes, err, lines>>
    BY <1>6, Zenon DEF CallArg, ReplaceAndPush, defVars
  <2>2. f.kids = kids /\ f.fn = "Call"
    BY <1>1, <1>2, FrameUpdates
  <2> HIDE DEF f
  <2>3. Len(toks') = Len(toks) + 1 /\ Fits(Front(stack), Len(toks'))
    BY <1>1, <2>1, StillFits DEF OwnedInv
  <2>4. FrameFits(f, Len(toks'))
    BY <1>3, <1>4, <2>2, <2>3 DEF FrameFits
  <2>5. Fits(s, Len(toks')) /\ s \in Seq(Frame(NodeIds) \cup {f})
    BY <1>1, <2>3, <2>4, ReplacedFits
  <2>6. \A i, j, n : In(s, i, j, n) <=> In(stack, i, j, n) \/ (i = Len(stack) /\ j = l + 1 /\ n = ret)
    BY <1>1, <2>2, ReplacedOwned DEF l
  <2> HIDE DEF s
  <2>7. Len(toks') \in Nat /\ Len(toks') >= 2
    BY <1>4, <2>3
  <2>8. Fits(stack', Len(toks')) /\ \A i, j, n : In(stack', i, j, n) <=> In(s, i, j, n)
    BY <2>1, <2>5, <2>7, CallOwnsNothing, NewFrameOwned
  <2>9. \A i, j, n : In(stack', i, j, n) <=> In(stack, i, j, n) \/ (i = Len(stack) /\ j = l + 1 /\ n = ret)
    BY <2>6, <2>8, Zenon
  <2>10. l + 1 \in Nat
    BY <1>3
  <2> QED
    BY <1>1, <1>2, <2>1, <2>7, <2>8, <2>9, <2>10, ResultOwned
<1>7. CASE CurTok \notin {")", ","}
  <2>1. Fail("expected ')' or ','")
    BY <1>7, Zenon DEF CallArg
  <2>2. "expected ')' or ','" \in Error
    BY Zenon DEF Error
  <2> QED
    BY <2>1, <2>2, FailOwned, Zenon
<1> QED
  BY <1>5, <1>6, <1>7, Zenon

LEMMA IdentifierOwned ==
  ASSUME TypeInv, OwnedInv, ParseIdentifierExpr
  PROVE  OwnedInv'
<1>0. pc \in {"Identifier", "Args"} => stack # <<>> /\ err = "none" /\ Top.kids = <<>>
  BY DEF TypeInv, TopOK, OwnedInv, KidsFit
<1>1. CASE IdentifierVariable
  BY <1>0, <1>1, LeafOwned, NewNodeKids DEF IdentifierVariable, Pop, defVars
<1>2. CASE IdentifierCall
  BY <1>0, <1>2, SameStackOwned DEF IdentifierCall, defVars
<1>3. CASE CallFirstArg
  <2>1. /\ stack' = Append(stack, NewFrame("Expression")) /\ pc' = "Primary" /\ pc = "Args"
        /\ UNCHANGED <<lexVars, nodes, err, lines>>
    BY <1>3 DEF CallFirstArg, CallExpression, Push, defVars
  <2>2. Len(toks') \in Nat /\ Len(toks') >= 2 /\ Fits(stack, Len(toks'))
    BY <1>0, <2>1, StillFits DEF OwnedInv, KidsFit
  <2>3. /\ \A i, j, n : In(stack', i, j, n) <=> In(stack, i, j, n)
        /\ Fits(stack', Len(toks'))
    BY <2>1, <2>2, CallOwnsNothing, NewFrameOwned, FrameKids
  <2> QED
    BY <1>0, <2>1, <2>2, <2>3, QuietOwned
<1>4. CASE CallNoArgs
  BY <1>0, <1>4, LeafOwned, NewNodeKids DEF CallNoArgs, CloseCall, Pop, defVars
<1>5. CASE CallArg
  BY <1>5, CallArgOwned
<1> QED
  BY <1>1, <1>2, <1>3, <1>4, <1>5 DEF ParseIdentifierExpr

LEMMA MergeOwned ==
  ASSUME TypeInv, OwnedInv, Returning("RHS") \/ Returning("Merge"), MergeOperands(ret)
  PROVE  OwnedInv'
<1>1. pc = "Return" /\ err = "none" /\ stack # <<>> /\ Top.fn \in {"RHS", "Merge"}
  BY DEF Returning
<1>2. Top \in Frame(NodeIds) /\ Top.kids \in Seq(NodeIds) /\ Len(Top.kids) = 1
  BY <1>1, FrameKids DEF Shape, Climbing
<1>3. PICK k : k = Top.kids[1]
  OBVIOUS
<1>4. Top.kids = <<k>> /\ <<k, ret>> = Append(Top.kids, ret) /\ Len(<<k, ret>>) = 2
  <2>1. Top.kids = <<k>>
    BY <1>2, <1>3, ShortSeq
  <2> QED
    BY <2>1
<1> DEFINE e == NewNode("Binary", Top.val, <<Top.kids[1], ret>>, FirstOf(Top.kids[1]), LastOf(ret))
           f == [Top EXCEPT !.fn = "BinOpRHS", !.val = "", !.kids = <<Len(nodes) + 1>>]
<1>5. /\ nodes' = Append(nodes, e) /\ stack' = Append(Front(stack), f) /\ pc' = "Loop"
      /\ UNCHANGED <<lexVars, err, lines>>
  BY Zenon DEF MergeOperands, Replace, defVars
<1>6. e.kids = Append(Top.kids, ret) /\ Len(e.kids) = 2
  <2>1. e.kids = <<Top.kids[1], ret>>
    BY NewNodeKids
  <2> HIDE DEF e
  <2> QED
    BY <1>3, <1>4, <2>1
<1>7. f.kids = <<Len(nodes) + 1>> /\ f.fn = "BinOpRHS"
  BY <1>2, FrameUpdates
<1> HIDE DEF e, f
<1>8. Len(e.kids) <= Len(toks')
  BY <1>1, <1>5, <1>6, StillFits DEF OwnedInv, KidsFit
<1> QED
  BY <1>1, <1>5, <1>6, <1>7, <1>8, NodeOwned

LEMMA ClimbingOwned ==
  ASSUME TypeInv, OwnedInv, ParseBinOpRHS
  PROVE  OwnedInv'
<1>1. CASE BinOpDone
  BY <1>1, BinOpDoneOwned
<1>2. CASE BinOpOperator
  <2> DEFINE f == [Top EXCEPT !.fn = "RHS", !.val = CurTok]
  <2>1. /\ GetTok /\ stack' = Append(Front(stack), f) /\ pc' = "Primary" /\ pc = "Loop"
        /\ UNCHANGED <<nodes, err, lines>> /\ stack # <<>> /\ err = "none"
    BY <1>2, Zenon DEF BinOpOperator, Replace, defVars, TypeInv, TopOK
  <2>2. f.kids = Top.kids /\ f.fn = "RHS"
    BY <2>1, FrameUpdates, FrameKids
  <2> HIDE DEF f
  <2>3. Len(toks') >= 2 /\ Fits(Front(stack), Len(toks')) /\ FrameFits(Top, Len(toks'))
    BY <2>1, StillFits DEF OwnedInv, KidsFit
  <2>4. FrameFits(f, Len(toks'))
    BY <2>2, <2>3 DEF FrameFits
  <2>5. Fits(stack', Len(toks'))
    BY <2>1, <2>3, <2>4, ReplacedFits
  <2>6. \A i, j, n : In(stack', i, j, n) <=> In(stack, i, j, n)
    BY <2>1, <2>2, InReplaced, FrameKids DEF Top
  <2> QED
    BY <2>1, <2>3, <2>5, <2>6, QuietOwned
<1>3. CASE BinOpOperand
  <2>1. CASE NextBindsTighter(Top.val)
    BY <1>3, <2>1, TighterOwned
  <2>2. CASE ~NextBindsTighter(Top.val)
    <3>1. Returning("RHS") /\ MergeOperands(ret)
      BY <1>3, <2>2, Zenon DEF BinOpOperand
    <3> QED
      BY <3>1, MergeOwned
  <2> QED
    BY <2>1, <2>2
<1>4. CASE BinOpMerge
  BY <1>4, MergeOwned DEF BinOpMerge
<1> QED
  BY <1>1, <1>2, <1>3, <1>4 DEF ParseBinOpRHS

\* The ')' of ParseParenExpr: the node it hands on only gets its parentheses counted.
LEMMA ParenOwned ==
  ASSUME TypeInv, OwnedInv, ParenClose
  PROVE  OwnedInv'
<1>1. pc = "Return" /\ err = "none" /\ stack # <<>> /\ Top.fn = "Paren"
  BY DEF ParenClose, Returning
<1>2. CASE CurTok # ")"
  <2>1. "expected ')'" \in Error
    BY DEF Error
  <2> QED
    BY <1>2, <2>1, FailOwned DEF ParenClose
<1>3. CASE CurTok = ")"
  <2>1. /\ nodes' = [nodes EXCEPT ![ret].paren = @ + 1] /\ GetTok /\ stack' = Front(stack)
        /\ UNCHANGED <<pc, ret, err, lines>>
    BY <1>3, Zenon DEF ParenClose, Pop, defVars
  <2>2. Top.kids = <<>>
    BY <1>1, FitsFront, FrameKids DEF Top, OwnedInv, KidsFit, FrameFits
  <2>3. /\ \A i, j, n : In(stack', i, j, n) <=> In(stack, i, j, n)
        /\ Fits(stack', Len(toks')) /\ Len(toks') >= 2
    BY <1>1, <2>1, <2>2, ReturnedOwned
  <2>4. Len(nodes') = Len(nodes) /\ \A i \in 1 .. Len(nodes) : nodes'[i].kids = nodes[i].kids
    <3>1. ASSUME NEW ids, NEW s \in Seq(Node(ids)), NEW k
          PROVE  LET t == [s EXCEPT ![k].paren = @ + 1]
                 IN  Len(t) = Len(s) /\ \A i \in 1 .. Len(s) : t[i].kids = s[i].kids
      <4>1. \A i \in 1 .. Len(s) : s[i] \in Node(ids)
        BY ElementOfSeq
      <4>2. \A x \in Node(ids) : \A p : [x EXCEPT !.paren = p].kids = x.kids
        BY DEF Node
      <4> QED
        BY <4>1, <4>2
    <3> QED
      BY <2>1, <3>1, FrameKids
  <2>5. \A i, j, n : In(nodes', i, j, n) <=> In(nodes, i, j, n)
    BY <2>4 DEF In
  <2>6. NodeIds' = NodeIds
    BY <2>4 DEF NodeIds
  <2>7. Owned'
    BY <1>1, <2>1, <2>3, <2>5, <2>6, NothingHanded DEF OwnedInv
  <2>8. KidsFit'
    BY <1>1, <2>1, <2>3, <2>4, StillFits DEF OwnedInv, KidsFit
  <2> QED
    BY <2>7, <2>8 DEF OwnedInv
<1> QED
  BY <1>2, <1>3

\* An error unwinds: the nodes of the calls it leaves are dropped.
LEMMA PropagateOwned ==
  ASSUME TypeInv, OwnedInv, Propagate
  PROVE  OwnedInv'
<1>1. /\ stack # <<>> /\ stack' = Front(stack) /\ UNCHANGED <<lexVars, pc, nodes, ret, err, lines>>
      /\ err # "none" /\ pc = "Return"
  BY DEF Propagate, Pop, defVars
<1>2. \A i, j, n : In(stack', i, j, n) => In(stack, i, j, n)
  BY <1>1, InFront, FrameKids
<1>3. NodeIds' = NodeIds /\ \A i, j, n : In(nodes', i, j, n) <=> In(nodes, i, j, n)
  BY <1>1 DEF NodeIds
<1>4. Owned'
  BY <1>1, <1>2, <1>3, NothingHanded DEF OwnedInv
<1>5. Fits(stack', Len(toks')) /\ (stack' # <<>> => Len(toks') >= 2)
  BY <1>1, StillFits DEF OwnedInv, KidsFit
<1>6. KidsFit'
  BY <1>1, <1>5, NoNodeFits DEF OwnedInv
<1> QED
  BY <1>4, <1>6 DEF OwnedInv

LEMMA OwnedInit == Init => OwnedInv
<1> SUFFICES ASSUME Init PROVE OwnedInv
  OBVIOUS
<1>1. nodes = <<>> /\ stack = <<>> /\ toks = <<>> /\ pc = "Construct" /\ lines = <<>>
  BY DEF Init
<1>2. NodeIds = {}
  BY <1>1 DEF NodeIds
<1> QED
  BY <1>1, <1>2 DEF OwnedInv, Owned, KidsFit, Fits

LEMMA OwnedStep ==
  ASSUME TypeInv, OwnedInv, [Next]_vars
  PROVE  OwnedInv'
<1>1. CASE UNCHANGED vars
  <2>1. nodes' = nodes /\ stack' = stack /\ lines' = lines /\ pc' = pc /\ err' = err /\ ret' = ret /\ toks' = toks
    BY <1>1 DEF vars, lexVars, defVars
  <2>2. NodeIds' = NodeIds /\ \A i, j, n : /\ In(nodes', i, j, n) <=> In(nodes, i, j, n)
                                           /\ In(stack', i, j, n) <=> In(stack, i, j, n)
    BY <2>1 DEF NodeIds
  <2>3. Owned'
    BY <2>1, <2>2, NothingHanded DEF OwnedInv
  <2>4. KidsFit'
    BY <2>1 DEF OwnedInv, KidsFit, Top
  <2> QED
    BY <2>3, <2>4 DEF OwnedInv
<1> QED
  BY <1>1, ModuleOwned, PrototypeOwned, PrimaryOwned, IdentifierOwned, ExpressionOwned, ClimbingOwned, ParenOwned,
     DefinitionOwned, PropagateOwned
     DEF Next, Terminated

LEMMA AtMostOne ==
  ASSUME NEW S, \A x, y \in S : x = y
  PROVE  /\ Cardinality(S) \in {0, 1}
         /\ Cardinality(S) = 1 <=> S # {}
<1>1. CASE S = {}
  BY <1>1, FS_EmptySet
<1>2. CASE S # {}
  <2>1. PICK x : S = {x}
    BY <1>2
  <2> QED
    BY <2>1, FS_Singleton
<1> QED
  BY <1>1, <1>2

\* The owners counted
LEMMA OwnersCounted ==
  ASSUME TypeInv, OwnedInv
  PROVE  EveryNodeOwnedOnce
<1> SUFFICES ASSUME NEW n \in DOMAIN nodes
             PROVE  IF err = "none" THEN Owners(n) = 1 ELSE Owners(n) <= 1
  BY DEF EveryNodeOwnedOnce
<1>0. n \in NodeIds
  BY FrameKids, LenProperties DEF NodeIds
<1> DEFINE A == HoldersIn(nodes, n)
           B == HoldersIn(stack, n)
           D == {i \in DOMAIN lines : lines[i].Body = n}
<1>k. ASSUME NEW S, NEW s \in Seq(S), \A e \in S : Len(e.kids) \in Nat /\ DOMAIN e.kids = 1 .. Len(e.kids),
             \A i \in 1 .. Len(s) : Len(s[i].kids) <= Len(toks)
      PROVE  \A i, j : <<i, j>> \in HoldersIn(s, n) <=> In(s, i, j, n)
  <2> SUFFICES ASSUME NEW i, NEW j PROVE <<i, j>> \in HoldersIn(s, n) <=> In(s, i, j, n)
    OBVIOUS
  <2>1. DOMAIN s = 1 .. Len(s) /\ Len(toks) \in Nat
    BY FrameKids, LenProperties
  <2>2. i \in 1 .. Len(s) => /\ DOMAIN s[i].kids = 1 .. Len(s[i].kids) /\ Len(s[i].kids) \in Nat
                             /\ Len(s[i].kids) <= Len(toks)
    BY <1>k, ElementOfSeq
  <2>3. i \in 1 .. Len(s) /\ j \in DOMAIN s[i].kids => j \in 1 .. Len(toks)
    BY <2>1, <2>2
  <2> QED
    BY <2>1, <2>2, <2>3 DEF HoldersIn, In
<1>1. \A i, j : <<i, j>> \in A <=> In(nodes, i, j, n)
  <2>1. \A e \in Node(NodeIds) : Len(e.kids) \in Nat /\ DOMAIN e.kids = 1 .. Len(e.kids)
    BY FrameKids, LenProperties
  <2> QED
    BY <1>k, <2>1, FrameKids DEF OwnedInv, KidsFit
<1>2. \A i, j : <<i, j>> \in B <=> In(stack, i, j, n)
  <2>1. \A e \in Frame(NodeIds) : Len(e.kids) \in Nat /\ DOMAIN e.kids = 1 .. Len(e.kids)
    BY FrameKids, LenProperties
  <2>2. \A i \in 1 .. Len(stack) : Len(stack[i].kids) <= Len(toks)
    BY DEF OwnedInv, KidsFit, Fits, FrameFits
  <2> QED
    BY <1>k, <2>1, <2>2, FrameKids
<1>3. \A i : i \in D <=> IsBody(i, n)
  BY LenProperties DEF IsBody, TypeInv, TypeOK
<1>p. (\A x \in A : x = <<x[1], x[2]>>) /\ (\A x \in B : x = <<x[1], x[2]>>)
  BY DEF HoldersIn
<1> HIDE DEF A, B, D
<1>4. ASSUME NEW i, NEW j, In(nodes, i, j, n) PROVE SlotOf("nodes", i, j) \in Slot /\ Holds(SlotOf("nodes", i, j), n)
  <2>1. i \in Nat /\ j \in Nat
    BY <1>4 DEF In
  <2> QED
    BY <1>4, <2>1, SlotMade DEF Holds
<1>5. ASSUME NEW i, NEW j, In(stack, i, j, n) PROVE SlotOf("stack", i, j) \in Slot /\ Holds(SlotOf("stack", i, j), n)
  <2>1. i \in Nat /\ j \in Nat
    BY <1>5 DEF In
  <2> QED
    BY <1>5, <2>1, SlotMade DEF Holds
<1>6. ASSUME NEW i, IsBody(i, n) PROVE SlotOf("lines", i, 0) \in Slot /\ Holds(SlotOf("lines", i, 0), n)
  <2>1. i \in Nat /\ 0 \in Nat
    BY <1>6 DEF IsBody
  <2> QED
    BY <1>6, <2>1, SlotMade DEF Holds
<1>7. Returned(n) => Result \in Slot /\ Holds(Result, n)
  BY SlotParts DEF Holds
<1>8. \A p, q \in Slot : Holds(p, n) /\ Holds(q, n) => p = q
  BY <1>0 DEF OwnedInv, Owned
<1>9. /\ \A c, d, i, j, k, l : SlotOf(c, i, j) = SlotOf(d, k, l) => c = d /\ i = k /\ j = l
      /\ \A c, i, j : c # "ret" => SlotOf(c, i, j) # Result
  BY DEF SlotOf, Result
<1>10. (\A x, y \in A : x = y) /\ (\A x, y \in B : x = y) /\ (\A x, y \in D : x = y)
  <2>1. ASSUME NEW x \in A, NEW y \in A PROVE x = y
    <3>1. In(nodes, x[1], x[2], n) /\ In(nodes, y[1], y[2], n)
      BY <1>1, <1>p
    <3>2. SlotOf("nodes", x[1], x[2]) = SlotOf("nodes", y[1], y[2])
      BY <1>4, <1>8, <3>1
    <3> QED
      BY <1>9, <1>p, <3>2
  <2>2. ASSUME NEW x \in B, NEW y \in B PROVE x = y
    <3>1. In(stack, x[1], x[2], n) /\ In(stack, y[1], y[2], n)
      BY <1>2, <1>p
    <3>2. SlotOf("stack", x[1], x[2]) = SlotOf("stack", y[1], y[2])
      BY <1>5, <1>8, <3>1
    <3> QED
      BY <1>9, <1>p, <3>2
  <2>3. ASSUME NEW x \in D, NEW y \in D PROVE x = y
    BY <1>3, <1>6, <1>8, <1>9
  <2> QED
    BY <2>1, <2>2, <2>3
<1>11. A # {} => B = {} /\ D = {} /\ ~Returned(n)
  BY <1>1, <1>2, <1>3, <1>4, <1>5, <1>6, <1>7, <1>8, <1>9, <1>p
<1>12. B # {} => D = {} /\ ~Returned(n)
  BY <1>1, <1>2, <1>3, <1>4, <1>5, <1>6, <1>7, <1>8, <1>9, <1>p
<1>13. D # {} => ~Returned(n)
  BY <1>3, <1>6, <1>7, <1>8, <1>9
<1>14. err = "none" => A # {} \/ B # {} \/ D # {} \/ Returned(n)
  <2> SUFFICES ASSUME err = "none" PROVE A # {} \/ B # {} \/ D # {} \/ Returned(n)
    OBVIOUS
  <2>1. PICK p \in Slot : Holds(p, n)
    BY <1>0 DEF OwnedInv, Owned
  <2> QED
    BY <1>1, <1>2, <1>3, <2>1 DEF Holds
<1>15. /\ Cardinality(A) \in {0, 1} /\ (Cardinality(A) = 1 <=> A # {})
       /\ Cardinality(B) \in {0, 1} /\ (Cardinality(B) = 1 <=> B # {})
       /\ Cardinality(D) \in {0, 1} /\ (Cardinality(D) = 1 <=> D # {})
  BY <1>10, AtMostOne
<1>16. Owners(n) = Cardinality(A) + Cardinality(B) + (IF Returned(n) THEN 1 ELSE 0) + Cardinality(D)
  BY DEF Owners, A, B, D, Returned
<1>17. PICK a, b, d, r : a = Cardinality(A) /\ b = Cardinality(B) /\ d = Cardinality(D)
                          /\ r = (IF Returned(n) THEN 1 ELSE 0)
  OBVIOUS
<1>18. /\ a \in {0, 1} /\ b \in {0, 1} /\ d \in {0, 1} /\ r \in {0, 1}
       /\ (a = 1 => b = 0 /\ d = 0 /\ r = 0) /\ (b = 1 => d = 0 /\ r = 0) /\ (d = 1 => r = 0)
       /\ (err = "none" => a = 1 \/ b = 1 \/ d = 1 \/ r = 1)
  BY <1>11, <1>12, <1>13, <1>14, <1>15, <1>17
<1>19. a + b + r + d <= 1 /\ (err = "none" => a + b + r + d = 1)
  BY <1>18
<1> QED
  BY <1>16, <1>17, <1>19, Zenon

\* Every node the parser has made has one owner, and after an error at most one: no
\* std::unique_ptr<ExprAST> is moved from twice or dropped in Parser.cpp, whatever the source.
THEOREM OwnedOnce == Spec => []EveryNodeOwnedOnce
<1>1. Init => TypeInv /\ OwnedInv
  BY TypeInvInit, OwnedInit
<1>2. TypeInv /\ OwnedInv /\ [Next]_vars => (TypeInv /\ OwnedInv)'
  BY TypeInvStep, OwnedStep
<1>3. TypeInv /\ OwnedInv => EveryNodeOwnedOnce
  BY OwnersCounted
<1> QED
  BY <1>1, <1>2, <1>3, PTL DEF Spec
=============================================================================
