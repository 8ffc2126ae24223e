------------------------------- MODULE Parser -------------------------------
(***************************************************************************)
(* grComp/Parser.cpp: the recursive-descent parser, one call of            *)
(* Parser::get() on one source.  The C++ call stack is the variable stack: *)
(* one frame for each active ParseExpression, ParseBinOpRHS,               *)
(* ParseParenExpr and ParseIdentifierExpr, holding that call's locals.     *)
(* ParseModule, ParseFunctionDefinition and ParsePrototype are never       *)
(* nested; their locals are the variables lines and proto.                 *)
(*                                                                         *)
(* An action runs to the next GetTok, call or return.  The tokens are      *)
(* chosen as the parser asks for them, so a behaviour is one run of the    *)
(* parser on one source, and every source of at most MaxTokens tokens is   *)
(* some behaviour's.                                                       *)
(***************************************************************************)
EXTENDS Tokens, FiniteSets

VARIABLES
  toks,            \* tokens delivered so far; the last one is CurTok
  identifier_str,  \* the lexer's registers: the text of the last identifier
  real_num_value,  \* ... and of the last real number
  pc,              \* where the parser is
  stack,           \* frames of the active calls, innermost last
  nodes,           \* the AST nodes made so far; a node's id is its index
  ret,             \* the node the innermost call returned
  err,             \* the error it returned instead, or "none"
  proto,           \* the prototype being parsed or just parsed
  lines            \* ModuleAST::lines, the finished definitions

lexVars == <<toks, identifier_str, real_num_value>>
defVars == <<proto, lines>>
vars == <<lexVars, pc, stack, nodes, ret, err, defVars>>

Error ==
  {"unexpected token in module", "expected an expression", "expected ')'",
   "expected ')' or ','", "expected a type delimiter", "expected a type",
   "expected a function arrow"}

PC ==
  {"Construct", "Module", "Arg", "Delimiter", "Type", "Primary", "Identifier", "Args",
   "Loop", "Return", "Done"}

(***************************************************************************)
(* A node keeps, besides what the AST classes keep, the part of the source *)
(* it was made from: its first and last token, and how many pairs of       *)
(* parentheses around it were eaten.  The code keeps none of these; they   *)
(* only serve to state properties.                                         *)
(***************************************************************************)
Node(ids) ==
  [kind : {"Number", "Variable", "Binary", "Call"}, val : Text \cup Kind, kids : Seq(ids),
   first : Int, last : Int, paren : Nat]

NodeIds == 1 .. Len(nodes)

NewNode(kind, val, kids, first, last) ==
  [kind |-> kind, val |-> val, kids |-> kids, first |-> first, last |-> last, paren |-> 0]

FirstOf(n) == nodes[n].first - nodes[n].paren
LastOf(n) == nodes[n].last + nodes[n].paren

(***************************************************************************)
(* A frame: the function, and which call in it is pending -                *)
(*   Expression  ParseExpression, in ParsePrimary                          *)
(*   BinOpRHS    ParseBinOpRHS(prec, kids[1]) at the top of its loop       *)
(*   RHS         ... in ParsePrimary, for the operand after operator val   *)
(*   Merge       ... in ParseBinOpRHS, for the rest of that operand        *)
(*   Paren       ParseParenExpr, in ParseExpression                        *)
(*   Call        ParseIdentifierExpr, with IdName val and Args kids        *)
(***************************************************************************)
Frame(ids) ==
  [fn : {"Expression", "BinOpRHS", "RHS", "Merge", "Paren", "Call"},
   prec : Nat, val : Text \cup Kind, kids : Seq(ids), first : Nat]

NewFrame(fn) == [fn |-> fn, prec |-> 0, val |-> "", kids |-> <<>>, first |-> 0]

CurTok == Last(toks).kind
Top == Last(stack)
Pop == stack' = Front(stack)
Push(f) == stack' = Append(stack, f)
Replace(f) == stack' = Append(Front(stack), f)
ReplaceAndPush(f, g) == stack' = Append(Append(Front(stack), f), g)

GetTok ==
  \E t \in NextTokens(toks) :
    /\ toks' = Append(toks, t)
    /\ identifier_str' = IF t.kind \in {"identifier", "extern"} THEN t.text ELSE identifier_str
    /\ real_num_value' = IF t.kind = "real_number" THEN t.text ELSE real_num_value

\* Mutant: the node is moved away before it is returned.
ReturnNew_Moved(n) ==
  /\ nodes' = Append(nodes, n)
  /\ ret' = 0
  /\ pc' = "Return"

\* A function returns the node n, made just now.
ReturnNew(n) ==
  /\ nodes' = Append(nodes, n)
  /\ ret' = Len(nodes) + 1
  /\ pc' = "Return"

\* A function returns an error; its callers hand it on (Propagate).
Fail(e) ==
  /\ err' = e
  /\ ret' = 0
  /\ pc' = "Return"
  /\ UNCHANGED <<lexVars, stack, nodes, defVars>>

\* ParseExpression is called; it calls ParsePrimary at once.
CallExpression ==
  /\ Push(NewFrame("Expression"))
  /\ pc' = "Primary"

-----------------------------------------------------------------------------
Init ==
  /\ toks = <<>>
  /\ identifier_str = "" /\ real_num_value = ""
  /\ pc = "Construct"
  /\ stack = <<>> /\ nodes = <<>>
  /\ ret = 0 /\ err = "none"
  /\ proto = [Name |-> "", Args |-> <<>>, first |-> 0] /\ lines = <<>>

\* Parser::Parser
Construct ==
  /\ pc = "Construct"
  /\ GetTok
  /\ pc' = "Module"
  /\ UNCHANGED <<stack, nodes, ret, err, defVars>>

(***************************************************************************)
(* ParseModule                                                             *)
(***************************************************************************)
\* Mutant: LOOP stays true.
ModuleEnd_LoopsOn ==
  /\ pc = "Module" /\ CurTok = "eof"
  /\ UNCHANGED vars

ModuleEnd ==
  /\ pc = "Module" /\ CurTok = "eof"
  /\ pc' = "Done"
  /\ UNCHANGED <<lexVars, stack, nodes, ret, err, defVars>>

ModuleLineBreak ==
  /\ pc = "Module" /\ CurTok = "line_break"
  /\ GetTok
  /\ UNCHANGED <<pc, stack, nodes, ret, err, defVars>>

\* ParseDefinition -> ParseFunctionDefinition -> ParsePrototype, up to the
\* first GetTok of its argument loop.
ModuleDefinition ==
  /\ pc = "Module" /\ CurTok = "identifier"
  /\ proto' = [Name |-> identifier_str, Args |-> <<>>, first |-> Len(toks)]
  /\ GetTok
  /\ pc' = "Arg"
  /\ UNCHANGED <<stack, nodes, ret, err, lines>>

\* Mutant: whatever cannot begin a definition ends the module.
ModuleUnexpected_Ends ==
  /\ pc = "Module" /\ CurTok \notin {"eof", "line_break", "identifier"}
  /\ pc' = "Done"
  /\ UNCHANGED <<lexVars, stack, nodes, ret, err, defVars>>

ModuleUnexpected ==
  /\ pc = "Module" /\ CurTok \notin {"eof", "line_break", "identifier"}
  /\ Fail("unexpected token in module")

(***************************************************************************)
(* ParsePrototype: the argument loop, then "=>"                            *)
(***************************************************************************)
PrototypeArg ==
  /\ pc = "Arg" /\ CurTok = "identifier"
  /\ proto' = [proto EXCEPT !.Args = Append(@, identifier_str)]
  /\ GetTok
  /\ pc' = "Delimiter"
  /\ UNCHANGED <<stack, nodes, ret, err, lines>>

\* Mutant: the ':' and the type may be left out.
PrototypeDelimiter_Optional ==
  /\ pc = "Delimiter"
  /\ IF CurTok = ":"
       THEN GetTok /\ pc' = "Type" /\ UNCHANGED <<stack, nodes, ret, err, defVars>>
       ELSE pc' = "Arg" /\ UNCHANGED <<lexVars, stack, nodes, ret, err, defVars>>

PrototypeDelimiter ==
  /\ pc = "Delimiter"
  /\ IF CurTok = ":"
       THEN GetTok /\ pc' = "Type" /\ UNCHANGED <<stack, nodes, ret, err, defVars>>
       ELSE Fail("expected a type delimiter")

\* Mutant: whatever comes after the ':' is taken for a type.
PrototypeType_Unchecked ==
  /\ pc = "Type"
  /\ GetTok
  /\ pc' = "Arg"
  /\ UNCHANGED <<stack, nodes, ret, err, defVars>>

PrototypeType ==
  /\ pc = "Type"
  /\ IF CurTok = "identifier"
       THEN GetTok /\ pc' = "Arg" /\ UNCHANGED <<stack, nodes, ret, err, defVars>>
       ELSE Fail("expected a type")

\* After "=>" ParsePrototype returns and ParseFunctionDefinition parses the body.
PrototypeArrow ==
  /\ pc = "Arg" /\ CurTok # "identifier"
  /\ IF CurTok = "func_arrow"
       THEN GetTok /\ CallExpression /\ UNCHANGED <<nodes, ret, err, defVars>>
       ELSE Fail("expected a function arrow")

(***************************************************************************)
(* ParsePrimary and the functions it calls                                 *)
(***************************************************************************)
PrimaryUnknown ==
  /\ pc = "Primary" /\ CurTok \notin {"identifier", "real_number", "("}
  /\ Fail("expected an expression")

\* ParseNumberExpr
NumberExpr ==
  /\ pc = "Primary" /\ CurTok = "real_number"
  /\ ReturnNew(NewNode("Number", real_num_value, <<>>, Len(toks), Len(toks)))
  /\ GetTok
  /\ UNCHANGED <<stack, err, defVars>>

\* ParseParenExpr, up to its call of ParseExpression
ParenExpr ==
  /\ pc = "Primary" /\ CurTok = "("
  /\ GetTok
  /\ stack' = Append(Append(stack, NewFrame("Paren")), NewFrame("Expression"))
  /\ UNCHANGED <<pc, nodes, ret, err, defVars>>

\* ParseIdentifierExpr, up to the GetTok that eats the identifier
IdentifierExpr ==
  /\ pc = "Primary" /\ CurTok = "identifier"
  /\ Push([NewFrame("Call") EXCEPT !.val = identifier_str, !.first = Len(toks)])
  /\ GetTok
  /\ pc' = "Identifier"
  /\ UNCHANGED <<nodes, ret, err, defVars>>

\* Mutant: the name is read after the identifier is eaten.
IdentifierVariable_ReadsLate ==
  /\ pc = "Identifier" /\ CurTok # "("
  /\ ReturnNew(NewNode("Variable", identifier_str, <<>>, Top.first, Top.first))
  /\ Pop
  /\ UNCHANGED <<lexVars, err, defVars>>

\* ... a simple variable reference,
IdentifierVariable ==
  /\ pc = "Identifier" /\ CurTok # "("
  /\ ReturnNew(NewNode("Variable", Top.val, <<>>, Top.first, Top.first))
  /\ Pop
  /\ UNCHANGED <<lexVars, err, defVars>>

\* ... or a call: eat "(" ...
IdentifierCall ==
  /\ pc = "Identifier" /\ CurTok = "("
  /\ GetTok
  /\ pc' = "Args"
  /\ UNCHANGED <<stack, nodes, ret, err, defVars>>

\* ... and, unless the list is empty, parse the first argument.
CallFirstArg ==
  /\ pc = "Args" /\ CurTok # ")"
  /\ CallExpression
  /\ UNCHANGED <<lexVars, nodes, ret, err, defVars>>

\* Mutant: the ')' is not eaten.
CloseCall_LeavesParen(args) ==
  /\ ReturnNew(NewNode("Call", Top.val, args, Top.first, Len(toks)))
  /\ Pop
  /\ UNCHANGED <<lexVars, err, defVars>>

\* The ')' of an argument list: eat it and return the call.
CloseCall(args) ==
  /\ ReturnNew(NewNode("Call", Top.val, args, Top.first, Len(toks)))
  /\ GetTok
  /\ Pop
  /\ UNCHANGED <<err, defVars>>

CallNoArgs ==
  /\ pc = "Args" /\ CurTok = ")"
  /\ CloseCall(<<>>)

(***************************************************************************)
(* Returns: the call that made the pending call goes on with its result    *)
(***************************************************************************)
Returning(fn) ==
  /\ pc = "Return" /\ err = "none"
  /\ stack # <<>> /\ Top.fn = fn

\* ParseExpression got its first operand: return ParseBinOpRHS(0, LHS).
ExpressionOperand ==
  /\ Returning("Expression")
  /\ Replace([NewFrame("BinOpRHS") EXCEPT !.kids = <<ret>>])
  /\ pc' = "Loop"
  /\ UNCHANGED <<lexVars, nodes, ret, err, defVars>>

\* ParseBinOpRHS, top of the loop: the next token does not continue this LHS ...
BinOpDone ==
  /\ pc = "Loop" /\ GetTokPrecedence(CurTok) < Top.prec
  /\ ret' = Top.kids[1]
  /\ Pop
  /\ pc' = "Return"
  /\ UNCHANGED <<lexVars, nodes, err, defVars>>

\* ... or it is an operator: eat it and parse the operand after it.
BinOpOperator ==
  /\ pc = "Loop" /\ GetTokPrecedence(CurTok) >= Top.prec
  /\ Replace([Top EXCEPT !.fn = "RHS", !.val = CurTok])
  /\ GetTok
  /\ pc' = "Primary"
  /\ UNCHANGED <<nodes, ret, err, defVars>>

\* Mutant: LHS for both operands.
MergeOperands_Twice(rhs) ==
  /\ nodes' = Append(nodes,
                NewNode("Binary", Top.val, <<Top.kids[1], Top.kids[1]>>,
                        FirstOf(Top.kids[1]), LastOf(rhs)))
  /\ Replace([Top EXCEPT !.fn = "BinOpRHS", !.val = "", !.kids = <<Len(nodes) + 1>>])
  /\ pc' = "Loop"
  /\ UNCHANGED <<lexVars, ret, err, defVars>>

\* LHS = BinaryExprAST(BinOp, LHS, RHS), and back to the top of the loop.
MergeOperands(rhs) ==
  /\ nodes' = Append(nodes,
                NewNode("Binary", Top.val, <<Top.kids[1], rhs>>,
                        FirstOf(Top.kids[1]), LastOf(rhs)))
  /\ Replace([Top EXCEPT !.fn = "BinOpRHS", !.val = "", !.kids = <<Len(nodes) + 1>>])
  /\ pc' = "Loop"
  /\ UNCHANGED <<lexVars, ret, err, defVars>>

\* The operand is there: merge it now, or let the operator after it, when that
\* one binds tighter, take it first.
NextBindsTighter(op) == GetTokPrecedence(op) < GetTokPrecedence(CurTok)
RecursionPrec_Same(op) == GetTokPrecedence(op)   \* mutant
RecursionPrec(op) == GetTokPrecedence(op) + 1

BinOpOperand ==
  /\ Returning("RHS")
  /\ IF NextBindsTighter(Top.val)
       THEN /\ ReplaceAndPush([Top EXCEPT !.fn = "Merge"],
                              [NewFrame("BinOpRHS") EXCEPT !.prec = RecursionPrec(Top.val),
                                                           !.kids = <<ret>>])
            /\ pc' = "Loop"
            /\ UNCHANGED <<lexVars, nodes, ret, err, defVars>>
       ELSE MergeOperands(ret)

BinOpMerge ==
  /\ Returning("Merge")
  /\ MergeOperands(ret)

\* ParseParenExpr: V comes back unchanged once ')' is eaten.
ParenClose ==
  /\ Returning("Paren")
  /\ IF CurTok = ")"
       THEN /\ nodes' = [nodes EXCEPT ![ret].paren = @ + 1]
            /\ GetTok
            /\ Pop
            /\ UNCHANGED <<pc, ret, err, defVars>>
       ELSE Fail("expected ')'")

\* ParseIdentifierExpr: one more argument.
CallArg ==
  /\ Returning("Call")
  /\ CASE CurTok = ")" -> CloseCall(Append(Top.kids, ret))
       [] CurTok = "," ->
            /\ ReplaceAndPush([Top EXCEPT !.kids = Append(@, ret)], NewFrame("Expression"))
            /\ GetTok
            /\ pc' = "Primary"
            /\ UNCHANGED <<nodes, ret, err, defVars>>
       [] OTHER -> Fail("expected ')' or ','")

\* Mutant: only the last definition is kept.
DefinitionDone_Overwrites ==
  /\ pc = "Return" /\ err = "none" /\ stack = <<>>
  /\ lines' = <<[Proto |-> proto, Body |-> ret]>>
  /\ pc' = "Module"
  /\ UNCHANGED <<lexVars, stack, nodes, ret, err, proto>>

\* ParseFunctionDefinition returns to ParseModule, which keeps the definition.
DefinitionDone ==
  /\ pc = "Return" /\ err = "none" /\ stack = <<>>
  /\ lines' = Append(lines, [Proto |-> proto, Body |-> ret])
  /\ pc' = "Module"
  /\ UNCHANGED <<lexVars, stack, nodes, ret, err, proto>>

\* An error: each active call returns it to its caller, ParseModule to get().
Propagate ==
  /\ pc = "Return" /\ err # "none" /\ stack # <<>>
  /\ Pop
  /\ UNCHANGED <<lexVars, pc, nodes, ret, err, defVars>>

ModuleError ==
  /\ pc = "Return" /\ err # "none" /\ stack = <<>>
  /\ pc' = "Done"
  /\ UNCHANGED <<lexVars, stack, nodes, ret, err, defVars>>

-----------------------------------------------------------------------------
ParseModule == ModuleEnd \/ ModuleLineBreak \/ ModuleDefinition \/ ModuleUnexpected
ParsePrototype == PrototypeArg \/ PrototypeDelimiter \/ PrototypeType \/ PrototypeArrow
ParsePrimary == PrimaryUnknown \/ NumberExpr \/ ParenExpr \/ IdentifierExpr
ParseIdentifierExpr ==
  IdentifierVariable \/ IdentifierCall \/ CallFirstArg \/ CallNoArgs \/ CallArg
ParseBinOpRHS == BinOpDone \/ BinOpOperator \/ BinOpOperand \/ BinOpMerge
Terminated == pc = "Done" /\ UNCHANGED vars

Next ==
  \/ Construct
  \/ ParseModule \/ ParsePrototype \/ ParsePrimary \/ ParseIdentifierExpr
  \/ ExpressionOperand \/ ParseBinOpRHS \/ ParenClose \/ DefinitionDone
  \/ Propagate \/ ModuleError
  \/ Terminated

Spec == Init /\ [][Next]_vars

\* The parser is sequential code: it goes on as long as it can.
FairSpec == Spec /\ WF_vars(Next)
-----------------------------------------------------------------------------
Prototype == [Name : Text, Args : Seq(Text), first : Nat]
Definition(ids) == [Proto : Prototype, Body : ids]

\* Every variable has its type, and a node that is referred to exists: the
\* std::unique_ptr<ExprAST> a call returns, a frame holds or a node owns is never
\* null.
TypeOK ==
  /\ toks \in Seq(Token) /\ (pc # "Construct" => toks # <<>>)
  /\ identifier_str \in Text /\ real_num_value \in Text
  /\ pc \in PC
  /\ stack \in Seq(Frame(NodeIds))
  /\ nodes \in Seq(Node(NodeIds))
  /\ ret \in 0 .. Len(nodes) /\ (pc = "Return" /\ err = "none" => ret # 0)
  /\ err \in Error \cup {"none"}
  /\ proto \in Prototype
  /\ lines \in Seq(Definition(NodeIds))

-----------------------------------------------------------------------------
(***************************************************************************)
(* Precedence and associativity.  An unparenthesised operand of a binary   *)
(* expression binds at least as tightly as its operator on the left and    *)
(* more tightly on the right: the tree the comments of ParseBinOpRHS       *)
(* describe, for every mix of operators and nesting of calls and           *)
(* parentheses.                                                            *)
(***************************************************************************)
Tightest == 100   \* of a number, a variable, a call or parentheses

TopPrec(n) ==
  IF nodes[n].kind = "Binary" /\ nodes[n].paren = 0
    THEN GetTokPrecedence(nodes[n].val) ELSE Tightest

PrecedenceRespected ==
  \A n \in DOMAIN nodes : nodes[n].kind = "Binary" =>
    /\ TopPrec(nodes[n].kids[1]) >= GetTokPrecedence(nodes[n].val)
    /\ TopPrec(nodes[n].kids[2]) > GetTokPrecedence(nodes[n].val)

(***************************************************************************)
(* The AST spells the source: every node stands for the tokens it was made *)
(* from, each of them once, in their order, with the text the lexer's      *)
(* registers held when that token was current (and not what they hold when *)
(* the node is made, one or more tokens later).                            *)
(***************************************************************************)
Is(i, kind, text) == i \in DOMAIN toks /\ toks[i] = [kind |-> kind, text |-> text]
IsPunct(i, kind) == i \in DOMAIN toks /\ toks[i].kind = kind

SpellsNode(e) ==
  /\ \A i \in 1 .. e.paren : IsPunct(e.first - i, "(") /\ IsPunct(e.last + i, ")")
  /\ e.kind = "Number" => Is(e.first, "real_number", e.val) /\ e.last = e.first
  /\ e.kind = "Variable" => Is(e.first, "identifier", e.val) /\ e.last = e.first
  /\ e.kind = "Binary" =>
       LET op == LastOf(e.kids[1]) + 1
       IN  /\ e.first = FirstOf(e.kids[1]) /\ e.last = LastOf(e.kids[2])
           /\ IsPunct(op, e.val) /\ FirstOf(e.kids[2]) = op + 1
  /\ e.kind = "Call" =>
       LET n == Len(e.kids)
       IN  /\ Is(e.first, "identifier", e.val) /\ IsPunct(e.first + 1, "(") /\ IsPunct(e.last, ")")
           /\ n = 0 => e.last = e.first + 2
           /\ n > 0 => FirstOf(e.kids[1]) = e.first + 2 /\ LastOf(e.kids[n]) = e.last - 1
           /\ \A i \in 1 .. n - 1 : /\ IsPunct(LastOf(e.kids[i]) + 1, ",")
                                    /\ FirstOf(e.kids[i + 1]) = LastOf(e.kids[i]) + 2

SpellsDefinition(d) ==
  LET a == Len(d.Proto.Args)
      f == d.Proto.first
  IN  /\ Is(f, "identifier", d.Proto.Name)
      /\ \A i \in 1 .. a : /\ Is(f + 3 * i - 2, "identifier", d.Proto.Args[i])
                           /\ IsPunct(f + 3 * i - 1, ":")
                           /\ IsPunct(f + 3 * i, "identifier")
      /\ IsPunct(f + 3 * a + 1, "func_arrow")
      /\ FirstOf(d.Body) = f + 3 * a + 2

ASTSpellsSource ==
  /\ \A n \in DOMAIN nodes : SpellsNode(nodes[n])
  /\ \A i \in DOMAIN lines : SpellsDefinition(lines[i])

\* A module that parsed: every token but line breaks and the end of file is in
\* exactly one definition.
DefinitionsTileSource ==
  pc = "Done" /\ err = "none" =>
    \A t \in DOMAIN toks :
      toks[t].kind \notin {"line_break", "eof"} <=>
        Cardinality({i \in DOMAIN lines : t \in lines[i].Proto.first .. LastOf(lines[i].Body)}) = 1

(***************************************************************************)
(* Ownership.  A node is held by one std::unique_ptr: in its parent, in a  *)
(* local of an active call, in the result being returned or in the module. *)
(* No node has two owners, and until an error unwinds none is dropped.     *)
(***************************************************************************)
HoldersIn(s, n) == {p \in (DOMAIN s) \X (1 .. Len(toks)) :
                      p[2] \in DOMAIN s[p[1]].kids /\ s[p[1]].kids[p[2]] = n}

Owners(n) ==
  Cardinality(HoldersIn(nodes, n)) + Cardinality(HoldersIn(stack, n))
    + (IF pc = "Return" /\ err = "none" /\ ret = n THEN 1 ELSE 0)
    + Cardinality({i \in DOMAIN lines : lines[i].Body = n})

EveryNodeOwnedOnce ==
  \A n \in DOMAIN nodes : IF err = "none" THEN Owners(n) = 1 ELSE Owners(n) <= 1

(***************************************************************************)
(* The C++ stack.  A call of ParseBinOpRHS made by another one, in the     *)
(* same expression, is for a tighter operator, so there are never more     *)
(* than three, however long the expression: the depth of the recursion     *)
(* grows with the parentheses that are open and with nothing else.         *)
(***************************************************************************)
Eaten(kind) == Cardinality({i \in 1 .. Len(toks) - 1 : toks[i].kind = kind})

RecursionBounded ==
  /\ \A i \in 1 .. Len(stack) - 1 :
       stack[i].fn = "Merge" /\ stack[i + 1].fn \in {"RHS", "Merge"} =>
         GetTokPrecedence(stack[i].val) < GetTokPrecedence(stack[i + 1].val)
  /\ Len(stack) <= 4 * (Eaten("(") - Eaten(")")) + 4

\* The parser never asks the lexer for a token after the end of file, however
\* the source ends: in a prototype, an argument list, parentheses, an operand.
NeverReadsPastEof == \A i \in 1 .. Len(toks) - 1 : toks[i].kind # "eof"

\* Every source is parsed or rejected: no loop of the parser runs without eating
\* a token, and every active call returns.
Terminates == <>(pc = "Done")
-----------------------------------------------------------------------------
\* Parser.h: "numberexpr ::= number".  The lexer has two kinds of number tokens.
EveryNumberIsPrimary == err = "expected an expression" => CurTok # "relative_number"

\* README.md, of "MAIN _ => ...": '"_" signifies no arguments being passed'.
UnderscoreIsNoArguments ==
  err = "expected a function arrow" => ~(CurTok = "_" /\ proto.Args = <<>>)
=============================================================================
