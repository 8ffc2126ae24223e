--------------------------- MODULE CompilerProofs ---------------------------
(***************************************************************************)
(* Proofs about Compiler, for files of any length.  What LexerProofs,      *)
(* ParserProofs, SpellingProofs and GeneratorProofs prove of each part by  *)
(* itself holds of the part in the program, because every step of the      *)
(* program is a step of one of them, or leaves its variables alone; and    *)
(* what one part takes for granted of the one before it is among the       *)
(* things proved of that one.                                              *)
(***************************************************************************)
EXTENDS Compiler, BasicFacts, FiniteSetTheorems

\* The parts again, now with what is proved of them
LexP == INSTANCE LexerProofs WITH pc <- lpc, MaxChars <- [alphabet \in {Chars} |-> MaxChars]
ParP == INSTANCE SpellingProofs WITH pc <- ppc, ret <- pret, Kinds <- Lex!Kind \ {"eof"},
                                     MaxTokens <- MaxChars
GenP == INSTANCE GeneratorProofs WITH pc <- gpc, ret <- gret, stack <- calls, mod <- Result,
                                      Names <- Idents, Programs <- {}

-----------------------------------------------------------------------------
(***************************************************************************)
(* The parts are the same in both instances.                               *)
(***************************************************************************)
LEMMA LexerGet == Lex!get <=> LexP!get
BY DEF Lex!Last, LexP!Last, Lex!ToSet, LexP!ToSet, Lex!Alpha, LexP!Alpha, Lex!Digit, LexP!Digit,
   Lex!Alnum, LexP!Alnum, Lex!Space, LexP!Space, Lex!Break, LexP!Break, Lex!Single, LexP!Single,
   Lex!Char, LexP!Char, Lex!SourceChars, LexP!SourceChars, Lex!last_char, LexP!last_char, Lex!text,
   LexP!text, Lex!hadDot, LexP!hadDot, Lex!Read, LexP!Read, Lex!Return, LexP!Return, Lex!ReturnChar,
   LexP!ReturnChar, Lex!Pair, LexP!Pair, Lex!SkipSpace, LexP!SkipSpace, Lex!Begins, LexP!Begins,
   Lex!Begin, LexP!Begin, Lex!NumberGoesOn, LexP!NumberGoesOn, Lex!CommentStops, LexP!CommentStops,
   Lex!GoesOn, LexP!GoesOn, Lex!More, LexP!More, Lex!End, LexP!End, Lex!IdentifierEnd,
   LexP!IdentifierEnd, Lex!NumberEnd, LexP!NumberEnd, Lex!IsPair, LexP!IsPair, Lex!OperatorSingle,
   LexP!OperatorSingle, Lex!OperatorPair, LexP!OperatorPair, Lex!CommentEnd, LexP!CommentEnd,
   Lex!LineBreak, LexP!LineBreak, Lex!EofToken, LexP!EofToken, Lex!EofEnds, LexP!EofEnds,
   Lex!EndOfFile, LexP!EndOfFile, Lex!OtherChar, LexP!OtherChar, Lex!get, LexP!get

LEMMA ParserNext == Par!Next <=> ParP!Next
<1>1. Par!Construct <=> ParP!Construct
  BY DEF Par!Construct, ParP!Construct, Par!GetTok, ParP!GetTok, Par!defVars, ParP!defVars, Par!NextTokens,
     ParP!NextTokens, Par!Last, ParP!Last, Par!TextsOf, ParP!TextsOf
<1>2. Par!ParseModule <=> ParP!ParseModule
  BY DEF Par!ParseModule, ParP!ParseModule, Par!ModuleEnd, ParP!ModuleEnd, Par!ModuleLineBreak,
     ParP!ModuleLineBreak, Par!ModuleDefinition, ParP!ModuleDefinition, Par!ModuleUnexpected,
     ParP!ModuleUnexpected, Par!CurTok, ParP!CurTok, Par!lexVars, ParP!lexVars, Par!defVars, ParP!defVars,
     Par!GetTok, ParP!GetTok, Par!Fail, ParP!Fail, Par!Last, ParP!Last, Par!NextTokens, ParP!NextTokens,
     Par!TextsOf, ParP!TextsOf
<1>3. Par!ParsePrototype <=> ParP!ParsePrototype
  BY DEF Par!ParsePrototype, ParP!ParsePrototype, Par!PrototypeArg, ParP!PrototypeArg,
     Par!PrototypeDelimiter, ParP!PrototypeDelimiter, Par!PrototypeType, ParP!PrototypeType,
     Par!PrototypeArrow, ParP!PrototypeArrow, Par!CurTok, ParP!CurTok, Par!GetTok, ParP!GetTok, Par!defVars,
     ParP!defVars, Par!Fail, ParP!Fail, Par!CallExpression, ParP!CallExpression, Par!Last, ParP!Last,
     Par!NextTokens, ParP!NextTokens, Par!lexVars, ParP!lexVars, Par!Push, ParP!Push, Par!NewFrame,
     ParP!NewFrame, Par!TextsOf, ParP!TextsOf
<1>4. Par!ParsePrimary <=> ParP!ParsePrimary
  BY DEF Par!ParsePrimary, ParP!ParsePrimary, Par!PrimaryUnknown, ParP!PrimaryUnknown, Par!NumberExpr,
     ParP!NumberExpr, Par!ParenExpr, ParP!ParenExpr, Par!IdentifierExpr, ParP!IdentifierExpr, Par!CurTok,
     ParP!CurTok, Par!Fail, ParP!Fail, Par!ReturnNew, ParP!ReturnNew, Par!NewNode, ParP!NewNode, Par!GetTok,
     ParP!GetTok, Par!defVars, ParP!defVars, Par!NewFrame, ParP!NewFrame, Par!Push, ParP!Push, Par!Last,
     ParP!Last, Par!lexVars, ParP!lexVars, Par!NextTokens, ParP!NextTokens, Par!TextsOf, ParP!TextsOf
<1>5. Par!IdentifierVariable <=> ParP!IdentifierVariable
  BY DEF Par!IdentifierVariable, ParP!IdentifierVariable, Par!CurTok, ParP!CurTok, Par!ReturnNew,
     ParP!ReturnNew, Par!NewNode, ParP!NewNode, Par!Top, ParP!Top, Par!Pop, ParP!Pop, Par!lexVars,
     ParP!lexVars, Par!defVars, ParP!defVars, Par!Last, ParP!Last, Par!Front, ParP!Front
<1>6. Par!IdentifierCall <=> ParP!IdentifierCall
  BY DEF Par!IdentifierCall, ParP!IdentifierCall, Par!CurTok, ParP!CurTok, Par!GetTok, ParP!GetTok,
     Par!defVars, ParP!defVars, Par!Last, ParP!Last, Par!NextTokens, ParP!NextTokens, Par!TextsOf,
     ParP!TextsOf
<1>7. Par!CallFirstArg <=> ParP!CallFirstArg
  BY DEF Par!CallFirstArg, ParP!CallFirstArg, Par!CurTok, ParP!CurTok, Par!CallExpression,
     ParP!CallExpression, Par!lexVars, ParP!lexVars, Par!defVars, ParP!defVars, Par!Last, ParP!Last,
     Par!Push, ParP!Push, Par!NewFrame, ParP!NewFrame
<1>8. Par!CallNoArgs <=> ParP!CallNoArgs
  BY DEF Par!CallNoArgs, ParP!CallNoArgs, Par!CurTok, ParP!CurTok, Par!CloseCall, ParP!CloseCall, Par!Last,
     ParP!Last, Par!ReturnNew, ParP!ReturnNew, Par!NewNode, ParP!NewNode, Par!Top, ParP!Top, Par!GetTok,
     ParP!GetTok, Par!Pop, ParP!Pop, Par!defVars, ParP!defVars, Par!NextTokens, ParP!NextTokens, Par!Front,
     ParP!Front, Par!TextsOf, ParP!TextsOf
<1>9. Par!CallArg <=> ParP!CallArg
  BY DEF Par!CallArg, ParP!CallArg, Par!Returning, ParP!Returning, Par!CurTok, ParP!CurTok, Par!CloseCall,
     ParP!CloseCall, Par!Top, ParP!Top, Par!ReplaceAndPush, ParP!ReplaceAndPush, Par!NewFrame,
     ParP!NewFrame, Par!GetTok, ParP!GetTok, Par!defVars, ParP!defVars, Par!Fail, ParP!Fail, Par!Last,
     ParP!Last, Par!ReturnNew, ParP!ReturnNew, Par!NewNode, ParP!NewNode, Par!Pop, ParP!Pop, Par!Front,
     ParP!Front, Par!NextTokens, ParP!NextTokens, Par!lexVars, ParP!lexVars, Par!TextsOf, ParP!TextsOf
<1>10. Par!ExpressionOperand <=> ParP!ExpressionOperand
  BY DEF Par!ExpressionOperand, ParP!ExpressionOperand, Par!Returning, ParP!Returning, Par!Replace,
     ParP!Replace, Par!NewFrame, ParP!NewFrame, Par!lexVars, ParP!lexVars, Par!defVars, ParP!defVars,
     Par!Top, ParP!Top, Par!Front, ParP!Front, Par!Last, ParP!Last
<1>11. Par!BinOpDone <=> ParP!BinOpDone
  BY DEF Par!BinOpDone, ParP!BinOpDone, Par!GetTokPrecedence, ParP!GetTokPrecedence, Par!CurTok,
     ParP!CurTok, Par!Top, ParP!Top, Par!Pop, ParP!Pop, Par!lexVars, ParP!lexVars, Par!defVars,
     ParP!defVars, Par!TokCode, ParP!TokCode, Par!binop_array_offset, ParP!binop_array_offset,
     Par!init_binop_precedence, ParP!init_binop_precedence, Par!Last, ParP!Last, Par!Front, ParP!Front,
     Par!binop_array_size, ParP!binop_array_size
<1>12. Par!BinOpOperator <=> ParP!BinOpOperator
  BY DEF Par!BinOpOperator, ParP!BinOpOperator, Par!GetTokPrecedence, ParP!GetTokPrecedence, Par!CurTok,
     ParP!CurTok, Par!Top, ParP!Top, Par!Replace, ParP!Replace, Par!GetTok, ParP!GetTok, Par!defVars,
     ParP!defVars, Par!TokCode, ParP!TokCode, Par!binop_array_offset, ParP!binop_array_offset,
     Par!init_binop_precedence, ParP!init_binop_precedence, Par!Last, ParP!Last, Par!Front, ParP!Front,
     Par!NextTokens, ParP!NextTokens, Par!binop_array_size, ParP!binop_array_size, Par!TextsOf, ParP!TextsOf
<1>13. Par!BinOpOperand <=> ParP!BinOpOperand
  BY DEF Par!BinOpOperand, ParP!BinOpOperand, Par!Returning, ParP!Returning, Par!NextBindsTighter,
     ParP!NextBindsTighter, Par!Top, ParP!Top, Par!ReplaceAndPush, ParP!ReplaceAndPush, Par!NewFrame,
     ParP!NewFrame, Par!RecursionPrec, ParP!RecursionPrec, Par!lexVars, ParP!lexVars, Par!defVars,
     ParP!defVars, Par!MergeOperands, ParP!MergeOperands, Par!GetTokPrecedence, ParP!GetTokPrecedence,
     Par!CurTok, ParP!CurTok, Par!Last, ParP!Last, Par!Front, ParP!Front, Par!NewNode, ParP!NewNode,
     Par!FirstOf, ParP!FirstOf, Par!LastOf, ParP!LastOf, Par!Replace, ParP!Replace, Par!TokCode,
     ParP!TokCode, Par!binop_array_offset, ParP!binop_array_offset, Par!init_binop_precedence,
     ParP!init_binop_precedence, Par!binop_array_size, ParP!binop_array_size
<1>14. Par!BinOpMerge <=> ParP!BinOpMerge
  BY DEF Par!BinOpMerge, ParP!BinOpMerge, Par!Returning, ParP!Returning, Par!MergeOperands,
     ParP!MergeOperands, Par!Top, ParP!Top, Par!NewNode, ParP!NewNode, Par!FirstOf, ParP!FirstOf,
     Par!LastOf, ParP!LastOf, Par!Replace, ParP!Replace, Par!lexVars, ParP!lexVars, Par!defVars,
     ParP!defVars, Par!Last, ParP!Last, Par!Front, ParP!Front
<1>15. Par!ParenClose <=> ParP!ParenClose
  BY DEF Par!ParenClose, ParP!ParenClose, Par!Returning, ParP!Returning, Par!CurTok, ParP!CurTok,
     Par!GetTok, ParP!GetTok, Par!Pop, ParP!Pop, Par!defVars, ParP!defVars, Par!Fail, ParP!Fail, Par!Top,
     ParP!Top, Par!Last, ParP!Last, Par!NextTokens, ParP!NextTokens, Par!Front, ParP!Front, Par!lexVars,
     ParP!lexVars, Par!TextsOf, ParP!TextsOf
<1>16. Par!DefinitionDone <=> ParP!DefinitionDone
  BY DEF Par!DefinitionDone, ParP!DefinitionDone, Par!lexVars, ParP!lexVars
<1>17. Par!Propagate <=> ParP!Propagate
  BY DEF Par!Propagate, ParP!Propagate, Par!Pop, ParP!Pop, Par!lexVars, ParP!lexVars, Par!defVars,
     ParP!defVars, Par!Front, ParP!Front
<1>18. Par!ModuleError <=> ParP!ModuleError
  BY DEF Par!ModuleError, ParP!ModuleError, Par!lexVars, ParP!lexVars, Par!defVars, ParP!defVars
<1>19. Par!Terminated <=> ParP!Terminated
  BY DEF Par!Terminated, ParP!Terminated, Par!vars, ParP!vars, Par!lexVars, ParP!lexVars, Par!defVars,
     ParP!defVars
<1> QED
  BY <1>1, <1>2, <1>3, <1>4, <1>5, <1>6, <1>7, <1>8, <1>9, <1>10, <1>11, <1>12, <1>13, <1>14, <1>15, <1>16,
     <1>17, <1>18, <1>19 DEF Par!ParseIdentifierExpr, ParP!ParseIdentifierExpr, Par!ParseBinOpRHS,
     ParP!ParseBinOpRHS, Par!Next, ParP!Next

LEMMA GeneratorNext == Gen!Next <=> GenP!Next
BY DEF Gen!Last, GenP!Last, Gen!Front, GenP!Front, Gen!ToSet, GenP!ToSet, Gen!Cardinality,
   GenP!Cardinality, Gen!IsFiniteSet, GenP!IsFiniteSet, Gen!Operator, GenP!Operator, Gen!vars,
   GenP!vars, Gen!Error, GenP!Error, Gen!Value, GenP!Value, Gen!Null, GenP!Null, Gen!Failure,
   GenP!Failure, Gen!Failed, GenP!Failed, Gen!Top, GenP!Top, Gen!ast, GenP!ast, Gen!With, GenP!With,
   Gen!FrameOf, GenP!FrameOf, Gen!Return, GenP!Return, Gen!Numbered, GenP!Numbered, Gen!NextNumber,
   GenP!NextNumber, Gen!WithName, GenP!WithName, Gen!setNames, GenP!setNames, Gen!Emit, GenP!Emit,
   Gen!Instr, GenP!Instr, Gen!Create, GenP!Create, Gen!Init, GenP!Init, Gen!Report, GenP!Report,
   Gen!ParserResult, GenP!ParserResult, Gen!Crash, GenP!Crash, Gen!GoOn, GenP!GoOn, Gen!LinesDone,
   GenP!LinesDone, Gen!PrototypeASTtoIR, GenP!PrototypeASTtoIR, Gen!hasBody, GenP!hasBody,
   Gen!Argument, GenP!Argument, Gen!Recorded, GenP!Recorded, Gen!BeginFunction, GenP!BeginFunction,
   Gen!FinishFunction, GenP!FinishFunction, Gen!eraseFromParent, GenP!eraseFromParent,
   Gen!RemoveFunction, GenP!RemoveFunction, Gen!At, GenP!At, Gen!Rest, GenP!Rest, Gen!Visit,
   GenP!Visit, Gen!NumberExprASTtoIR, GenP!NumberExprASTtoIR, Gen!VariableExprASTtoIR,
   GenP!VariableExprASTtoIR, Gen!BinaryOperand, GenP!BinaryOperand, Gen!BinaryFailed,
   GenP!BinaryFailed, Gen!BinaryOperation, GenP!BinaryOperation, Gen!Callable, GenP!Callable,
   Gen!CallRejected, GenP!CallRejected, Gen!CallArgument, GenP!CallArgument, Gen!CallFailed,
   GenP!CallFailed, Gen!CreateCall, GenP!CreateCall, Gen!ExprASTtoIR, GenP!ExprASTtoIR,
   Gen!Terminated, GenP!Terminated, Gen!Next, GenP!Next

-----------------------------------------------------------------------------
(***************************************************************************)
(* Each part's assumptions on its constants hold in the program.           *)
(***************************************************************************)
LEMMA LexerAssumptions ==
  LET sizes == [alphabet \in {Chars} |-> MaxChars]
  IN  /\ LexP!SourceChars \subseteq LexP!Char
      /\ \A alphabet \in DOMAIN sizes : sizes[alphabet] \in Nat
      /\ \E longest \in DOMAIN sizes : \A alphabet \in DOMAIN sizes : sizes[alphabet] <= sizes[longest]
      /\ Extern \in Seq(LexP!Alpha)
<1>1. LexP!SourceChars = Chars
  BY DEF LexP!SourceChars
<1>2. Lex!Char = LexP!Char /\ Lex!Alpha = LexP!Alpha
  BY DEF LexP!Char, Lex!Char, LexP!Alnum, Lex!Alnum, LexP!Alpha, Lex!Alpha, LexP!Digit, Lex!Digit,
     LexP!Space, Lex!Space, LexP!Break, Lex!Break, LexP!Single, Lex!Single
<1> QED
  BY <1>1, <1>2, CharsAssumption, ExternAssumption, MaxCharsAssumption

LEMMA ParserAssumptions == Lex!Kind \ {"eof"} \subseteq ParP!Kind /\ MaxChars \in Nat
BY MaxCharsAssumption DEF Lex!Kind, Lex!Single, ParP!Kind

-----------------------------------------------------------------------------
(***************************************************************************)
(* Each part runs as its own specification says.                           *)
(***************************************************************************)
LEMMA LexerRuns == Spec => LexP!Spec
<1>1. Init => LexP!Init
  BY DEF Init, Lex!Init, LexP!Init
<1>2. [Next]_vars => [LexP!Next]_(LexP!vars)
  <2> SUFFICES ASSUME [Next]_vars PROVE LexP!Next \/ UNCHANGED LexP!vars
    OBVIOUS
  <2>1. CASE CallLexer
    <3>1. Lex!Call
      BY <2>1 DEF CallLexer
    <3>2. LexP!Call
      BY <3>1 DEF Lex!Call, LexP!Call, Lex!Cardinality, LexP!Cardinality
    <3> QED
      BY <3>2 DEF LexP!Next
  <2>2. CASE RunLexer \/ LexerReturns
    <3>1. LexP!get
      BY <2>2, LexerGet DEF RunLexer, LexerReturns, LexerStep
    <3> QED
      BY <3>1 DEF LexP!Next
  <2>3. CASE UNCHANGED lexVars
    BY <2>3 DEF lexVars, LexP!vars
  <2> QED
    BY <2>1, <2>2, <2>3, Zenon DEF Next, Program, NoArguments, CompileLLVM, OpenFile, RunParser, RunGenerator,
       MainEnds, RemoveFile, Terminated, vars
<1> QED
  BY <1>1, <1>2, PTL DEF Spec, LexP!Spec

LEMMA ParserSteps == [Next]_vars => [ParP!Next]_(ParP!vars)
<1> SUFFICES ASSUME [Next]_vars PROVE ParP!Next \/ UNCHANGED ParP!vars
  OBVIOUS
<1>1. CASE LexerReturns \/ RunParser
  BY <1>1, ParserNext DEF LexerReturns, RunParser
<1>2. CASE UNCHANGED parVars
  BY <1>2 DEF parVars, tokVars, ParP!vars, ParP!lexVars, ParP!defVars
<1> QED
  BY <1>1, <1>2, Zenon DEF Next, Program, NoArguments, CompileLLVM, OpenFile, CallLexer, RunLexer, RunGenerator,
     MainEnds, RemoveFile, Terminated, vars

LEMMA ParserRuns == Spec => ParP!Spec
<1>1. Init => ParP!Init
  BY DEF Init, Par!Init, ParP!Init
<1> QED
  BY <1>1, ParserSteps, PTL DEF Spec, ParP!Spec

-----------------------------------------------------------------------------
(***************************************************************************)
(* Between the lexer and the parser                                        *)
(***************************************************************************)
\* The tokens the parser has are the ones the lexer returned.
Handed ==
  /\ Len(toks) = Len(out)
  /\ \A i \in 1 .. Len(toks) : toks[i].kind = out[i].kind

\* What is known of the two parts at any time
FrontEnd ==
  /\ LexP!Inv /\ LexP!CharactersInv /\ LexP!EofRests
  /\ ParP!TypeInv /\ ParP!ASTSound /\ ParP!FinishedAtEof /\ ParP!PrecedenceRespected
  /\ ParP!NeverReadsPastEof /\ ParP!TileInv

LEMMA FrontEndHolds == Spec => []FrontEnd
<1>1. LexP!Spec => []LexP!Inv
  BY LexP!Invariant, LexerAssumptions
<1>2. ParP!Spec => [](ParP!TypeInv /\ ParP!ASTSound)
  BY ParP!ASTInvariant, ParserAssumptions
<1>3. ParP!Spec => []ParP!FinishedAtEof
  BY ParP!Finishes, ParserAssumptions
<1>4. ParP!Spec => []ParP!PrecedenceRespected
  BY ParP!PrecedenceCorrect, ParserAssumptions
<1>5. LexP!Spec => [](LexP!CharactersInv /\ LexP!EofRests)
  BY LexP!CharactersHold, LexerAssumptions
<1>6. ParP!Spec => []ParP!TileInv
  BY ParP!TilingHolds, ParserAssumptions
<1>7. ParP!Spec => []ParP!NeverReadsPastEof
  BY ParP!EofIsLast, ParserAssumptions
<1> QED
  BY <1>1, <1>2, <1>3, <1>4, <1>5, <1>6, <1>7, LexerRuns, ParserRuns, PTL DEF FrontEnd

\* The sequences of tokens, as they are known to be
LEMMA TokensAre ==
  FrontEnd => /\ out \in Seq([kind : LexP!Kind, first : Nat, last : Nat])
              /\ toks \in Seq(ParP!Token)
BY DEF FrontEnd, LexP!Inv, LexP!Types, ParP!TypeInv, ParP!TypeOK

LEMMA HandedStep ==
  ASSUME FrontEnd, FrontEnd', Handed, [Next]_vars
  PROVE  Handed'
<1> DEFINE S == [kind : LexP!Kind, first : Nat, last : Nat]
           T == ParP!Token
<1>0. out \in Seq(S) /\ toks \in Seq(T)
  BY TokensAre
<1>0p. out' \in Seq(S) /\ toks' \in Seq(T)
  <2>1. (out \in Seq([kind : LexP!Kind, first : Nat, last : Nat]) /\ toks \in Seq(ParP!Token))'
    BY TokensAre, PTL
  <2> QED
    BY <2>1 DEF LexP!Kind, LexP!Single, ParP!Token, ParP!Kind, ParP!TextsOf, ParP!Text
<1> HIDE DEF S, T
<1>1. CASE UNCHANGED <<toks, out>>
  BY <1>1 DEF Handed
<1>2. CASE LexerReturns
  <2>1. LexP!get /\ lpc' = "Idle" /\ toks' = Append(toks, Token(Last(out')))
    BY <1>2, LexerGet DEF LexerReturns, LexerStep
  <2>2. PICK kind, first, last : out' = Append(out, [kind |-> kind, first |-> first, last |-> last])
    BY <2>1, LexP!OneTokenPerCall, LexerAssumptions
  <2> DEFINE t == [kind |-> kind, first |-> first, last |-> last]
             u == Token(Last(out'))
  <2>3. \A s \in Seq(S) : \A e : Append(s, e) \in Seq(S) => e \in S
    OBVIOUS
  <2>4. \A s \in Seq(T) : \A e : Append(s, e) \in Seq(T) => e \in T
    OBVIOUS
  <2>5. t \in S /\ u \in T
    BY <1>0, <1>0p, <2>1, <2>2, <2>3, <2>4
  <2>6. /\ Len(out') = Len(out) + 1 /\ out'[Len(out) + 1] = t /\ Last(out') = t
        /\ \A i \in 1 .. Len(out) : out'[i] = out[i]
    BY <1>0, <2>2, <2>5, AppendLast
  <2>7. /\ Len(toks') = Len(toks) + 1 /\ toks'[Len(toks) + 1] = u
        /\ \A i \in 1 .. Len(toks) : toks'[i] = toks[i]
    BY <1>0, <2>1, <2>5, AppendLast
  <2>8. u.kind = t.kind
    BY <2>6 DEF Token
  <2> DEFINE n == Len(toks)
  <2>9. n \in Nat /\ n = Len(out)
    BY <1>0, LenProperties DEF Handed
  <2> HIDE DEF n, t, u
  <2>10. \A i \in 1 .. n + 1 : toks'[i].kind = out'[i].kind
    <3>1. \A i \in 1 .. n + 1 : i = n + 1 \/ i \in 1 .. n
      BY <2>9
    <3>2. \A i \in 1 .. n : toks'[i].kind = out'[i].kind
      BY <2>6, <2>7, <2>9 DEF Handed, n
    <3>3. toks'[n + 1].kind = out'[n + 1].kind
      BY <2>6, <2>7, <2>8, <2>9 DEF n
    <3> QED
      BY <3>1, <3>2, <3>3
  <2> QED
    BY <2>6, <2>7, <2>9, <2>10 DEF Handed, n
<1>3. CASE RunLexer
  <2>1. LexP!get /\ lpc' # "Idle" /\ UNCHANGED toks
    BY <1>3, LexerGet DEF RunLexer, LexerStep, parVars, tokVars
  <2>2. out' = out
    BY <2>1, LexP!OneTokenPerCall, LexerAssumptions
  <2> QED
    BY <1>1, <2>1, <2>2
<1>4. CASE CallLexer
  BY <1>1, <1>4 DEF CallLexer, Lex!Call, parVars, tokVars
<1> QED
  BY <1>1, <1>2, <1>3, <1>4, Zenon DEF Next, Program, NoArguments, CompileLLVM, OpenFile, RunParser, RunGenerator,
     MainEnds, RemoveFile, Terminated, vars, lexVars, parVars, tokVars

LEMMA HandedHolds == Spec => []Handed
<1>1. Init => Handed
  BY DEF Init, Lex!Init, Par!Init, Handed
<1>2. Handed /\ [Next]_vars /\ FrontEnd /\ FrontEnd' => Handed'
  BY HandedStep
<1> QED
  BY <1>1, <1>2, FrontEndHolds, PTL DEF Spec

\* A module that was parsed was read to its end.
LEMMA ReadToTheEnd ==
  ASSUME FrontEnd, Handed, ppc = "Done", err = "none"
  PROVE  Last(input) = "EOF"
<1> DEFINE S == [kind : LexP!Kind, first : Nat, last : Nat]
           T == ParP!Token
           C == LexP!Chars
           n == Len(out)
           m == Len(input)
<1>0. out \in Seq(S) /\ toks \in Seq(T) /\ input \in Seq(C)
  BY TokensAre DEF FrontEnd, LexP!Inv, LexP!Types
<1>1. toks # <<>> /\ ParP!CurTok = "eof"
  BY DEF FrontEnd, ParP!FinishedAtEof, ParP!TypeInv, ParP!TypeOK
<1> HIDE DEF S, T, C
<1>2. Len(toks) \in Nat \ {0} /\ Last(toks) = toks[Len(toks)]
  BY <1>0, <1>1, FrontLast
<1>3. n \in 1 .. Len(toks) /\ n \in DOMAIN out /\ out[n].kind = "eof"
  <2>1. ParP!CurTok = Last(toks).kind
    BY DEF ParP!CurTok, ParP!Last, Last
  <2>2. DOMAIN out = 1 .. n /\ n = Len(toks)
    BY <1>0, LenProperties DEF Handed
  <2> QED
    BY <1>1, <1>2, <2>1, <2>2 DEF Handed
<1>4. LexP!TokenIs(out[n], input)
  BY <1>3 DEF FrontEnd, LexP!Inv, LexP!TokensInv
<1>5. out[n].first \in 1 .. m /\ input[m] = "EOF"
  BY <1>3, <1>4 DEF LexP!TokenIs
<1>6. m # 0
  BY <1>5
<1>7. input # <<>>
  BY <1>6
<1> HIDE DEF m
<1>8. Last(input) = input[m]
  BY <1>0, <1>7, FrontLast DEF m
<1> QED
  BY <1>5, <1>8

-----------------------------------------------------------------------------
(***************************************************************************)
(* The classes of the AST                                                  *)
(***************************************************************************)
\* The type that each class of nodes stores stands for that class.
LEMMA TypesOfClasses ==
  /\ ast_type("NumberExprAST") = 1 /\ ast_type("VariableExprAST") = 2
  /\ ast_type("BinaryExprAST") = 3 /\ ast_type("CallExprAST") = 4
  /\ ast_type("FunctionDefAST") = 6
<1> DEFINE Place(c) == {i \in 1 .. Len(AST_TYPES) : AST_TYPES[i] = c}
<1>1. \A c : ast_type(c) = IF Place(c) # {} THEN Min(Place(c)) ELSE 0
  BY DEF ast_type, SelectInSeq
<1>2. /\ Place("NumberExprAST") = {1} /\ Place("VariableExprAST") = {2} /\ Place("BinaryExprAST") = {3}
      /\ Place("CallExprAST") = {4} /\ Place("FunctionDefAST") = {6}
  BY DEF AST_TYPES
<1>3. \A n \in Nat : Min({n}) = n
  BY DEF Min
<1> HIDE DEF Place
<1> QED
  BY <1>1, <1>2, <1>3

\* The classes a class is derived from
LEMMA BasesAre ==
  ASSUME NEW base
  PROVE  \E bases :
           /\ \A c \in Class : IsBaseOf(base, c) <=> base \in bases[c]
           /\ \A c \in Class : bases[c] = {c} \cup IF c \in DOMAIN Base THEN bases[Base[c]] ELSE {}
<1> DEFINE Step(f) == [c \in Class |-> {c} \cup IF c \in DOMAIN Base THEN f[Base[c]] ELSE {}]
           bases == CHOOSE f : f = Step(f)
           b0 == {"BaseAST"}
           b1 == {"EagerAST"} \cup b0
           b2 == {"ExprAST"} \cup b1
           b3 == {"DefinitionAST"} \cup b1
           g == [c \in Class |->
                   IF c = "BaseAST" THEN b0
                   ELSE IF c = "EagerAST" THEN b1
                   ELSE IF c = "LazyAST" THEN {"LazyAST"} \cup b0
                   ELSE IF c = "ExprAST" THEN b2
                   ELSE IF c = "DefinitionAST" THEN b3
                   ELSE IF c \in {"PrototypeAST", "ModuleAST"} THEN {c} \cup b1
                   ELSE IF c = "FunctionDefAST" THEN {c} \cup b3
                   ELSE {c} \cup b2]
<1>1. \A c \in Class : g[c] = {c} \cup IF c \in DOMAIN Base THEN g[Base[c]] ELSE {}
  <2> SUFFICES ASSUME NEW c \in Class PROVE g[c] = {c} \cup IF c \in DOMAIN Base THEN g[Base[c]] ELSE {}
    OBVIOUS
  <2>1. CASE c = "BaseAST"
    BY <2>1 DEF Class, Base
  <2>2. CASE c \in {"EagerAST", "LazyAST"}
    BY <2>2 DEF Class, Base
  <2>3. CASE c \in {"ExprAST", "DefinitionAST", "PrototypeAST", "ModuleAST"}
    BY <2>3 DEF Class, Base
  <2>4. CASE c = "FunctionDefAST"
    BY <2>4 DEF Class, Base
  <2>5. CASE c \in {"NumberExprAST", "VariableExprAST", "BinaryExprAST", "CallExprAST"}
    BY <2>5 DEF Class, Base
  <2> QED
    BY <2>1, <2>2, <2>3, <2>4, <2>5 DEF Class, Base
<1>2. g = Step(g)
  BY <1>1
<1> HIDE DEF g
<1>3. bases = Step(bases)
  BY <1>2
<1>4. \A c : IsBaseOf(base, c) <=> base \in bases[c]
  BY DEF IsBaseOf
<1> HIDE DEF bases
<1> QED
  BY <1>3, <1>4

\* A node's class is an expression and not lazy, a function is a definition.
LEMMA ClassesAre ==
  /\ \A type \in 1 .. 4 : is_expression(type) /\ ~is_lazy(type)
  /\ is_definition(6)
<1>1. AstType \ {ErrorAST_t} = 1 .. 7 /\ ClassOf(6) = "FunctionDefAST"
      /\ \A t \in 1 .. 4 : ClassOf(t) \in {"NumberExprAST", "VariableExprAST", "BinaryExprAST", "CallExprAST"}
  BY DEF AstType, ErrorAST_t, AST_TYPES, ClassOf
<1>2. ASSUME NEW class \in {"NumberExprAST", "VariableExprAST", "BinaryExprAST", "CallExprAST"}
      PROVE  IsBaseOf("ExprAST", class) /\ ~IsBaseOf("LazyAST", class)
  <2>0. /\ class \in Class /\ class \in DOMAIN Base /\ Base[class] = "ExprAST" /\ class # "LazyAST"
        /\ "ExprAST" \in Class /\ "ExprAST" \in DOMAIN Base /\ Base["ExprAST"] = "EagerAST"
        /\ "EagerAST" \in Class /\ "EagerAST" \in DOMAIN Base /\ Base["EagerAST"] = "BaseAST"
        /\ "BaseAST" \in Class /\ "BaseAST" \notin DOMAIN Base
    BY DEF Class, Base
  <2>1. IsBaseOf("ExprAST", class)
    BY <2>0, BasesAre
  <2>2. ~IsBaseOf("LazyAST", class)
    <3>1. PICK bases : /\ \A c \in Class : IsBaseOf("LazyAST", c) <=> "LazyAST" \in bases[c]
                       /\ \A c \in Class : bases[c] = {c} \cup IF c \in DOMAIN Base THEN bases[Base[c]] ELSE {}
      BY BasesAre
    <3>2. "LazyAST" \notin bases["BaseAST"]
      BY <2>0, <3>1
    <3>3. bases["EagerAST"] = {"EagerAST"} \cup bases["BaseAST"]
      BY <2>0, <3>1
    <3>4. bases["ExprAST"] = {"ExprAST"} \cup bases["EagerAST"]
      BY <2>0, <3>1
    <3>5. bases[class] = {class} \cup bases["ExprAST"]
      BY <2>0, <3>1
    <3> QED
      BY <2>0, <3>1, <3>2, <3>3, <3>4, <3>5
  <2> QED
    BY <2>1, <2>2
<1>3. IsBaseOf("DefinitionAST", "FunctionDefAST")
  <2>1. /\ "FunctionDefAST" \in Class /\ Base["FunctionDefAST"] = "DefinitionAST"
        /\ "FunctionDefAST" \in DOMAIN Base /\ "DefinitionAST" \in Class
    BY DEF Class, Base
  <2> QED
    BY <2>1, BasesAre
<1>4. \A type \in 1 .. 7 : \A base : Asks(type, base) <=> IsBaseOf(base, ClassOf(type))
  BY <1>1 DEF Asks
<1> QED
  BY <1>1, <1>2, <1>3, <1>4 DEF is_expression, is_lazy, is_definition

\* The class that the generator casts a node to is the one the parser made it of.
LEMMA CastIs == \A kind \in DOMAIN ExprClass : CastTo(kind) = kind
<1> SUFFICES ASSUME NEW kind \in DOMAIN ExprClass PROVE CastTo(kind) = kind
  OBVIOUS
<1>1. DOMAIN ExprClass = {"Number", "Variable", "Binary", "Call"}
  BY DEF ExprClass
<1>2. ClassOf(ast_type(ExprClass[kind])) = ExprClass[kind]
  BY <1>1, TypesOfClasses DEF ExprClass, ClassOf, AST_TYPES
<1>3. \A k \in DOMAIN ExprClass : ExprClass[k] = ExprClass[kind] => k = kind
  BY <1>1 DEF ExprClass
<1> QED
  BY <1>2, <1>3 DEF CastTo

-----------------------------------------------------------------------------
(***************************************************************************)
(* Between the parser and the generator                                    *)
(***************************************************************************)
\* A node of the parser's, as the generator sees it
Seen(e) ==
  [kind |-> CastTo(e.kind), kids |-> e.kids, val |-> IF e.kind = "Number" THEN "" ELSE e.val]

LEMMA NodeSeen ==
  ASSUME NEW n \in Nat, NEW m \in Nat, NEW e \in ParP!Node(1 .. m), ParP!NodeSound(e, n),
         e.kind = "Binary" => Len(e.kids) = 2, n <= m
  PROVE  /\ Seen(e) \in GenP!Node(1 .. m) /\ Seen(e) \in GenP!Node(1 .. n - 1)
         /\ Seen(e).kind \in {"Number", "Variable"} => Seen(e).kids = <<>>
         /\ Seen(e).kind = "Binary" => Len(Seen(e).kids) = 2 /\ Seen(e).val \in GenP!Operator
         /\ Seen(e).kind \in {"Variable", "Call"} => Seen(e).val \in Idents
<1>1. e.kind \in {"Number", "Variable", "Binary", "Call"}
  BY DEF ParP!Node
<1>2. CastTo(e.kind) = e.kind
  BY <1>1, CastIs DEF ExprClass
<1> DEFINE s == Seen(e)
           kids == e.kids
           val == IF e.kind = "Number" THEN "" ELSE e.val
<1>3. s = [kind |-> e.kind, kids |-> kids, val |-> val]
  BY <1>2 DEF Seen
<1>4. kids \in Seq(1 .. n - 1)
  BY DEF ParP!NodeSound
<1>5. kids \in Seq(1 .. m)
  <2>1. 1 .. n - 1 \subseteq 1 .. m
    OBVIOUS
  <2> QED
    BY <1>4, <2>1, SeqMonotonic
<1>6. /\ e.kind = "Binary" => val \in GenP!Operator
      /\ e.kind \in {"Variable", "Call"} => val \in Idents
      /\ e.kind = "Number" => val = ""
  BY DEF ParP!NodeSound, ParP!Operators, GenP!Operator
<1>7. val \in Idents \cup GenP!Operator \cup {""}
  BY <1>1, <1>6
<1>8. e.kind \in {"Number", "Variable"} => kids = <<>>
  BY DEF ParP!NodeSound
<1> DEFINE A == 1 .. m
           B == 1 .. n - 1
<1>a. kids \in Seq(A) /\ kids \in Seq(B)
  BY <1>4, <1>5
<1> HIDE DEF val, kids, A, B
<1>9. s.kind = e.kind /\ s.kids = kids /\ s.val = val
  BY <1>3
<1> HIDE DEF s
<1>10. s \in GenP!Node(A) /\ s \in GenP!Node(B)
  <2> DEFINE K == {"Number", "Variable", "Binary", "Call"}
             V == Idents \cup GenP!Operator \cup {""}
             Q == Seq(A)
             R == Seq(B)
             kind == e.kind
  <2>1. kind \in K /\ val \in V /\ kids \in Q /\ kids \in R
    BY <1>1, <1>a, <1>7
  <2>2. s = [kind |-> kind, kids |-> kids, val |-> val]
    BY <1>3
  <2> HIDE DEF K, V, Q, R, kind
  <2>3. s \in [kind : K, val : V, kids : Q] /\ s \in [kind : K, val : V, kids : R]
    BY <2>1, <2>2
  <2> QED
    BY <2>3 DEF GenP!Node, K, V, Q, R
<1>11. e.kind = "Binary" => Len(kids) = 2
  BY DEF kids
<1>12. s.kind = "Binary" => Len(s.kids) = 2 /\ s.val \in GenP!Operator
  BY <1>6, <1>9, <1>11
<1> QED
  BY <1>6, <1>8, <1>9, <1>10, <1>12 DEF s, A, B

\* What Parser::get() returns is what generate() takes for granted of it.
LEMMA ResultIsProgram == FrontEnd => GenP!IsProgram(Result)
<1> SUFFICES ASSUME FrontEnd PROVE GenP!IsProgram(Result)
  OBVIOUS
<1>1. CASE err # "none"
  <2>1. Result = [ok |-> FALSE, nodes |-> <<>>, lines |-> <<>>]
    BY <1>1 DEF Result
  <2>2. Result.ok = FALSE /\ Result.nodes = <<>> /\ Result.lines = <<>>
    BY <2>1
  <2>3. Len(<<>>) = 0 /\ 1 .. 0 = {} /\ \A S : <<>> \in Seq(S)
    OBVIOUS
  <2> QED
    BY <2>2, <2>3 DEF GenP!IsProgram
<1>2. CASE err = "none"
  <2> DEFINE N == ParP!Node(1 .. Len(nodes))
             D == ParP!Definition(1 .. Len(nodes))
             seen == [n \in DOMAIN nodes |-> Seen(nodes[n])]
             Line(d) == [Proto |-> [Name |-> d.Proto.Name, Args |-> d.Proto.Args], Body |-> d.Body]
             defs == [i \in DOMAIN lines |-> Line(lines[i])]
             m == Len(nodes)
             k == Len(lines)
             M == GenP!Node(1 .. m)
             E == GenP!Definition(1 .. m)
  <2>1. nodes \in Seq(N) /\ lines \in Seq(D)
    BY DEF FrontEnd, ParP!TypeInv, ParP!TypeOK, ParP!NodeIds
  <2>2. Result = [ok |-> TRUE, nodes |-> seen, lines |-> defs]
    BY <1>2 DEF Result, Seen
  <2>3. /\ m \in Nat /\ DOMAIN nodes = 1 .. m /\ \A n \in 1 .. m : nodes[n] \in N
        /\ k \in Nat /\ DOMAIN lines = 1 .. k /\ \A i \in 1 .. k : lines[i] \in D
    <3> HIDE DEF N, D
    <3> QED
      BY <2>1, LenProperties, ElementOfSeq
  <2>4. \A n \in 1 .. m : seen[n] = Seen(nodes[n])
    BY <2>3
  <2>5. \A i \in 1 .. k : defs[i] = Line(lines[i])
    BY <2>3
  <2>6. ASSUME NEW n \in 1 .. m
        PROVE  /\ seen[n] \in M /\ seen[n] \in GenP!Node(1 .. n - 1)
               /\ seen[n].kind \in {"Number", "Variable"} => seen[n].kids = <<>>
               /\ seen[n].kind = "Binary" => Len(seen[n].kids) = 2 /\ seen[n].val \in GenP!Operator
               /\ seen[n].kind \in {"Variable", "Call"} => seen[n].val \in Idents
    <3>1. ParP!NodeSound(nodes[n], n) /\ (nodes[n].kind = "Binary" => Len(nodes[n].kids) = 2)
      BY DEF FrontEnd, ParP!ASTSound, ParP!NodesSound, ParP!TypeInv, ParP!BinaryHasTwoKids, ParP!NodeIds
    <3>2. n \in Nat /\ n <= m /\ nodes[n] \in ParP!Node(1 .. m)
      BY <2>3
    <3> HIDE DEF m, seen
    <3>3. seen[n] = Seen(nodes[n])
      BY <2>4
    <3> QED
      BY <2>3, <3>1, <3>2, <3>3, NodeSeen
  <2>7. ASSUME NEW i \in 1 .. k PROVE defs[i] \in E
    <3>1. lines[i].Body \in 1 .. m
      BY <2>3 DEF ParP!Definition
    <3>2. ParP!ProtoSound(lines[i].Proto)
      BY DEF FrontEnd, ParP!ASTSound, ParP!ProtosSound
    <3>3. [Name |-> lines[i].Proto.Name, Args |-> lines[i].Proto.Args] \in [Name : Idents, Args : Seq(Idents)]
      BY <3>2 DEF ParP!ProtoSound
    <3> HIDE DEF m
    <3>4. Line(lines[i]) \in E
      BY <3>1, <3>3 DEF GenP!Definition
    <3> QED
      BY <2>5, <3>4
  <2> HIDE DEF m, k
  <2>8. seen \in Seq(M) /\ Len(seen) = m
    <3>1. seen \in [1 .. m -> M]
      BY <2>3, <2>6
    <3> HIDE DEF seen, M
    <3> QED
      BY <2>3, <3>1
  <2>9. defs \in Seq(E)
    <3>1. defs \in [1 .. k -> E]
      BY <2>3, <2>7
    <3> HIDE DEF defs, E
    <3> QED
      BY <2>3, <3>1
  <2> HIDE DEF seen, defs
  <2>10. Result.ok = TRUE /\ Result.nodes = seen /\ Result.lines = defs
    BY <2>2
  <2>11. \A n \in 1 .. Len(Result.nodes) : GenP!IsNode(Result, n)
    BY <2>6, <2>8, <2>10 DEF GenP!IsNode
  <2> QED
    BY <2>8, <2>9, <2>10, <2>11 DEF GenP!IsProgram
<1> QED
  BY <1>1, <1>2

\* get() has not returned yet and the generator has not begun, or it has and the result
\* stays; and nothing is printed of a result that holds an error.
BackEnd ==
  /\ ppc # "Done" => GenP!Fresh
  /\ GenP!Inv /\ GenP!MeaningInv /\ GenP!OrderInv
  /\ err # "none" => printed = <<>>

LEMMA GeneratorStarts == GenP!IsProgram(Result) /\ GenP!Fresh => GenP!Inv
BY GenP!FreshHolds, IdentsAssumption

LEMMA NothingComputedYet == GenP!Fresh => GenP!MeaningInv /\ GenP!OrderInv
BY GenP!MeaningInit, GenP!OrderInit, IdentsAssumption

LEMMA BackEndInit == FrontEnd /\ Init => BackEnd
<1> SUFFICES ASSUME FrontEnd, Init PROVE BackEnd
  OBVIOUS
<1>1. GenP!Fresh
  BY DEF Init, GenP!Fresh, Gen!Null, GenP!Null, Gen!Value, GenP!Value
<1>2. GenP!Inv
  BY <1>1, ResultIsProgram, GeneratorStarts
<1>3. GenP!MeaningInv /\ GenP!OrderInv
  BY <1>1, NothingComputedYet
<1> QED
  BY <1>1, <1>2, <1>3 DEF BackEnd, Init

\* The generator runs only after get() has returned ...
LEMMA GeneratorWaits ==
  ASSUME ppc # "Done", [Next]_vars
  PROVE  UNCHANGED genVars
BY Zenon DEF Next, Program, NoArguments, CompileLLVM, OpenFile, CallLexer, RunLexer, LexerReturns, RunParser,
   RunGenerator, MainEnds, RemoveFile, Terminated, vars

\* ... and the result stays.
LEMMA ResultStays ==
  ASSUME FrontEnd, ppc = "Done", [Next]_vars
  PROVE  UNCHANGED parVars
<1>1. UNCHANGED ParP!vars
  BY ParserSteps, ParP!DoneStays, ParserAssumptions
<1> QED
  BY <1>1 DEF parVars, tokVars, ParP!vars, ParP!lexVars, ParP!defVars

LEMMA BackEndStep == BackEnd /\ FrontEnd /\ FrontEnd' /\ [Next]_vars => BackEnd'
<1> SUFFICES ASSUME BackEnd, FrontEnd, FrontEnd', [Next]_vars PROVE BackEnd'
  OBVIOUS
<1>1. CASE ppc # "Done"
  <2>1. GenP!Fresh /\ UNCHANGED genVars
    BY <1>1, GeneratorWaits DEF BackEnd
  <2>2. GenP!Fresh'
    BY <2>1 DEF GenP!Fresh, genVars, GenP!Null, GenP!Value
  <2>3. GenP!IsProgram(Result)'
    BY ResultIsProgram, PTL
  <2>5. GenP!Inv'
    BY <2>2, <2>3, GeneratorStarts, PTL
  <2>6. GenP!MeaningInv' /\ GenP!OrderInv'
    BY <2>2, NothingComputedYet, PTL
  <2>7. printed' = <<>>
    BY <2>2 DEF GenP!Fresh
  <2> QED
    BY <2>2, <2>5, <2>6, <2>7 DEF BackEnd
<1>2. CASE ppc = "Done"
  <2>1. UNCHANGED parVars
    BY <1>2, ResultStays
  <2>2. Result' = Result /\ err' = err /\ ppc' = "Done"
    BY <1>2, <2>1, Zenon DEF parVars, Result
  <2>3. GenP!Next \/ UNCHANGED genVars
    BY GeneratorNext, Zenon DEF Next, Program, NoArguments, CompileLLVM, OpenFile, CallLexer, RunLexer, LexerReturns,
       RunParser, RunGenerator, MainEnds, RemoveFile, Terminated, vars
  <2>4. GenP!Next \/ UNCHANGED GenP!vars
    BY <2>2, <2>3 DEF genVars, GenP!vars
  <2>5. GenP!Inv'
    BY <2>4, GenP!NextKeeps, IdentsAssumption DEF BackEnd
  <2>6. GenP!MeaningInv' /\ GenP!OrderInv'
    BY <2>4, GenP!MeaningNext, GenP!OrderNext, IdentsAssumption DEF BackEnd
  <2>7. err # "none" => printed' = printed
    <3> SUFFICES ASSUME err # "none", printed' # printed PROVE FALSE
      OBVIOUS
    <3>1. Len(Result.lines) >= 1
      BY <2>4, GenP!PrintsWhenBuilt, IdentsAssumption DEF BackEnd
    <3>2. Result.lines = <<>>
      BY DEF Result
    <3> QED
      BY <3>1, <3>2
  <2> QED
    BY <2>2, <2>5, <2>6, <2>7 DEF BackEnd
<1> QED
  BY <1>1, <1>2

LEMMA BackEndHolds == Spec => []BackEnd
<1>1. Init /\ FrontEnd => BackEnd
  BY BackEndInit
<1> QED
  BY <1>1, BackEndStep, FrontEndHolds, PTL DEF Spec

-----------------------------------------------------------------------------
(***************************************************************************)
(* Theorems                                                                *)
(***************************************************************************)
\* compile.cpp: nothing is printed before the whole file was read and found free of
\* syntax errors, whatever the file, and whenever it is removed.
THEOREM PrintsWholeFiles == Spec => []NothingBeforeTheWholeFile
<1>1. FrontEnd /\ Handed /\ BackEnd => NothingBeforeTheWholeFile
  <2> SUFFICES ASSUME FrontEnd, Handed, BackEnd, printed # <<>> PROVE Last(input) = "EOF" /\ err = "none"
    BY DEF NothingBeforeTheWholeFile
  <2>1. ppc = "Done" /\ err = "none"
    BY DEF BackEnd, GenP!Fresh
  <2> QED
    BY <2>1, ReadToTheEnd
<1> QED
  BY <1>1, FrontEndHolds, HandedHolds, BackEndHolds, PTL

\* What Parser::get() returns is all that GeneratorLLVM takes for granted, and each object
\* is of the class it is cast to.
THEOREM ParserServesGenerator == Spec => []ParserMeetsGenerator
<1>1. FrontEnd => ParserMeetsGenerator
  <2> SUFFICES ASSUME FrontEnd PROVE ParserMeetsGenerator
    OBVIOUS
  <2>1. Gen!IsProgram(Result)
    BY ResultIsProgram DEF Gen!IsProgram, GenP!IsProgram, Gen!Node, GenP!Node, Gen!IsNode, GenP!IsNode,
       Gen!Definition, GenP!Definition, Gen!Operator, GenP!Operator
  <2>2. ASSUME NEW n \in DOMAIN nodes
        PROVE  LET type == ast_type(ExprClass[nodes[n].kind]) IN is_expression(type) /\ ~is_lazy(type)
    <3> DEFINE N == ParP!Node(1 .. Len(nodes))
    <3>1. nodes \in Seq(N)
      BY DEF FrontEnd, ParP!TypeInv, ParP!TypeOK, ParP!NodeIds
    <3> HIDE DEF N
    <3>2. nodes[n] \in N
      BY <3>1, SeqEntries
    <3>3. nodes[n].kind \in {"Number", "Variable", "Binary", "Call"}
      BY <3>2 DEF N, ParP!Node
    <3>4. ast_type(ExprClass[nodes[n].kind]) \in 1 .. 4
      BY <3>3, TypesOfClasses DEF ExprClass
    <3> QED
      BY <3>4, ClassesAre
  <2> QED
    BY <2>1, <2>2, TypesOfClasses, ClassesAre DEF ParserMeetsGenerator
<1> QED
  BY <1>1, FrontEndHolds, PTL

\* Every variable of the program has its type.
THEOREM CompilerTypes == Spec => []TypeOK
<1> DEFINE Driver ==
             /\ main \in {"main", "open", "generate", "end"}
             /\ file \in {"readable", "unreadable", "directory", "none"}
             /\ opened \in BOOLEAN
             /\ console \in Seq({"no arguments specified", "file not found"})
<1>1. Init => Driver
  <2> DEFINE M == {"no arguments specified", "file not found"}
  <2> HIDE DEF M
  <2>1. <<>> \in Seq(M)
    OBVIOUS
  <2> QED
    BY <2>1 DEF Init, M
<1>2. Driver /\ [Next]_vars => Driver'
  <2> SUFFICES ASSUME Driver, [Next]_vars PROVE Driver'
    OBVIOUS
  <2>1. CASE NoArguments \/ CompileLLVM
    <3> DEFINE M == {"no arguments specified", "file not found"}
    <3>1. console' = console \/ \E m \in M : console' = Append(console, m)
      BY <2>1, Zenon DEF NoArguments, CompileLLVM, Says
    <3>0. console \in Seq(M)
      OBVIOUS
    <3> HIDE DEF M
    <3>2. console' \in Seq(M)
      <4>1. CASE console' = console
        BY <3>0, <4>1
      <4>2. ASSUME NEW m \in M, console' = Append(console, m) PROVE console' \in Seq(M)
        BY <3>0, <4>2, AppendLast
      <4> QED
        BY <3>1, <4>1, <4>2
    <3>3. main' \in {"open", "end"} /\ UNCHANGED <<file, opened>>
      BY <2>1, Zenon DEF NoArguments, CompileLLVM
    <3> QED
      BY <3>2, <3>3 DEF M
  <2>2. CASE OpenFile
    BY <2>2 DEF OpenFile
  <2>3. CASE MainEnds \/ RemoveFile
    BY <2>3 DEF MainEnds, RemoveFile, mainVars
  <2>4. CASE UNCHANGED <<file, mainVars>>
    BY <2>4 DEF mainVars
  <2> QED
    BY <2>1, <2>2, <2>3, <2>4, Zenon DEF Next, Program, CallLexer, RunLexer, LexerReturns, RunParser, RunGenerator,
       Terminated, vars
<1>3. FrontEnd => Lex!TypeOK
  <2>1. LexP!Inv => LexP!TypeOK
    BY LexP!InvTypes, LexerAssumptions
  <2> QED
    BY <2>1 DEF FrontEnd, Lex!TypeOK, LexP!TypeOK, Lex!SourceChars, LexP!SourceChars, Lex!Kind, LexP!Kind,
       Lex!Single, LexP!Single
<1>4. FrontEnd => Par!TypeOK
  BY DEF FrontEnd, ParP!TypeInv, Par!TypeOK, ParP!TypeOK, Par!Token, ParP!Token, Par!Kind, ParP!Kind, Par!Text,
     ParP!Text, Par!TextsOf, ParP!TextsOf, Par!PC, ParP!PC, Par!Frame, ParP!Frame, Par!Node, ParP!Node,
     Par!NodeIds, ParP!NodeIds, Par!Error, ParP!Error, Par!Prototype, ParP!Prototype, Par!Definition,
     ParP!Definition
<1>5. BackEnd => Gen!TypeOK
  <2>1. GenP!Inv => GenP!TypeOK
    BY GenP!InvTypes, IdentsAssumption
  <2> QED
    BY <2>1 DEF BackEnd, Gen!TypeOK, GenP!TypeOK, Gen!AnyValue, GenP!AnyValue, Gen!Error, GenP!Error, Gen!Null,
       GenP!Null, Gen!Value, GenP!Value, Gen!Function, GenP!Function, Gen!Operator, GenP!Operator,
       Gen!ToSet, GenP!ToSet
<1>6. Driver /\ FrontEnd /\ BackEnd => TypeOK
  BY <1>3, <1>4, <1>5 DEF TypeOK
<1> HIDE DEF Driver
<1> QED
  BY <1>1, <1>2, <1>6, FrontEndHolds, BackEndHolds, PTL DEF Spec

\* From the characters of the file to the module: whatever the file holds, every function
\* that the program generates is one that llvm::verifyFunction accepts, at every moment.
THEOREM ProgramVerifies == Spec => []Gen!EveryFunctionVerifies
<1>1. BackEnd => Gen!EveryFunctionVerifies
  BY DEF BackEnd, GenP!Inv, Gen!EveryFunctionVerifies, GenP!EveryFunctionVerifies, Gen!Verifies, GenP!Verifies,
     Gen!Usable, GenP!Usable, Gen!Callable, GenP!Callable, Gen!Null, GenP!Null, Gen!Value, GenP!Value
<1> QED
  BY <1>1, BackEndHolds, PTL

\* The meaning of code is the same in both instances.
LEMMA SameComputed == \A f : Gen!Computed(f) = GenP!Computed(f)
<1> SUFFICES ASSUME NEW f PROVE Gen!Computed(f) = GenP!Computed(f)
  OBVIOUS
<1>1. Gen!ValuesOf(f) = GenP!ValuesOf(f)
  BY DEF Gen!ValuesOf, GenP!ValuesOf, Gen!Value, GenP!Value
<1>2. \A v, n, computed : Gen!IsValue(f, v, n, computed) <=> GenP!IsValue(f, v, n, computed)
  BY DEF Gen!IsValue, GenP!IsValue, Gen!ConstantOf, GenP!ConstantOf, Gen!ArgumentOf, GenP!ArgumentOf, Gen!Does,
     GenP!Does, Gen!Operands, GenP!Operands, Gen!Value, GenP!Value, Gen!ToSet, GenP!ToSet
<1> DEFINE Step(c) == [n \in DOMAIN Result.nodes |-> {v \in Gen!ValuesOf(f) : Gen!IsValue(f, v, n, c)}]
           StepP(c) == [n \in DOMAIN Result.nodes |-> {v \in GenP!ValuesOf(f) : GenP!IsValue(f, v, n, c)}]
<1>3. \A c : Step(c) = StepP(c)
  BY <1>1, <1>2
<1>4. Gen!Computed(f) = CHOOSE c : c = Step(c)
  BY DEF Gen!Computed
<1>5. GenP!Computed(f) = CHOOSE c : c = StepP(c)
  BY DEF GenP!Computed
<1> HIDE DEF Step, StepP
<1> QED
  BY <1>3, <1>4, <1>5

\* From the characters of the file to the code: whatever the file holds, the AST spells
\* the tokens, each of them once and with its text, its trees are those that the precedence
\* of the operators asks for, and what is generated of a definition computes its body.
THEOREM ProgramComputesSource == Spec => []CodeComputesSource
<1>1. ParP!Spec => []ParP!ASTSpellsSource
  BY ParP!ASTSpelled, ParserAssumptions
<1>2. ParP!ASTSpellsSource => Par!ASTSpellsSource
  BY DEF Par!ASTSpellsSource, ParP!ASTSpellsSource, Par!SpellsNode, ParP!SpellsNode, Par!SpellsDefinition,
     ParP!SpellsDefinition, Par!Is, ParP!Is, Par!IsPunct, ParP!IsPunct, Par!FirstOf, ParP!FirstOf, Par!LastOf,
     ParP!LastOf
<1>3. FrontEnd => Par!PrecedenceRespected
  BY DEF FrontEnd, Par!PrecedenceRespected, ParP!PrecedenceRespected, Par!TopPrec, ParP!TopPrec, Par!Tightest,
     ParP!Tightest, Par!GetTokPrecedence, ParP!GetTokPrecedence, Par!TokCode, ParP!TokCode,
     Par!binop_array_offset, ParP!binop_array_offset, Par!binop_array_size, ParP!binop_array_size,
     Par!init_binop_precedence, ParP!init_binop_precedence
<1>4. BackEnd => Gen!CodeComputesBody
  BY SameComputed DEF BackEnd, GenP!MeaningInv, Gen!CodeComputesBody, GenP!CodeComputesBody, Gen!DistinctArgs,
     GenP!DistinctArgs, Gen!IsInjective, GenP!IsInjective, Gen!Null, GenP!Null, Gen!Value, GenP!Value
<1> QED
  BY <1>1, <1>2, <1>3, <1>4, ParserRuns, FrontEndHolds, BackEndHolds, PTL DEF CodeComputesSource
-----------------------------------------------------------------------------
(***************************************************************************)
(* Every character is answered for.                                        *)
(***************************************************************************)
\* main returns in silence only after generate() has.
Silent == main = "end" /\ console = <<>> => gpc = "Done"

LEMMA SilentHolds == Spec => []Silent
<1>1. Init => Silent
  BY DEF Init, Silent
<1>2. Silent /\ [Next]_vars => Silent'
  <2> SUFFICES ASSUME Silent, [Next]_vars PROVE Silent'
    OBVIOUS
  <2>1. CASE NoArguments \/ CompileLLVM
    <3>1. main' = "open" \/ \E m : console' = Append(console, m)
      BY <2>1, Zenon DEF NoArguments, CompileLLVM, Says
    <3>2. \A m : Append(console, m) # <<>>
      OBVIOUS
    <3> QED
      BY <3>1, <3>2 DEF Silent
  <2>2. CASE OpenFile
    BY <2>2 DEF OpenFile, Silent
  <2>3. CASE MainEnds
    BY <2>3 DEF MainEnds, genVars, Silent
  <2>4. CASE RunGenerator
    BY <2>4 DEF RunGenerator, mainVars, Silent
  <2>5. CASE UNCHANGED <<mainVars, genVars>>
    BY <2>5 DEF mainVars, genVars, Silent
  <2> QED
    BY <2>1, <2>2, <2>3, <2>4, <2>5, Zenon DEF Next, Program, CallLexer, RunLexer, LexerReturns, RunParser,
       RemoveFile, Terminated, vars
<1> QED
  BY <1>1, <1>2, PTL DEF Spec

\* What is reported is what the generator's proofs say is.
LEMMA ReportedIs ==
  ASSUME GenP!Inv
  PROVE  \A i : Reported(i) <=> i \in GenP!ReportedLines
<1> DEFINE R == GenP!Reported
<1>1. log \in Seq(R)
  BY DEF GenP!Inv, GenP!Types
<1> HIDE DEF R
<1>2. DOMAIN log = 1 .. Len(log)
  BY <1>1, SeqEntries
<1> QED
  BY <1>2 DEF Reported, GenP!ReportedLines

\* So is the size of a set.
LEMMA SameCardinality == \A S : GenP!Cardinality(S) = Cardinality(S)
<1> SUFFICES ASSUME NEW S PROVE GenP!Cardinality(S) = Cardinality(S)
  OBVIOUS
<1> DEFINE Step(c) == [T \in SUBSET S |-> IF T = {} THEN 0 ELSE 1 + c[T \ {CHOOSE x : x \in T}]]
<1>1. Cardinality(S) = (CHOOSE c : c = Step(c))[S]
  BY DEF Cardinality
<1>2. GenP!Cardinality(S) = (CHOOSE c : c = Step(c))[S]
  BY DEF GenP!Cardinality
<1> QED
  BY <1>1, <1>2

\* The definitions as the generator sees them
LEMMA LinesSeen ==
  ASSUME FrontEnd, err = "none"
  PROVE  /\ Len(lines) \in Nat /\ DOMAIN lines = 1 .. Len(lines) /\ Len(Result.lines) = Len(lines)
         /\ \A i \in 1 .. Len(lines) : Result.lines[i].Proto.Name = lines[i].Proto.Name
<1> DEFINE D == ParP!Definition(1 .. Len(nodes))
           k == Len(lines)
           Line(d) == [Proto |-> [Name |-> d.Proto.Name, Args |-> d.Proto.Args], Body |-> d.Body]
           defs == [i \in DOMAIN lines |-> Line(lines[i])]
<1>1. lines \in Seq(D)
  BY DEF FrontEnd, ParP!TypeInv, ParP!TypeOK, ParP!NodeIds
<1> HIDE DEF D
<1>2. k \in Nat /\ DOMAIN lines = 1 .. k
  BY <1>1, LenProperties
<1>3. Result.lines = defs
  BY DEF Result
<1>4. \A d : Line(d).Proto.Name = d.Proto.Name
  OBVIOUS
<1> HIDE DEF Line, k
<1>5. defs \in [1 .. k -> {Line(lines[i]) : i \in 1 .. k}] /\ \A i \in 1 .. k : defs[i] = Line(lines[i])
  BY <1>2
<1>6. Len(defs) = k
  <2> DEFINE S == {Line(lines[i]) : i \in 1 .. k}
  <2>1. defs \in [1 .. k -> S]
    BY <1>5
  <2> HIDE DEF S, defs
  <2> QED
    BY <1>2, <2>1
<1> HIDE DEF defs
<1> QED
  BY <1>2, <1>3, <1>4, <1>5, <1>6 DEF k

\* When generate() returns, the error of the parser was reported, or each definition was
\* printed in its turn or reported.
LEMMA PrintedIs ==
  ASSUME FrontEnd, BackEnd, gpc = "Done"
  PROVE  /\ err # "none" => Reported(0)
         /\ err = "none" => /\ Len(printed) = Cardinality(Kept(Len(lines)))
                            /\ \A i \in Kept(Len(lines)) :
                                 printed[Cardinality(Kept(i))] = lines[i].Proto.Name
<1>1. GenP!Inv /\ GenP!Counted /\ GenP!PrintedOrder
  BY DEF BackEnd, GenP!OrderInv
<1>2. err # "none" => Reported(0)
  <2>1. err # "none" => Result.ok = FALSE
    BY DEF Result
  <2> QED
    BY <1>1, <2>1, ReportedIs DEF GenP!PrintedOrder
<1>3. ASSUME err = "none"
      PROVE  /\ Len(printed) = Cardinality(Kept(Len(lines)))
             /\ \A i \in Kept(Len(lines)) : printed[Cardinality(Kept(i))] = lines[i].Proto.Name
  <2> DEFINE k == Len(lines)
  <2>0. k \in Nat /\ Len(Result.lines) = k
    BY <1>3, LinesSeen
  <2>1. line > Len(Result.lines) /\ line \in 0 .. Len(Result.lines) + 1
    BY <1>1 DEF GenP!PrintedOrder, GenP!Inv, GenP!Types
  <2> HIDE DEF k
  <2>2. GenP!Passed = k
    <3>1. line \in 0 .. k + 1 /\ line > k
      BY <2>0, <2>1
    <3> QED
      BY <2>0, <3>1 DEF GenP!Passed
  <2>3. \A n : Kept(n) = GenP!CompiledLines(n)
    BY <1>1, ReportedIs DEF Kept, GenP!CompiledLines
  <2>4. Len(printed) = Cardinality(Kept(k))
    BY <1>1, <2>2, <2>3, SameCardinality DEF GenP!Counted
  <2>5. \A i \in Kept(k) : printed[Cardinality(Kept(i))] = GenP!NameOf(i)
    BY <1>1, <2>2, <2>3, SameCardinality DEF GenP!PrintedOrder, GenP!Place
  <2>6. \A i \in Kept(k) : GenP!NameOf(i) = lines[i].Proto.Name
    BY <1>3, LinesSeen DEF Kept, GenP!NameOf, k
  <2> QED
    BY <2>4, <2>5, <2>6 DEF k
<1> QED
  BY <1>2, <1>3

\* What layout is, is the same in both instances.
LEMMA SameLayout == (\A i : Lex!Layout(i) <=> LexP!Layout(i)) /\ Lex!Break = LexP!Break
<1> DEFINE Step(o) == [i \in 0 .. Len(input) |->
                         IF i = 0 THEN FALSE
                         ELSE IF o[i - 1] THEN input[i] \notin {"LF", "CR", "$"} ELSE input[i] = "$"]
<1>1. Lex!open = CHOOSE o : o = Step(o)
  BY DEF Lex!open
<1>2. LexP!open = CHOOSE o : o = Step(o)
  BY DEF LexP!open
<1> HIDE DEF Step
<1>3. Lex!open = LexP!open
  BY <1>1, <1>2
<1> QED
  BY <1>3 DEF Lex!Layout, LexP!Layout, Lex!Space, LexP!Space, Lex!Break, LexP!Break

\* A character that is no layout and no line break is in one token, which is in one definition;
\* the tokens lie in the file in their order, so no other definition has it.
LEMMA CharactersIn ==
  ASSUME FrontEnd, Handed, ppc = "Done", err = "none", NEW c \in 1 .. Len(input) - 1,
         ~Lex!Layout(c), input[c] \notin Lex!Break
  PROVE  Cardinality({i \in DOMAIN lines : c \in CharsOf(i)}) = 1
<1> DEFINE n == Len(toks)
           F(i) == lines[i].Proto.first
           L(i) == ParP!LastOf(lines[i].Body)
           S == {i \in DOMAIN lines : c \in CharsOf(i)}
<1>1. /\ n \in Nat /\ n = Len(out) /\ DOMAIN out = 1 .. n /\ DOMAIN toks = 1 .. n
      /\ \A j \in 1 .. n : toks[j].kind = out[j].kind
  <2>1. DOMAIN out = 1 .. Len(out) /\ DOMAIN toks = 1 .. Len(toks) /\ Len(toks) \in Nat
    BY TokensAre, LenProperties
  <2> QED
    BY <2>1 DEF Handed
<1>2. n # 0 /\ toks[n].kind = "eof" /\ ParP!Tiled(n - 1)
  <2>1. toks # <<>> /\ ParP!CurTok = "eof" /\ toks \in Seq(ParP!Token)
    BY DEF FrontEnd, ParP!FinishedAtEof, ParP!TypeInv, ParP!TypeOK
  <2>2. ParP!CurTok = toks[n].kind /\ n # 0
    <3> DEFINE T == ParP!Token
    <3>1. toks \in Seq(T)
      BY <2>1
    <3> HIDE DEF T
    <3>2. n # 0
      BY <2>1, <3>1
    <3> QED
      BY <3>2 DEF ParP!CurTok, ParP!Last
  <2> QED
    BY <2>1, <2>2 DEF FrontEnd, ParP!TileInv
<1>3. n \in 1 .. n /\ out[n].kind = "eof" /\ \A j \in 1 .. n - 1 : out[j].kind # "eof"
  <2>1. \A j \in 1 .. n - 1 : toks[j].kind # "eof"
    BY DEF FrontEnd, ParP!NeverReadsPastEof
  <2> QED
    BY <1>1, <1>2, <2>1
<1>4. /\ Len(input) \in Nat
      /\ \A j \in 1 .. n : /\ out[j].first \in Nat /\ out[j].last \in Nat /\ out[j].first <= out[j].last
      /\ \A j, k \in 1 .. n : j < k /\ out[j].kind # "eof" => out[j].last < out[k].first
  <2>1. LexP!Inv /\ LexP!CharactersInv
    BY DEF FrontEnd
  <2> HIDE DEF n
  <2>2. /\ Len(input) \in Nat
        /\ \A j \in DOMAIN out : /\ out[j].first \in Nat /\ out[j].last \in Nat
                                 /\ out[j].first <= out[j].last /\ out[j].last <= Len(input)
        /\ \A j, k \in DOMAIN out : j < k /\ out[j].kind # "eof" => out[j].last < out[k].first
    BY <2>1, LexP!TokensInOrder, LexerAssumptions
  <2> QED
    BY <1>1, <2>2
<1>5. PICK t \in 1 .. n : out[t].kind \notin {"line_break", "eof"} /\ c \in out[t].first .. out[t].last
  <2>1. LexP!Inv /\ LexP!CharactersInv /\ LexP!EofRests
    BY DEF FrontEnd
  <2>2. ~LexP!Layout(c) /\ input[c] \notin LexP!Break
    BY SameLayout
  <2>3. n \in DOMAIN out /\ out[n].kind = "eof"
    BY <1>1, <1>3
  <2> HIDE DEF n
  <2>4. \E j \in DOMAIN out : out[j].kind \notin {"line_break", "eof"} /\ c \in out[j].first .. out[j].last
    BY <2>1, <2>2, <2>3, LexP!CharacterTaken, LexerAssumptions
  <2> QED
    BY <1>1, <2>4
<1> DEFINE k == Len(lines)
<1>6. /\ DOMAIN lines = 1 .. k /\ k \in Nat
      /\ \A i \in 1 .. k : L(i) \in Int /\ F(i) \in Nat
  BY LinesSeen, ParP!LinesAre, ParserAssumptions DEF FrontEnd
<1> HIDE DEF n
<1>7. /\ \A i \in 1 .. k : 1 <= F(i) /\ F(i) <= L(i) /\ L(i) <= n - 1
      /\ \A i, j \in 1 .. k : i < j => L(i) < F(j)
      /\ \A u \in 1 .. n - 1 : toks[u].kind # "line_break" <=> \E i \in 1 .. k : u \in F(i) .. L(i)
  BY <1>2 DEF ParP!Tiled, ParP!Covers
<1>8. \A i : CharsOf(i) = out[F(i)].first .. out[L(i)].last
  BY DEF CharsOf, Par!LastOf, ParP!LastOf
<1>9. t \in 1 .. n - 1 /\ toks[t].kind # "line_break"
  <2>1. t # n
    BY <1>3, <1>5
  <2> QED
    BY <1>1, <1>5, <2>1
<1> HIDE DEF F, L, k
\* the definition that has the token has the character, and the other way round
<1>10. ASSUME NEW i \in 1 .. k PROVE c \in CharsOf(i) <=> t \in F(i) .. L(i)
  <2>1. /\ F(i) \in Nat /\ L(i) \in Int /\ F(i) \in 1 .. n - 1 /\ L(i) \in 1 .. n - 1 /\ F(i) \in 1 .. n /\ L(i) \in 1 .. n
        /\ F(i) <= L(i)
    BY <1>1, <1>6, <1>7
  <2> DEFINE a(j) == out[j].first
             b(j) == out[j].last
  <2>2. \A j \in 1 .. n : a(j) \in Nat /\ b(j) \in Nat /\ a(j) <= b(j)
    BY <1>4
  <2>3. \A j \in 1 .. n - 1 : \A m \in 1 .. n : j < m => b(j) < a(m)
    BY <1>1, <1>3, <1>4
  <2>4. CharsOf(i) = a(F(i)) .. b(L(i)) /\ c \in a(t) .. b(t) /\ c \in Int
    BY <1>4, <1>5, <1>8
  <2> HIDE DEF a, b
  <2>5. ASSUME t < F(i) PROVE ~(c \in a(F(i)) .. b(L(i)))
    <3>1. b(t) < a(F(i))
      BY <1>9, <2>1, <2>3, <2>5
    <3> QED
      BY <2>1, <2>2, <2>4, <3>1
  <2>6. ASSUME L(i) < t PROVE ~(c \in a(F(i)) .. b(L(i)))
    <3>1. b(L(i)) < a(t)
      BY <2>1, <2>3, <2>6
    <3> QED
      BY <2>1, <2>2, <2>4, <3>1
  <2>7. ASSUME F(i) <= t PROVE a(F(i)) <= c
    <3>1. F(i) = t \/ b(F(i)) < a(t)
      BY <1>1, <2>1, <2>3, <2>7
    <3> QED
      BY <2>1, <2>2, <2>4, <3>1
  <2>8. ASSUME t <= L(i) PROVE c <= b(L(i))
    <3>1. L(i) = t \/ b(t) < a(L(i))
      BY <1>1, <1>9, <2>1, <2>3, <2>8
    <3> QED
      BY <2>1, <2>2, <2>4, <3>1
  <2> QED
    <3>1. CASE t < F(i)
      BY <1>9, <2>1, <2>4, <2>5, <3>1
    <3>2. CASE L(i) < t
      BY <1>9, <2>1, <2>4, <2>6, <3>2
    <3>3. CASE F(i) <= t /\ t <= L(i)
      BY <1>9, <2>1, <2>2, <2>4, <2>7, <2>8, <3>3
    <3> QED
      BY <1>9, <2>1, <3>1, <3>2, <3>3
<1>11. PICK i \in 1 .. k : t \in F(i) .. L(i)
  BY <1>7, <1>9
<1>12. ASSUME NEW j \in 1 .. k, t \in F(j) .. L(j) PROVE j = i
  <2>1. ~(j < i) /\ ~(i < j)
    <3>1. j < i => L(j) < F(i)
      BY <1>7
    <3>2. i < j => L(i) < F(j)
      BY <1>7
    <3> QED
      BY <1>6, <1>9, <1>11, <1>12, <3>1, <3>2
  <2> QED
    BY <1>6, <2>1
<1>13. S = {i}
  BY <1>6, <1>10, <1>11, <1>12
<1> HIDE DEF S
<1>14. Cardinality(S) = 1
  BY <1>13, FS_Singleton
<1> QED
  BY <1>14 DEF S

\* When the program ends, and has not said that there is no file, it has answered for each
\* character of the file: a syntax error was reported, or each character but layout and line
\* breaks is in exactly one definition, and each of these was printed in its turn or reported.
THEOREM ProgramAnswers == Spec => []EveryCharacterAnswered
<1>1. ASSUME FrontEnd, Handed, BackEnd, Silent PROVE EveryCharacterAnswered
  <2> SUFFICES ASSUME main = "end", console = <<>>
               PROVE  IF err # "none" THEN Reported(0)
                      ELSE
                      /\ \A c \in 1 .. Len(input) - 1 :
                           ~Lex!Layout(c) /\ input[c] \notin Lex!Break =>
                             Cardinality({i \in DOMAIN lines : c \in CharsOf(i)}) = 1
                      /\ Len(printed) = Cardinality(Kept(Len(lines)))
                      /\ \A i \in Kept(Len(lines)) : printed[Cardinality(Kept(i))] = lines[i].Proto.Name
    BY DEF EveryCharacterAnswered
  <2>1. gpc = "Done"
    BY <1>1 DEF Silent
  <2>2. ppc = "Done"
    BY <1>1, <2>1 DEF BackEnd, GenP!Fresh
  <2>3. err # "none" => Reported(0)
    BY <1>1, <2>1, PrintedIs
  <2>4. err = "none" =>
          \A c \in 1 .. Len(input) - 1 :
            ~Lex!Layout(c) /\ input[c] \notin Lex!Break =>
              Cardinality({i \in DOMAIN lines : c \in CharsOf(i)}) = 1
    BY <1>1, <2>2, CharactersIn
  <2>5. err = "none" => /\ Len(printed) = Cardinality(Kept(Len(lines)))
                        /\ \A i \in Kept(Len(lines)) : printed[Cardinality(Kept(i))] = lines[i].Proto.Name
    BY <1>1, <2>1, PrintedIs
  <2> QED
    BY <2>3, <2>4, <2>5
<1> QED
  BY <1>1, FrontEndHolds, HandedHolds, BackEndHolds, SilentHolds, PTL
=============================================================================
