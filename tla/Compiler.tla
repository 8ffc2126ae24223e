------------------------------ MODULE Compiler ------------------------------
(***************************************************************************)
(* grlang.cxx and grComp/compile.cpp: one run of the program on one file.  *)
(* main calls CompileLLVM, which looks at the path and builds the pipeline *)
(* Reader - Lexer - Parser - GeneratorLLVM; here the pipeline is made of   *)
(* the modules Lexer, Parser and Generator.                                *)
(*                                                                         *)
(* Each part calls the one before it and waits: generate() calls           *)
(* Parser::get() once, the parser calls Lexer::get() where its module says *)
(* GetTok and goes on with the token returned.  So at any moment one of    *)
(* them runs.  The file belongs to somebody else, who may remove it.       *)
(***************************************************************************)
EXTENDS ASTs, FiniteSets

CONSTANTS
  Sources,           \* what may be in the file: sequences of at most MaxChars
  Chars, MaxChars,   \* ... characters of Chars,
  Idents, Numerals,  \* ... and the identifiers and the numbers in them
  Extern,            \* the spelling of "extern"
  Indeterminate      \* a value of the lexer's uninitialised cur_tok

ASSUME SourcesAssumption == \A s \in Sources : s \in Seq(Chars) /\ Len(s) <= MaxChars
ASSUME MaxCharsAssumption == MaxChars \in Nat
ASSUME IdentsAssumption == Idents \subseteq STRING

VARIABLES
  main,      \* where main and CompileLLVM are
  file,      \* what the path leads to
  source,    \* what is in the file
  opened,    \* the reader's ifstream could be opened
  console,   \* the messages of main and CompileLLVM
  input, lpc, start, cur_tok, out,                           \* Lexer
  toks, identifier_str, real_num_value,                      \* what it hands over
  ppc, stack, nodes, pret, err, proto, lines,                \* Parser
  gpc, line, calls, gret, NamedValues, module, insert, log, printed   \* Generator

mainVars == <<main, opened, console>>
lexVars == <<input, lpc, start, cur_tok, out>>
tokVars == <<toks, identifier_str, real_num_value>>
parVars == <<tokVars, ppc, stack, nodes, pret, err, proto, lines>>
genVars == <<gpc, line, calls, gret, NamedValues, module, insert, log, printed>>
vars == <<file, source, mainVars, lexVars, parVars, genVars>>

-----------------------------------------------------------------------------
(***************************************************************************)
(* The parts                                                               *)
(***************************************************************************)
Lex == INSTANCE Lexer WITH pc <- lpc, MaxChars <- [alphabet \in {Chars} |-> MaxChars]

ASSUME CharsAssumption == Chars \subseteq Lex!Char
ASSUME ExternAssumption == Extern \in Seq(Lex!Alpha)

Par == INSTANCE Parser WITH pc <- ppc, ret <- pret, Kinds <- Lex!Kind \ {"eof"},
                             MaxTokens <- MaxChars

\* What the parser knows of a token: its code, and its text in the lexer's registers.
Token(t) ==
  [kind |-> t.kind,
   text |-> CASE t.kind \in {"identifier", "relative_number", "real_number"} ->
                   FoldLeft(LAMBDA s, c : s \o c, "", SubSeq(input, t.first, t.last))
              [] t.kind = "extern" -> "extern"
              [] OTHER -> ""]

ExprClass ==
  [Number |-> "NumberExprAST", Variable |-> "VariableExprAST", Binary |-> "BinaryExprAST",
   Call |-> "CallExprAST"]

\* ExprASTtoIR casts a node to the class that its type stands for.
CastTo(kind) == CHOOSE k \in DOMAIN ExprClass : ExprClass[k] = ClassOf(ast_type(ExprClass[kind]))

\* What Parser::get() returns, as the generator sees it: an error, or the nodes and
\* the definitions.  (A number's node has a double, which is only passed on.)
Result ==
  IF err # "none" THEN [ok |-> FALSE, nodes |-> <<>>, lines |-> <<>>]
  ELSE [ok |-> TRUE,
        nodes |-> [n \in DOMAIN nodes |->
                     [kind |-> CastTo(nodes[n].kind), kids |-> nodes[n].kids,
                      val |-> IF nodes[n].kind = "Number" THEN "" ELSE nodes[n].val]],
        lines |-> [i \in DOMAIN lines |->
                     [Proto |-> [Name |-> lines[i].Proto.Name, Args |-> lines[i].Proto.Args],
                      Body |-> lines[i].Body]]]

Gen == INSTANCE Generator WITH pc <- gpc, ret <- gret, stack <- calls, mod <- Result,
                               Names <- Idents, Programs <- {}

-----------------------------------------------------------------------------
Init ==
  /\ main = "main"
  /\ file \in {"readable", "unreadable", "directory", "none"}
  /\ source \in Sources
  /\ opened = FALSE /\ console = <<>>
  /\ Lex!Init
  /\ Par!Init
  /\ gpc = "Get" /\ line = 0 /\ calls = <<>> /\ gret = Gen!Null
  /\ NamedValues = <<>> /\ module = <<>> /\ insert = 0 /\ log = <<>> /\ printed = <<>>

Says(message) == console' = Append(console, message)

\* main: without an argument there is nothing to compile.
NoArguments ==
  /\ main = "main"
  /\ Says("no arguments specified")
  /\ main' = "end"
  /\ UNCHANGED <<file, source, opened, lexVars, parVars, genVars>>

\* CompileLLVM looks at the path ...
CompileLLVM ==
  /\ main = "main"
  /\ IF file \in {"readable", "unreadable"}
       THEN main' = "open" /\ UNCHANGED console
       ELSE main' = "end" /\ Says("file not found")
  /\ UNCHANGED <<file, source, opened, lexVars, parVars, genVars>>

\* ... and then the Reader opens it, if it still can.  The rest of the pipeline is
\* built and generate() called.
OpenFile ==
  /\ main = "open"
  /\ opened' = (file = "readable")
  /\ main' = "generate"
  /\ UNCHANGED <<file, source, console, lexVars, parVars, genVars>>

RemoveFile ==
  /\ main \in {"main", "open"} /\ file # "none"
  /\ file' = "none"
  /\ UNCHANGED <<source, mainVars, lexVars, parVars, genVars>>

\* The reader's stream: the characters of the file and then EOF, or EOF at once when
\* it could not be opened.
Stream(i) == IF opened /\ i <= Len(source) THEN source[i] ELSE "EOF"

LexerStep ==
  /\ Lex!get
  /\ input' # input => Last(input') = Stream(Len(input'))

ParserNeedsToken == ENABLED (Par!Next /\ toks' # toks)

\* GetTok calls Lexer::get(), ...
CallLexer ==
  /\ main = "generate" /\ lpc = "Idle"
  /\ ParserNeedsToken
  /\ Lex!Call
  /\ UNCHANGED <<file, source, mainVars, parVars, genVars>>

\* ... which runs ...
RunLexer ==
  /\ LexerStep /\ lpc' # "Idle"
  /\ UNCHANGED <<file, source, mainVars, parVars, genVars>>

\* ... and returns to the parser, which goes on.
LexerReturns ==
  /\ LexerStep /\ lpc' = "Idle"
  /\ Par!Next /\ toks' = Append(toks, Token(Last(out')))
  /\ UNCHANGED <<file, source, mainVars, genVars>>

\* The parser goes on by itself.
RunParser ==
  /\ main = "generate" /\ lpc = "Idle" /\ ppc # "Done"
  /\ UNCHANGED tokVars /\ Par!Next
  /\ UNCHANGED <<file, source, mainVars, lexVars, genVars>>

\* get() has returned; the generator goes on.
RunGenerator ==
  /\ main = "generate" /\ ppc = "Done" /\ gpc \notin {"Done", "Crashed"}
  /\ UNCHANGED <<file, source, mainVars, lexVars, parVars>>
  /\ Gen!Next

\* generate() returns, and so does main.
MainEnds ==
  /\ main = "generate" /\ gpc = "Done"
  /\ main' = "end"
  /\ UNCHANGED <<file, source, opened, console, lexVars, parVars, genVars>>

Ended == main = "end" \/ gpc = "Crashed"
Terminated == Ended /\ UNCHANGED vars

Program ==
  \/ NoArguments \/ CompileLLVM \/ OpenFile
  \/ CallLexer \/ RunLexer \/ LexerReturns \/ RunParser \/ RunGenerator
  \/ MainEnds

Next == Program \/ RemoveFile \/ Terminated

Spec == Init /\ [][Next]_vars

\* The program is sequential; whether the file is removed is not up to it.
FairSpec == Spec /\ WF_vars(Program)
-----------------------------------------------------------------------------
TypeOK ==
  /\ main \in {"main", "open", "generate", "end"}
  /\ file \in {"readable", "unreadable", "directory", "none"}
  /\ opened \in BOOLEAN
  /\ console \in Seq({"no arguments specified", "file not found"})
  /\ Lex!TypeOK /\ Par!TypeOK /\ Gen!TypeOK

\* What the generator takes for granted of an AST is what the parser returns: kids
\* before their parents, two operands of a known operator, names that are names,
\* no null pointer anywhere, and no object that is cast to a class it is not of
\* or is still to be evaluated.
ParserMeetsGenerator ==
  ppc = "Done" =>
    /\ Gen!IsProgram(Result)
    /\ \A n \in DOMAIN nodes :
         LET type == ast_type(ExprClass[nodes[n].kind])
         IN  is_expression(type) /\ ~is_lazy(type)
    /\ \A i \in DOMAIN lines : is_definition(ast_type("FunctionDefAST"))

\* Nothing is printed unless the whole file was read and is free of syntax errors.
NothingBeforeTheWholeFile ==
  printed # <<>> => Last(input) = "EOF" /\ err = "none"

(***************************************************************************)
(* The program answers for every character of the file it read.  When it   *)
(* ends and has not said that there is no file, either it has reported a   *)
(* syntax error, or each character that is no white space, comment or line *)
(* break is in exactly one definition, and each definition was printed, in *)
(* the order of the source, or reported.                                   *)
(***************************************************************************)
CharsOf(i) ==
  out[lines[i].Proto.first].first .. out[Par!LastOf(lines[i].Body)].last

Reported(i) == \E j \in DOMAIN log : log[j].line = i
Kept(n) == {i \in 1 .. n : ~Reported(i)}

EveryCharacterAnswered ==
  main = "end" /\ console = <<>> =>
    IF err # "none" THEN Reported(0)
    ELSE
    /\ \A c \in 1 .. Len(input) - 1 :
         ~Lex!Layout(c) /\ input[c] \notin Lex!Break =>
           Cardinality({i \in DOMAIN lines : c \in CharsOf(i)}) = 1
    /\ Len(printed) = Cardinality(Kept(Len(lines)))
    /\ \A i \in Kept(Len(lines)) : printed[Cardinality(Kept(i))] = lines[i].Proto.Name

\* What is printed computes the expression that the characters of the file spell.
CodeComputesSource ==
  /\ Par!ASTSpellsSource /\ Par!PrecedenceRespected
  /\ Gen!CodeComputesBody

\* Whatever the path and the file, the program ends: it returns from main, or dies
\* of having used the result that holds an error.
Terminates == <>Ended
=============================================================================
