-------------------------------- MODULE ASTs --------------------------------
(***************************************************************************)
(* grComp/ASTs.h and ASTs.cpp: the classes of AST nodes.  An object is     *)
(* held and handed on through pointers to its base classes, and whoever    *)
(* uses it casts the pointer to the class that the type stored in the      *)
(* object stands for.                                                      *)
(***************************************************************************)
EXTENDS Integers, Sequences, SequencesExt

Base ==
  [EagerAST |-> "BaseAST", LazyAST |-> "BaseAST",
   ExprAST |-> "EagerAST", DefinitionAST |-> "EagerAST", PrototypeAST |-> "EagerAST",
   ModuleAST |-> "EagerAST",
   NumberExprAST |-> "ExprAST", VariableExprAST |-> "ExprAST", BinaryExprAST |-> "ExprAST",
   CallExprAST |-> "ExprAST",
   FunctionDefAST |-> "DefinitionAST"]

Class == DOMAIN Base \cup {"BaseAST"}

\* std::is_base_of: a class is its own base, too.
IsBaseOf(base, class) ==
  LET bases[c \in Class] == {c} \cup IF c \in DOMAIN Base THEN bases[Base[c]] ELSE {}
  IN  base \in bases[class]

\* The classes that have a type, AstType; its value is the place here.
AST_TYPES ==
  <<"NumberExprAST", "VariableExprAST", "BinaryExprAST", "CallExprAST", "PrototypeAST",
    "FunctionDefAST", "ModuleAST">>
AstType == 0 .. Len(AST_TYPES)
ErrorAST_t == 0

\* Mutant: a constructor copied from the one before it.
ast_type_Copied(class) ==
  IF class = "CallExprAST" THEN 3
  ELSE SelectInSeq(AST_TYPES, LAMBDA c : c = class)

\* The type that the constructor of a class stores in the object.
ast_type(class) == SelectInSeq(AST_TYPES, LAMBDA c : c = class)

\* AstTypeToClassType
ClassOf(type) == AST_TYPES[type]

\* is_lazy, is_expression and is_definition of a type, the run-time forms: a switch
\* over the types that asks the class.
Asks(type, base) ==
  \E t \in AstType \ {ErrorAST_t} : t = type /\ IsBaseOf(base, ClassOf(t))

is_lazy(type) == Asks(type, "LazyAST")
is_expression(type) == Asks(type, "ExprAST")
is_definition(type) == Asks(type, "DefinitionAST")
=============================================================================
