------------------------------ MODULE Generator ------------------------------
(***************************************************************************)
(* grComp/Generator_llvm.cpp: GeneratorLLVM::generate() on one module that *)
(* the parser returned, and what it asks of LLVM.                          *)
(*                                                                         *)
(* The AST is the parser's: nodes are numbered as Parser makes them, the   *)
(* operands and arguments of a node before the node.  The calls of         *)
(* ExprASTtoIR that are active are the variable stack: for each one the    *)
(* node it is at and what its calls for the node's kids have returned.     *)
(***************************************************************************)
EXTENDS Integers, Sequences, SequencesExt, FiniteSets, TLC

CONSTANTS
  Names,    \* the identifiers of the source
  Programs  \* what Parser::get() may return

Operator == {"<", ">", "grtr_eq", "lssr_eq", "+", "-", "*", "/"}

Node(ids) ==
  [kind : {"Number", "Variable", "Binary", "Call"}, val : Names \cup Operator \cup {""},
   kids : Seq(ids)]

Definition(ids) == [Proto : [Name : Names, Args : Seq(Names)], Body : ids]

IsNode(p, n) ==
  LET e == p.nodes[n]
  IN  /\ e \in Node(1 .. n - 1)
      /\ e.kind \in {"Number", "Variable"} => e.kids = <<>>
      /\ e.kind = "Binary" => Len(e.kids) = 2 /\ e.val \in Operator
      /\ e.kind \in {"Variable", "Call"} => e.val \in Names

ASSUME NamesAssumption == Names \subseteq STRING

\* What generate() may be given: the result of Parser::get().
IsProgram(p) ==
  /\ p.ok \in BOOLEAN
  /\ p.nodes \in Seq(Node(1 .. Len(p.nodes)))
  /\ \A n \in 1 .. Len(p.nodes) : IsNode(p, n)
  /\ p.lines \in Seq(Definition(1 .. Len(p.nodes)))

ASSUME ProgramsAssumption == \A p \in Programs : IsProgram(p)

VARIABLES
  mod,          \* the result of m_parser->get(); ok is false when it is an error
  pc,
  line,         \* the iteration of the loop over (*mod)->lines
  stack,
  ret,          \* what ExprASTtoIR returned for the body
  NamedValues,
  module,       \* llvm::Module: its functions, by name
  insert,       \* the builder's insertion point: the line whose entry block it is in
  log,          \* the errors reported
  printed       \* the functions printed

vars == <<mod, pc, line, stack, ret, NamedValues, module, insert, log, printed>>

Error ==
  {"parser error", "undefined variable", "undefined function", "incorrect # arguments",
   "invalid binary operator", "cannot be redefined"}

(***************************************************************************)
(* An llvm::Value*, or the error returned instead of it.  A constant is    *)
(* known by the node it is the value of, an argument or an instruction by  *)
(* its function (the line that defines it) and its number there.           *)
(***************************************************************************)
Value(kind, of, n) == [kind |-> kind, of |-> of, n |-> n]
AnyValue ==
  [kind : {"const", "arg", "instr", "null"} \cup Error, of : 0 .. Len(mod.lines), n : Nat]
Null == Value("null", 0, 0)
Failure(e) == Value(e, 0, 0)
Failed(v) == v.kind \in Error

Top == Last(stack)
ast == mod.nodes[Top.ast]
\* map[key] = value
With(map, key, value) ==
  [k \in DOMAIN map \cup {key} |-> IF k = key THEN value ELSE map[k]]
FrameOf(n) == [ast |-> n, vals |-> <<>>]

\* A call of ExprASTtoIR returns v to the call for the parent node, or to FunctionASTtoIR.
Return(v) ==
  IF Len(stack) = 1
    THEN stack' = <<>> /\ ret' = v /\ pc' = "Body"
    ELSE /\ stack' = [Front(stack) EXCEPT ![Len(stack) - 1].vals = Append(@, v)]
         /\ UNCHANGED <<ret, pc>>

-----------------------------------------------------------------------------
(***************************************************************************)
(* LLVM                                                                    *)
(***************************************************************************)
\* The name an argument gets: its own, or, when it is taken, that and the next
\* number with which it is not.
Numbered(a, k) == a \o ToString(k)

NextNumber(a, taken, last) ==
  CHOOSE k \in last + 1 .. last + Cardinality(taken) + 1 :
    /\ Numbered(a, k) \notin taken
    /\ \A j \in last + 1 .. k - 1 : Numbered(a, j) \in taken

WithName(st, a) ==
  IF a \notin ToSet(st.names)
    THEN [names |-> Append(st.names, a), last |-> st.last]
    ELSE LET k == NextNumber(a, ToSet(st.names), st.last)
         IN  [names |-> Append(st.names, Numbered(a, k)), last |-> k]

setNames(args) ==
  LET named[i \in 0 .. Len(args)] ==
        IF i = 0 THEN [names |-> <<>>, last |-> 0] ELSE WithName(named[i - 1], args[i])
  IN  named[Len(args)].names

\* The builder appends instructions to its block; it returns the value of the last.
\* On constants alone it makes none and returns a constant.
Emit(instrs) ==
  LET name == mod.lines[insert].Proto.Name
  IN  /\ module' = [module EXCEPT ![name].code = @ \o instrs]
      /\ Return(Value("instr", insert, Len(module[name].code) + Len(instrs)))

Instr(op, vals) == [op |-> op, args |-> vals, ast |-> Top.ast]

Create_Swapped(op, vals) == <<Instr(op, <<vals[2], vals[1]>>)>>   \* mutant

\* Create...(L, R): what the operator is computed with.
Create(op, vals) ==
  LET cmp == Value("instr", insert, Len(module[mod.lines[insert].Proto.Name].code) + 1)
  IN  IF op = "<" THEN <<Instr("<", vals), Instr("uitofp", <<cmp>>)>> ELSE <<Instr(op, vals)>>

-----------------------------------------------------------------------------
Init ==
  /\ mod \in Programs
  /\ pc = "Get" /\ line = 0
  /\ stack = <<>> /\ ret = Null
  /\ NamedValues = <<>> /\ module = <<>> /\ insert = 0
  /\ log = <<>> /\ printed = <<>>

(***************************************************************************)
(* generate().  An error is reported, and then the result that holds the   *)
(* error is dereferenced all the same: the behaviour is undefined.  The    *)
(* process dies, or it goes on with the loop.                              *)
(***************************************************************************)
Report(e) ==
  /\ log' = Append(log, [line |-> line, error |-> e])
  /\ pc' = "Undefined"

ParserResult ==
  /\ pc = "Get"
  /\ IF mod.ok THEN line' = 1 /\ pc' = "Line" /\ UNCHANGED log
               ELSE Report("parser error") /\ UNCHANGED line
  /\ UNCHANGED <<mod, stack, ret, NamedValues, module, insert, printed>>

Crash ==
  /\ pc = "Undefined"
  /\ pc' = "Crashed"
  /\ UNCHANGED <<mod, line, stack, ret, NamedValues, module, insert, log, printed>>

GoOn ==
  /\ pc = "Undefined"
  /\ pc' = "Line" /\ line' = line + 1
  /\ UNCHANGED <<mod, stack, ret, NamedValues, module, insert, log, printed>>

\* Mutant: the loop does not end.
LinesDone_Stays ==
  /\ pc = "Line" /\ line > Len(mod.lines)
  /\ UNCHANGED vars

LinesDone ==
  /\ pc = "Line" /\ line > Len(mod.lines)
  /\ pc' = "Done"
  /\ UNCHANGED <<mod, line, stack, ret, NamedValues, module, insert, log, printed>>

(***************************************************************************)
(* FunctionASTtoIR, up to its call of ExprASTtoIR for the body             *)
(***************************************************************************)
PrototypeASTtoIR(proto) == [line |-> line, args |-> setNames(proto.Args), entry |-> FALSE,
                            code |-> <<>>, value |-> Null]

\* !F->empty(): F has a basic block.
hasBody_ByCode(F) == F.code # <<>>   \* mutant
hasBody(F) == F.entry

Argument(args) ==
  [a \in ToSet(args) |-> Value("arg", line, CHOOSE i \in DOMAIN args : args[i] = a)]

\* NamedValues is cleared, and the arguments are recorded in it.
Recorded_NoClear(args) == Argument(args) @@ NamedValues   \* mutant
Recorded(args) == Argument(args)

BeginFunction ==
  /\ pc = "Line" /\ line <= Len(mod.lines)
  /\ LET d == mod.lines[line]
         name == d.Proto.Name
         TheFunction ==
           IF name \in DOMAIN module THEN module[name] ELSE PrototypeASTtoIR(d.Proto)
     IN  IF hasBody(TheFunction)
           THEN /\ Report("cannot be redefined")
                /\ UNCHANGED <<stack, NamedValues, module, insert>>
           ELSE /\ module' = With(module, name, [TheFunction EXCEPT !.entry = TRUE])
                /\ insert' = line
                /\ NamedValues' = Recorded(TheFunction.args)
                /\ stack' = <<FrameOf(d.Body)>>
                /\ pc' = "Expr"
                /\ UNCHANGED log
  /\ UNCHANGED <<mod, line, ret, printed>>

\* The body is there: finish the function off, and generate() prints it.  (What
\* opt_fpm.run makes of the code computes the same and makes the same calls.)
FinishFunction ==
  /\ pc = "Body" /\ ~Failed(ret)
  /\ module' = [module EXCEPT ![mod.lines[insert].Proto.Name].value = ret]
  /\ printed' = Append(printed, mod.lines[line].Proto.Name)
  /\ pc' = "Line" /\ line' = line + 1
  /\ UNCHANGED <<mod, stack, ret, NamedValues, insert, log>>

\* Or it is not: remove the function.
eraseFromParent_Not(name) == module   \* mutant
eraseFromParent(name) == [f \in DOMAIN module \ {name} |-> module[f]]

RemoveFunction ==
  /\ pc = "Body" /\ Failed(ret)
  /\ module' = eraseFromParent(mod.lines[line].Proto.Name)
  /\ Report(ret.kind)
  /\ UNCHANGED <<mod, line, stack, ret, NamedValues, insert, printed>>

(***************************************************************************)
(* ExprASTtoIR                                                             *)
(***************************************************************************)
At(kind) == pc = "Expr" /\ ast.kind = kind
Rest == UNCHANGED <<mod, line, insert, log, printed>>

\* Mutant: operands and arguments from right to left.
Visit_RightToLeft ==
  /\ stack' = Append(stack, FrameOf(ast.kids[Len(ast.kids) - Len(Top.vals)]))
  /\ UNCHANGED <<pc, ret, NamedValues, module>> /\ Rest

\* ExprASTtoIR is called for the next kid.
Visit ==
  /\ stack' = Append(stack, FrameOf(ast.kids[Len(Top.vals) + 1]))
  /\ UNCHANGED <<pc, ret, NamedValues, module>> /\ Rest

NumberExprASTtoIR ==
  /\ At("Number")
  /\ Return(Value("const", 0, Top.ast))
  /\ UNCHANGED <<NamedValues, module>> /\ Rest

\* Mutant: what is not in the map is returned all the same.
VariableExprASTtoIR_Unchecked ==
  /\ At("Variable")
  /\ LET V == IF ast.val \in DOMAIN NamedValues THEN NamedValues[ast.val] ELSE Null
     IN  /\ NamedValues' = With(NamedValues, ast.val, V)
         /\ Return(V)
  /\ UNCHANGED module /\ Rest

\* Looking a name up that is not in the map puts it there.
VariableExprASTtoIR ==
  /\ At("Variable")
  /\ LET V == IF ast.val \in DOMAIN NamedValues THEN NamedValues[ast.val] ELSE Null
     IN  /\ NamedValues' = With(NamedValues, ast.val, V)
         /\ Return(IF V = Null THEN Failure("undefined variable") ELSE V)
  /\ UNCHANGED module /\ Rest

\* Both operands are generated before either is looked at.
BinaryOperand ==
  /\ At("Binary") /\ Len(Top.vals) < 2
  /\ Visit

BinaryFailed ==
  /\ At("Binary") /\ Len(Top.vals) = 2
  /\ LET L == Top.vals[1]
         R == Top.vals[2]
     IN  \/ Failed(L) /\ Return(L)
         \/ ~Failed(L) /\ Failed(R) /\ Return(R)
         \/ /\ ~Failed(L) /\ ~Failed(R) /\ ast.val \notin {"+", "-", "*", "<"}
            /\ Return(Failure("invalid binary operator"))
  /\ UNCHANGED <<NamedValues, module>> /\ Rest

BinaryOperation ==
  /\ At("Binary") /\ Len(Top.vals) = 2 /\ ast.val \in {"+", "-", "*", "<"}
  /\ \A i \in 1 .. 2 : ~Failed(Top.vals[i])
  /\ IF \A i \in 1 .. 2 : Top.vals[i].kind = "const"
       THEN Return(Value("const", 0, Top.ast)) /\ UNCHANGED module
       ELSE Emit(Create(ast.val, Top.vals))
  /\ UNCHANGED NamedValues /\ Rest

\* The callee and the number of arguments are checked before the arguments.
Callable_AnyNumber(name, n) == name \in DOMAIN module   \* mutant
Callable(name, n) == name \in DOMAIN module /\ Len(module[name].args) = n

CallRejected ==
  /\ At("Call") /\ Top.vals = <<>> /\ ~Callable(ast.val, Len(ast.kids))
  /\ Return(Failure(IF ast.val \in DOMAIN module THEN "incorrect # arguments"
                                                 ELSE "undefined function"))
  /\ UNCHANGED <<NamedValues, module>> /\ Rest

CallArgument ==
  /\ At("Call") /\ Len(Top.vals) < Len(ast.kids)
  /\ IF Top.vals = <<>> THEN Callable(ast.val, Len(ast.kids)) ELSE ~Failed(Last(Top.vals))
  /\ Visit

CallFailed ==
  /\ At("Call") /\ Top.vals # <<>> /\ Failed(Last(Top.vals))
  /\ Return(Last(Top.vals))
  /\ UNCHANGED <<NamedValues, module>> /\ Rest

CreateCall ==
  /\ At("Call") /\ Len(Top.vals) = Len(ast.kids)
  /\ IF Top.vals = <<>> THEN Callable(ast.val, 0) ELSE ~Failed(Last(Top.vals))
  /\ Emit(<<Instr("call", Top.vals)>>)
  /\ UNCHANGED NamedValues /\ Rest

ExprASTtoIR ==
  \/ NumberExprASTtoIR \/ VariableExprASTtoIR
  \/ BinaryOperand \/ BinaryFailed \/ BinaryOperation
  \/ CallRejected \/ CallArgument \/ CallFailed \/ CreateCall

Terminated == pc \in {"Done", "Crashed"} /\ UNCHANGED vars

Next ==
  \/ ParserResult \/ Crash \/ GoOn \/ LinesDone
  \/ BeginFunction \/ FinishFunction \/ RemoveFunction
  \/ ExprASTtoIR
  \/ Terminated

Spec == Init /\ [][Next]_vars

\* The generator is sequential code: it goes on as long as it can.
FairSpec == Spec /\ WF_vars(Next)
-----------------------------------------------------------------------------
\* The names of arguments are LLVM's.
Function ==
  [line : 1 .. Len(mod.lines), args : Seq(UNION {ToSet(module[f].args) : f \in DOMAIN module}), entry : BOOLEAN,
   code : Seq([op : {"call", "uitofp"} \cup Operator, args : Seq(AnyValue), ast : DOMAIN mod.nodes]),
   value : AnyValue]

\* Every variable has its type; no call of ExprASTtoIR returns a null Value*.
TypeOK ==
  /\ pc \in {"Get", "Line", "Expr", "Body", "Undefined", "Done", "Crashed"}
  /\ line \in 0 .. Len(mod.lines) + 1
  /\ stack \in Seq([ast : DOMAIN mod.nodes, vals : Seq(AnyValue \ {Null})])
  /\ \A s \in DOMAIN stack : Len(stack[s].vals) <= Len(mod.nodes[stack[s].ast].kids)
  /\ ret \in AnyValue /\ (pc = "Body" => ret # Null)
  /\ \A a \in DOMAIN NamedValues : NamedValues[a] \in AnyValue
  /\ \A f \in DOMAIN module : f \in Names /\ module[f] \in Function
  /\ insert \in 0 .. Len(mod.lines)
  /\ log \in Seq([line : 0 .. Len(mod.lines), error : Error])
  /\ printed \in Seq(Names)

(***************************************************************************)
(* What llvm::verifyFunction wants of every function, at every moment: an  *)
(* operand is a constant, an argument of the same function or an earlier   *)
(* instruction of it, and a call is to a function that is in the module,   *)
(* with as many arguments as it has.  So verifyFunction never complains,   *)
(* no call is left dangling when a function is erased, and nothing of an   *)
(* earlier function (or of an erased one) is reached through NamedValues   *)
(* or through the builder.                                                 *)
(***************************************************************************)
Usable(f, v, i) ==
  \/ v.kind = "const"
  \/ v.kind = "arg" /\ v.of = f.line /\ v.n \in DOMAIN f.args
  \/ v.kind = "instr" /\ v.of = f.line /\ v.n < i

Verifies(f) ==
  /\ \A i \in DOMAIN f.code :
       /\ \A k \in DOMAIN f.code[i].args : Usable(f, f.code[i].args[k], i)
       /\ f.code[i].op = "call" =>
            Callable(mod.nodes[f.code[i].ast].val, Len(f.code[i].args))
  /\ f.value # Null => Usable(f, f.value, Len(f.code) + 1)

EveryFunctionVerifies == \A name \in DOMAIN module : Verifies(module[name])

(***************************************************************************)
(* The code of a finished function computes its body: Computed(f)[n] are   *)
(* the values of function f that are the value of node n.                  *)
(***************************************************************************)
ValuesOf(f) ==
  {Value("const", 0, n) : n \in DOMAIN mod.nodes}
  \cup {Value("arg", f.line, i) : i \in DOMAIN f.args}
  \cup {Value("instr", f.line, i) : i \in DOMAIN f.code}

\* vals are the values of the kids of node n.
Operands(vals, n, computed) ==
  LET kids == mod.nodes[n].kids
  IN  Len(vals) = Len(kids) /\ \A i \in DOMAIN kids : vals[i] \in computed[kids[i]]

ConstantOf(n, computed) ==
  /\ mod.nodes[n].kind \in {"Number", "Binary"}
  /\ \A k \in ToSet(mod.nodes[n].kids) : Value("const", 0, k) \in computed[k]

ArgumentOf(f, i, n) ==
  mod.nodes[n].kind = "Variable" /\ mod.lines[f.line].Proto.Args[i] = mod.nodes[n].val

\* Instruction i does what node n says.
Does(f, i, n, computed) ==
  LET e == mod.nodes[n]
      c == f.code[i]
  IN  \/ e.kind = "Call" /\ c.op = "call" /\ c.ast = n /\ Operands(c.args, n, computed)
      \/ e.kind = "Binary" /\ e.val # "<" /\ c.op = e.val /\ Operands(c.args, n, computed)
      \/ /\ e.kind = "Binary" /\ e.val = "<" /\ c.op = "uitofp"
         /\ \E j \in 1 .. i - 1 : /\ c.args = <<Value("instr", f.line, j)>> /\ f.code[j].op = "<"
                                 /\ Operands(f.code[j].args, n, computed)

IsValue(f, v, n, computed) ==
  \/ v = Value("const", 0, n) /\ ConstantOf(n, computed)
  \/ \E i \in DOMAIN f.args : v = Value("arg", f.line, i) /\ ArgumentOf(f, i, n)
  \/ \E i \in DOMAIN f.code : v = Value("instr", f.line, i) /\ Does(f, i, n, computed)

Computed(f) ==
  LET computed[n \in DOMAIN mod.nodes] == {v \in ValuesOf(f) : IsValue(f, v, n, computed)}
  IN  computed

DistinctArgs(i) == IsInjective(mod.lines[i].Proto.Args)

CodeComputesBody ==
  \A name \in DOMAIN module :
    LET f == module[name]
    IN  f.value # Null /\ DistinctArgs(f.line) =>
          f.value \in Computed(f)[mod.lines[f.line].Body]

\* The calls of the tree of a node, as a walk leaves them: those of its kids from left
\* to right, then the node itself.
OwnCall(n) == IF mod.nodes[n].kind = "Call" THEN <<n>> ELSE <<>>

CallsOf(root) ==
  LET calls[n \in DOMAIN mod.nodes] ==
        FlattenSeq([i \in DOMAIN mod.nodes[n].kids |-> calls[mod.nodes[n].kids[i]]]) \o OwnCall(n)
  IN  calls[root]

\* The calls that code makes: the nodes they were generated for.
CallsIn(code) ==
  FlattenSeq([i \in DOMAIN code |-> IF code[i].op = "call" THEN <<code[i].ast>> ELSE <<>>])

(***************************************************************************)
(* A function may have effects (the language has print): a finished        *)
(* function makes each call of its body once, the arguments of a call      *)
(* before it and the left operand before the right, as in the source.      *)
(***************************************************************************)
CallsInSourceOrder ==
  \A name \in DOMAIN module :
    LET f == module[name]
    IN  f.value # Null => CallsIn(f.code) = CallsOf(mod.lines[f.line].Body)

\* The nodes of the tree of a node.
Subtree(root) ==
  LET sub[n \in DOMAIN mod.nodes] == {n} \cup UNION {sub[k] : k \in ToSet(mod.nodes[n].kids)}
  IN  sub[root]

\* The lines up to a place that were reported, and those that were compiled.
Rejected(before) == {log[j].line : j \in DOMAIN log} \cap 0 .. before
Compiled(before) == 1 .. before \ Rejected(before)

ValidNode(i, e) ==
  /\ e.kind = "Variable" => e.val \in ToSet(mod.lines[i].Proto.Args)
  /\ e.kind = "Binary" => e.val \in {"+", "-", "*", "<"}
  /\ e.kind = "Call" => \E c \in Compiled(i - 1) \cup {i} :
       mod.lines[c].Proto.Name = e.val /\ Len(mod.lines[c].Proto.Args) = Len(e.kids)

ValidLine(i) ==
  /\ \A c \in Compiled(i - 1) : mod.lines[c].Proto.Name # mod.lines[i].Proto.Name
  /\ \A n \in Subtree(mod.lines[i].Body) : ValidNode(i, mod.nodes[n])

(***************************************************************************)
(* What is accepted: line i is compiled exactly when its name is new, and  *)
(* its body uses its own arguments, calls itself or the functions compiled *)
(* before it, with as many arguments as they have, and uses no operator    *)
(* but + - * <.                                                            *)
(***************************************************************************)
AcceptsTheValid ==
  pc \in {"Line", "Undefined"} =>
    \A i \in 1 .. line - (IF pc = "Line" THEN 1 ELSE 0) :
      DistinctArgs(i) => (ValidLine(i) <=> i \notin Rejected(i))

\* Between two lines the module holds the functions printed so far, in full, and
\* nothing of those that were rejected.
ModuleIsWhatWasPrinted ==
  pc \in {"Line", "Undefined", "Done"} =>
    /\ DOMAIN module = ToSet(printed) /\ IsInjective(printed)
    /\ \A name \in DOMAIN module : module[name].value # Null
    /\ Len(printed) = Cardinality(Compiled(line - (IF pc = "Undefined" THEN 0 ELSE 1)))

\* A later definition, valid or not, never touches a finished function.
FinishedFunctionsStay ==
  [][\A name \in DOMAIN module :
       module[name].value # Null => name \in DOMAIN module' /\ module'[name] = module[name]]_vars

\* Whatever the module, generate() ends.
Terminates == <>(pc \in {"Done", "Crashed"})
-----------------------------------------------------------------------------
\* tl/expected.hpp: "The initialization state of the contained object is tracked by
\* the expected object": it is used only when there is one.
ContainedObjectExists == pc # "Undefined"

\* FunctionASTtoIR: "Record the function arguments in the NamedValues map".  A name
\* the prototype declares stands for an argument declared so.
ArgumentsRecordedByName ==
  pc = "Expr" =>
    LET Args == mod.lines[line].Proto.Args
    IN  \A a \in ToSet(Args) : Args[NamedValues[a].n] = a
=============================================================================
