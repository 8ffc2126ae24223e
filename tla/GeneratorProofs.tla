--------------------------- MODULE GeneratorProofs ---------------------------
(***************************************************************************)
(* Proofs about Generator, for modules of any number of functions, with    *)
(* bodies and argument lists of any size.                                  *)
(***************************************************************************)
EXTENDS Generator, BasicFacts, FiniteSetTheorems

Building == pc \in {"Expr", "Body"}
NameOf(i) == mod.lines[i].Proto.Name
Current == module[NameOf(line)]   \* the function being built

-----------------------------------------------------------------------------
(***************************************************************************)
(* The inductive invariant                                                 *)
(***************************************************************************)
CallFrame == [ast : DOMAIN mod.nodes, vals : Seq(AnyValue)]
Instruction == [op : {"call", "uitofp"} \cup Operator, args : Seq(AnyValue), ast : DOMAIN mod.nodes]
Reported == [line : 0 .. Len(mod.lines), error : Error]

FunctionOK(f) ==
  /\ f = [line |-> f.line, args |-> f.args, entry |-> f.entry, code |-> f.code, value |-> f.value]
  /\ f.line \in 1 .. Len(mod.lines)
  /\ f.args \in Seq(ToSet(f.args))
  /\ f.entry \in BOOLEAN
  /\ f.code \in Seq(Instruction)
  /\ f.value \in AnyValue

Types ==
  /\ pc \in {"Get", "Line", "Expr", "Body", "Undefined", "Done", "Crashed"}
  /\ line \in 0 .. Len(mod.lines) + 1
  /\ stack \in Seq(CallFrame)
  /\ ret \in AnyValue
  /\ \A a \in DOMAIN NamedValues : NamedValues[a] \in AnyValue
  /\ \A name \in DOMAIN module : name \in Names /\ FunctionOK(module[name])
  /\ insert \in 0 .. Len(mod.lines)
  /\ log \in Seq(Reported)
  /\ printed \in Seq(Names)

\* Where the generator is
Positions ==
  /\ pc = "Expr" <=> stack # <<>>
  /\ pc = "Get" => line = 0
  /\ pc = "Line" => line >= 1
  /\ pc = "Undefined" => line <= Len(mod.lines)
  /\ Building => /\ line \in 1 .. Len(mod.lines) /\ insert = line
                 /\ NameOf(line) \in DOMAIN module
                 /\ Current.line = line /\ Current.value = Null

\* Each function of the module is one of the lines', and finished but for the one
\* being built.
EachFinished ==
  \A name \in DOMAIN module :
    /\ module[name].entry /\ NameOf(module[name].line) = name
    /\ module[name].value = Null => Building /\ name = NameOf(line)

\* A function calls itself or what will stay.
Callee(c) == mod.nodes[c.ast].val
CallsStay ==
  \A name \in DOMAIN module : \A i \in DOMAIN module[name].code :
    LET c == module[name].code[i]
    IN  c.op = "call" =>
          Callee(c) = name \/ (Callee(c) \in DOMAIN module /\ module[Callee(c)].value # Null)

\* What ExprASTtoIR may return while function f is being built
Good(f, v) == Failed(v) \/ Usable(f, v, Len(f.code) + 1)

\* A call of ExprASTtoIR for node e while f, of module m, is being built: what its calls
\* for the kids have returned, all but the last of them no failures in a call node; a
\* call that is not the active one is pending, it waits for one more.
FrameOK(fr, pending, e, m, f) ==
  /\ Len(fr.vals) <= Len(e.kids) /\ (pending => Len(fr.vals) < Len(e.kids))
  /\ \A k \in 1 .. Len(fr.vals) : Good(f, fr.vals[k])
  /\ e.kind = "Call" =>
       /\ pending \/ fr.vals # <<>> => e.val \in DOMAIN m /\ Len(m[e.val].args) = Len(e.kids)
       /\ \A k \in 1 .. Len(fr.vals) : pending \/ k < Len(fr.vals) => ~Failed(fr.vals[k])
Frames ==
  \A s \in 1 .. Len(stack) :
    FrameOK(stack[s], s < Len(stack), mod.nodes[stack[s].ast], module, Current)

\* NamedValues has arguments of this function, and the nulls of names looked up in vain.
Recording(v) == v = Null \/ (v.kind = "arg" /\ Usable(Current, v, 1))
ArgumentsOfThis == Building => \A a \in DOMAIN NamedValues : Recording(NamedValues[a])

BodyReturned == pc = "Body" => Good(Current, ret)

Inv ==
  /\ IsProgram(mod) /\ Types /\ Positions /\ EachFinished /\ CallsStay /\ Frames
  /\ ArgumentsOfThis /\ BodyReturned /\ EveryFunctionVerifies

-----------------------------------------------------------------------------
(***************************************************************************)
(* Programs, values, functions                                             *)
(***************************************************************************)
\* The parser's nodes and definitions
LEMMA ProgramIs ==
  ASSUME IsProgram(mod)
  PROVE  /\ Len(mod.nodes) \in Nat /\ Len(mod.lines) \in Nat
         /\ DOMAIN mod.nodes = 1 .. Len(mod.nodes)
         /\ \A n \in DOMAIN mod.nodes :
              LET e == mod.nodes[n]
              IN  /\ Len(e.kids) \in Nat
                  /\ \A i \in 1 .. Len(e.kids) : e.kids[i] \in DOMAIN mod.nodes
                  /\ e.kind \in {"Number", "Variable", "Binary", "Call"}
                  /\ e.kind \in {"Number", "Variable"} => Len(e.kids) = 0
                  /\ e.kind = "Binary" => Len(e.kids) = 2
         /\ \A i \in 1 .. Len(mod.lines) :
              /\ NameOf(i) \in Names
              /\ mod.lines[i].Proto.Args \in Seq(Names)
              /\ mod.lines[i].Body \in DOMAIN mod.nodes
<1> DEFINE n1 == Len(mod.nodes)
           N == Node(1 .. n1)
           D == Definition(1 .. n1)
<1>1. mod.nodes \in Seq(N) /\ mod.lines \in Seq(D)
  BY DEF IsProgram
<1> HIDE DEF N, D
<1>2. /\ Len(mod.nodes) \in Nat /\ DOMAIN mod.nodes = 1 .. Len(mod.nodes)
      /\ \A i \in 1 .. Len(mod.nodes) : mod.nodes[i] \in N
  BY <1>1, LenProperties, ElementOfSeq
<1>3. Len(mod.lines) \in Nat /\ \A i \in 1 .. Len(mod.lines) : mod.lines[i] \in D
  BY <1>1, LenProperties, ElementOfSeq
<1>4. ASSUME NEW n \in 1 .. Len(mod.nodes)
      PROVE  LET e == mod.nodes[n]
             IN  /\ Len(e.kids) \in Nat
                 /\ \A i \in 1 .. Len(e.kids) : e.kids[i] \in DOMAIN mod.nodes
                 /\ e.kind \in {"Number", "Variable", "Binary", "Call"}
                 /\ e.kind \in {"Number", "Variable"} => Len(e.kids) = 0
                 /\ e.kind = "Binary" => Len(e.kids) = 2
  <2> DEFINE e == mod.nodes[n]
  <2>1. e \in Node(1 .. n1)
    BY <1>2 DEF N
  <2> HIDE DEF n1
  <2>2. e.kids \in Seq(1 .. n1) /\ e.kind \in {"Number", "Variable", "Binary", "Call"}
    BY <2>1 DEF Node
  <2>3. IsNode(mod, n)
    BY DEF IsProgram
  <2>4. /\ e.kind \in {"Number", "Variable"} => e.kids = <<>>
        /\ e.kind = "Binary" => Len(e.kids) = 2
    BY <2>3 DEF IsNode
  <2>5. Len(e.kids) \in Nat /\ \A i \in 1 .. Len(e.kids) : e.kids[i] \in 1 .. n1
    BY <2>2, LenProperties, ElementOfSeq
  <2>6. e.kids = <<>> => Len(e.kids) = 0
    OBVIOUS
  <2> QED
    BY <1>2, <2>2, <2>4, <2>5, <2>6 DEF n1
<1>5. ASSUME NEW i \in 1 .. Len(mod.lines)
      PROVE  /\ NameOf(i) \in Names
             /\ mod.lines[i].Proto.Args \in Seq(Names)
             /\ mod.lines[i].Body \in DOMAIN mod.nodes
  <2>1. mod.lines[i] \in Definition(1 .. n1)
    BY <1>3 DEF D
  <2> QED
    BY <1>2, <2>1 DEF Definition, NameOf
<1> QED
  BY <1>2, <1>3, <1>4, <1>5

\* A value is what Value makes it.
LEMMA ValueIs ==
  ASSUME NEW kind \in {"const", "arg", "instr", "null"} \cup Error, NEW of \in 0 .. Len(mod.lines),
         NEW n \in Nat
  PROVE  /\ Value(kind, of, n) \in AnyValue
         /\ Value(kind, of, n).kind = kind /\ Value(kind, of, n).of = of /\ Value(kind, of, n).n = n
<1>1. [kind |-> kind, of |-> of, n |-> n] \in AnyValue
  BY DEF AnyValue
<1> QED
  BY <1>1 DEF Value

LEMMA NullAndFailure ==
  ASSUME Len(mod.lines) \in Nat
  PROVE  /\ Null \in AnyValue /\ Null.kind = "null" /\ ~Failed(Null)
         /\ \A e \in Error : Failure(e) \in AnyValue /\ Failure(e).kind = e /\ Failed(Failure(e))
         /\ \A f, v, i : Usable(f, v, i) \/ Failed(v) => v # Null
<1> DEFINE Kinds == {"const", "arg", "instr", "null"} \cup Error
<1>0. /\ 0 \in 0 .. Len(mod.lines) /\ 0 \in Nat
      /\ "null" \in Kinds /\ \A e \in Error : e \in Kinds
  OBVIOUS
<1>1. Null \in AnyValue /\ Null.kind = "null"
  BY <1>0, ValueIs DEF Null
<1>2. ASSUME NEW e \in Error PROVE Failure(e) \in AnyValue /\ Failure(e).kind = e
  <2>1. e \in {"const", "arg", "instr", "null"} \cup Error
    OBVIOUS
  <2> QED
    BY <1>0, <2>1, ValueIs DEF Failure
<1>3. "null" \notin Error
  BY DEF Error
<1> QED
  BY <1>1, <1>2, <1>3 DEF Failed, Usable

\* Values stay usable when instructions are added.
LEMMA UsableStays ==
  ASSUME NEW f, NEW g, NEW v \in AnyValue, NEW i \in Nat, NEW j \in Nat, i <= j,
         g.line = f.line, g.args = f.args, Usable(f, v, i)
  PROVE  Usable(g, v, j)
<1>1. v.n \in Nat
  BY DEF AnyValue
<1> QED
  BY <1>1 DEF Usable

\* One name more is a sequence again.
LEMMA WithNameIs ==
  ASSUME NEW S, NEW names \in Seq(S), NEW last, NEW a
  PROVE  LET more == WithName([names |-> names, last |-> last], a).names
         IN  (\E T : more \in Seq(T)) /\ Len(more) = Len(names) + 1
<1> DEFINE st == [names |-> names, last |-> last]
           k == NextNumber(a, ToSet(names), last)
           T == S \cup {a, Numbered(a, k)}
<1>1. st.names = names /\ st.last = last
  OBVIOUS
<1> HIDE DEF st
<1>2. WithName(st, a).names = Append(names, a) \/ WithName(st, a).names = Append(names, Numbered(a, k))
  BY <1>1 DEF WithName
<1> HIDE DEF k
<1>3. names \in Seq(T) /\ a \in T /\ Numbered(a, k) \in T
  BY SeqMonotonic
<1> HIDE DEF T
<1>4. /\ Append(names, a) \in Seq(T) /\ Append(names, Numbered(a, k)) \in Seq(T)
      /\ Len(Append(names, a)) = Len(names) + 1 /\ Len(Append(names, Numbered(a, k))) = Len(names) + 1
  BY <1>3, AppendLast
<1> QED
  BY <1>2, <1>4 DEF st

\* The arguments are named one after the other.
LEMMA NamedIs ==
  ASSUME NEW args, Len(args) \in Nat
  PROVE  \E named : /\ setNames(args) = named[Len(args)].names
                    /\ named[0] = [names |-> <<>>, last |-> 0]
                    /\ \A i \in Nat : i + 1 <= Len(args) => named[i + 1] = WithName(named[i], args[i + 1])
<1> DEFINE none == [names |-> <<>>, last |-> 0]
           Step(g, m) == [i \in 0 .. m |-> IF i = 0 THEN none ELSE WithName(g[i - 1], args[i])]
           named == CHOOSE g : g = Step(g, Len(args))
<1>1. setNames(args) = named[Len(args)].names
  BY DEF setNames
<1>2. \A m \in Nat : \E g : g = Step(g, m)
  <2> DEFINE Has(m) == \E g : g = Step(g, m)
             T == {m \in Nat : Has(m)}
  <2>1. Has(0)
    <3> DEFINE g == [i \in 0 .. 0 |-> none]
    <3>1. g = Step(g, 0)
      OBVIOUS
    <3> QED
      BY <3>1
  <2>2. ASSUME NEW m \in Nat, Has(m) PROVE Has(m + 1)
    <3>1. PICK g : g = Step(g, m)
      BY <2>2
    <3> DEFINE h == [i \in 0 .. m + 1 |-> IF i = m + 1 THEN WithName(g[m], args[m + 1]) ELSE g[i]]
    <3>2. ASSUME NEW i \in 0 .. m + 1
          PROVE  h[i] = IF i = 0 THEN none ELSE WithName(h[i - 1], args[i])
      <4>1. CASE i = m + 1
        <5>1. h[i] = WithName(g[m], args[i]) /\ i - 1 = m /\ m \in 0 .. m + 1 /\ m # m + 1 /\ i # 0
          BY <4>1
        <5>2. h[i - 1] = g[m]
          BY <5>1
        <5> QED
          BY <5>1, <5>2
      <4>2. CASE i # m + 1 /\ i # 0
        <5>1. i \in 0 .. m /\ i - 1 \in 0 .. m + 1 /\ i - 1 # m + 1
          BY <4>2
        <5>2. h[i] = g[i] /\ h[i - 1] = g[i - 1]
          BY <4>2, <5>1
        <5>3. g[i] = WithName(g[i - 1], args[i])
          BY <3>1, <4>2, <5>1
        <5> QED
          BY <4>2, <5>2, <5>3
      <4>3. CASE i = 0
        <5>1. h[0] = g[0] /\ g[0] = none
          BY <3>1
        <5> QED
          BY <4>3, <5>1
      <4> QED
        BY <4>1, <4>2, <4>3
    <3>3. h = Step(h, m + 1)
      BY <3>2
    <3> HIDE DEF h, Step
    <3> QED
      BY <3>3
  <2> HIDE DEF Has
  <2>3. 0 \in T /\ \A m \in Nat : m \in T => m + 1 \in T
    BY <2>1, <2>2
  <2> HIDE DEF T
  <2>4. Nat \subseteq T
    BY <2>3, SetInduction
  <2>5. \A m \in Nat : Has(m)
    BY <2>4 DEF T
  <2> QED
    BY <2>5 DEF Has
<1>3. named = Step(named, Len(args))
  BY <1>2
<1>4. /\ named[0] = none
      /\ \A i \in Nat : i + 1 <= Len(args) => named[i + 1] = WithName(named[i], args[i + 1])
  <2> HIDE DEF named
  <2> QED
    BY <1>3
<1> QED
  BY <1>1, <1>4

\* The names that LLVM gives the arguments are a sequence, one for each argument.
LEMMA SetNamesIs ==
  ASSUME NEW args, Len(args) \in Nat
  PROVE  setNames(args) \in Seq(ToSet(setNames(args))) /\ Len(setNames(args)) = Len(args)
<1>1. PICK named : /\ setNames(args) = named[Len(args)].names
                   /\ named[0] = [names |-> <<>>, last |-> 0]
                   /\ \A i \in Nat : i + 1 <= Len(args) => named[i + 1] = WithName(named[i], args[i + 1])
  BY NamedIs
<1> DEFINE Sequence(i) == \E S, names, last :
                            named[i] = [names |-> names, last |-> last] /\ names \in Seq(S) /\ Len(names) = i
           T == {i \in Nat : i <= Len(args) => Sequence(i)}
<1>5. Sequence(0)
  <2>1. <<>> \in Seq({}) /\ Len(<<>>) = 0
    OBVIOUS
  <2> QED
    BY <1>1, <2>1
<1>6. ASSUME NEW i \in Nat, Sequence(i), i + 1 <= Len(args) PROVE Sequence(i + 1)
  <2>1. PICK S, names, last :
          named[i] = [names |-> names, last |-> last] /\ names \in Seq(S) /\ Len(names) = i
    BY <1>6
  <2>2. PICK U : /\ WithName(named[i], args[i + 1]).names \in Seq(U)
                 /\ Len(WithName(named[i], args[i + 1]).names) = i + 1
    BY <2>1, WithNameIs
  <2>3. named[i + 1] = WithName(named[i], args[i + 1])
    BY <1>1, <1>6
  <2>4. \E ns, l : WithName(named[i], args[i + 1]) = [names |-> ns, last |-> l]
    BY DEF WithName
  <2>5. PICK ns, l : named[i + 1] = [names |-> ns, last |-> l]
    BY <2>3, <2>4
  <2>6. ns \in Seq(U) /\ Len(ns) = i + 1
    BY <2>2, <2>3, <2>5
  <2> QED
    BY <2>5, <2>6
<1> HIDE DEF Sequence
<1>7. 0 \in T /\ \A i \in Nat : i \in T => i + 1 \in T
  BY <1>5, <1>6
<1> HIDE DEF T
<1>8. Nat \subseteq T
  BY <1>7, SetInduction
<1>s. Sequence(Len(args))
  BY <1>8 DEF T
<1>9. PICK S, names, last : /\ named[Len(args)] = [names |-> names, last |-> last]
                            /\ names \in Seq(S) /\ Len(names) = Len(args)
  BY <1>s DEF Sequence
<1>10. setNames(args) = names
  BY <1>1, <1>9
<1>11. names \in Seq(ToSet(names))
  <2>1. DOMAIN names = 1 .. Len(names) /\ Len(names) \in Nat /\ names = [i \in 1 .. Len(names) |-> names[i]]
    BY <1>9, LenProperties
  <2>2. names \in [1 .. Len(names) -> ToSet(names)]
    BY <2>1 DEF ToSet
  <2> QED
    BY <2>1, <2>2
<1> QED
  BY <1>9, <1>10, <1>11

-----------------------------------------------------------------------------
(***************************************************************************)
(* The calls of ExprASTtoIR                                                *)
(***************************************************************************)
LEMMA FrameIs ==
  ASSUME NEW f \in CallFrame
  PROVE  /\ f.ast \in DOMAIN mod.nodes /\ f.vals \in Seq(AnyValue) /\ Len(f.vals) \in Nat
         /\ \A k \in 1 .. Len(f.vals) : f.vals[k] \in AnyValue
         /\ \A v \in AnyValue :
              LET g == [f EXCEPT !.vals = Append(@, v)]
              IN  g \in CallFrame /\ g.ast = f.ast /\ g.vals = Append(f.vals, v)
<1> DEFINE V == AnyValue
<1> HIDE DEF V
<1>1. f \in [ast : DOMAIN mod.nodes, vals : Seq(V)]
  BY DEF CallFrame, V
<1>2. f.ast \in DOMAIN mod.nodes /\ f.vals \in Seq(V)
  BY <1>1
<1>3. Len(f.vals) \in Nat /\ \A k \in 1 .. Len(f.vals) : f.vals[k] \in V
  BY <1>2, LenProperties, ElementOfSeq
<1>4. ASSUME NEW v \in V
      PROVE  LET g == [f EXCEPT !.vals = Append(@, v)]
             IN  g \in CallFrame /\ g.ast = f.ast /\ g.vals = Append(f.vals, v)
  <2>1. Append(f.vals, v) \in Seq(V)
    BY <1>2, AppendLast
  <2> DEFINE g == [f EXCEPT !.vals = Append(@, v)]
  <2>2. g \in [ast : DOMAIN mod.nodes, vals : Seq(V)] /\ g.ast = f.ast /\ g.vals = Append(f.vals, v)
    BY <1>1, <2>1
  <2> QED
    BY <2>2 DEF CallFrame, V
<1> QED
  BY <1>2, <1>3, <1>4 DEF V

LEMMA FrameOfIs ==
  ASSUME NEW n \in DOMAIN mod.nodes
  PROVE  FrameOf(n) \in CallFrame /\ FrameOf(n).ast = n /\ FrameOf(n).vals = <<>>
<1>1. <<>> \in Seq(AnyValue)
  OBVIOUS
<1> QED
  BY <1>1 DEF FrameOf, CallFrame

\* The call that is active
LEMMA TopIs ==
  ASSUME Inv, pc = "Expr"
  PROVE  /\ stack \in Seq(CallFrame) /\ Len(stack) \in Nat /\ Len(stack) >= 1
         /\ \A s \in 1 .. Len(stack) : stack[s] \in CallFrame
         /\ Top = stack[Len(stack)] /\ Top \in CallFrame
         /\ Top.ast \in DOMAIN mod.nodes /\ ast = mod.nodes[Top.ast]
         /\ Top.vals \in Seq(AnyValue) /\ Len(Top.vals) \in Nat
         /\ FrameOK(Top, FALSE, ast, module, Current)
<1>1. stack \in Seq(CallFrame) /\ stack # <<>>
  BY DEF Inv, Types, Positions
<1>2. Len(stack) \in Nat \ {0} /\ Last(stack) = stack[Len(stack)] /\ Last(stack) \in CallFrame
  BY <1>1, FrontLast
<1>3. \A s \in 1 .. Len(stack) : stack[s] \in CallFrame
  BY <1>1, ElementOfSeq
<1>4. Len(stack) \in 1 .. Len(stack)
  BY <1>2
<1>5. (Len(stack) < Len(stack)) = FALSE
  BY <1>2
<1>6. FrameOK(stack[Len(stack)], FALSE, mod.nodes[stack[Len(stack)].ast], module, Current)
  BY <1>4, <1>5 DEF Inv, Frames
<1>7. Top = stack[Len(stack)] /\ ast = mod.nodes[Top.ast] /\ Top \in CallFrame
  BY <1>2 DEF Top, ast
<1>8. Top.ast \in DOMAIN mod.nodes /\ Top.vals \in Seq(AnyValue) /\ Len(Top.vals) \in Nat
  BY <1>7, FrameIs
<1>9. FrameOK(Top, FALSE, ast, module, Current)
  BY <1>6, <1>7
<1>10. Len(stack) \in Nat /\ Len(stack) >= 1
  BY <1>2
<1> QED
  BY <1>1, <1>3, <1>7, <1>8, <1>9, <1>10

\* The value returned goes to the frame below the one on top.
LEMMA ReturnStack ==
  ASSUME NEW s \in Seq(CallFrame), Len(s) >= 2, NEW v \in AnyValue
  PROVE  LET t == [Front(s) EXCEPT ![Len(s) - 1].vals = Append(@, v)]
             n == Len(s) - 1
         IN  /\ t \in Seq(CallFrame) /\ Len(t) = n /\ n \in Nat /\ n >= 1 /\ t # <<>>
             /\ \A i \in 1 .. n : i # n => t[i] = s[i]
             /\ t[n].ast = s[n].ast /\ t[n].vals = Append(s[n].vals, v)
<1> DEFINE n == Len(s) - 1
           b == Front(s)
           f == [s[n] EXCEPT !.vals = Append(@, v)]
           t == [b EXCEPT ![n] = f]
<1>1. s # <<>> /\ Len(s) \in Nat
  BY LenProperties
<1>2. b \in Seq(CallFrame) /\ Len(b) = n /\ \A i \in 1 .. n : b[i] = s[i]
  BY <1>1, FrontLast
<1>3. n \in Nat /\ n >= 1 /\ n \in 1 .. n /\ n \in 1 .. Len(s)
  BY <1>1
<1>4. s[n] \in CallFrame
  BY <1>3, ElementOfSeq
<1>5. f \in CallFrame /\ f.ast = s[n].ast /\ f.vals = Append(s[n].vals, v)
  BY <1>4, FrameIs
<1>6. [b EXCEPT ![n].vals = Append(@, v)] = t
  BY <1>2, <1>3
<1> HIDE DEF f, b, n
<1>7. t \in Seq(CallFrame) /\ Len(t) = n /\ t[n] = f /\ \A i \in 1 .. n : i # n => t[i] = b[i]
  BY <1>2, <1>3, <1>5
<1>8. t # <<>>
  BY <1>3, <1>7
<1> QED
  BY <1>2, <1>3, <1>5, <1>6, <1>7, <1>8 DEF n, b

\* What a step of ExprASTtoIR does to the module: at most instructions are added to
\* the function that is being built.
ModuleGrows ==
  /\ DOMAIN module' = DOMAIN module
  /\ \A name \in DOMAIN module :
       /\ module'[name].line = module[name].line /\ module'[name].args = module[name].args
       /\ module'[name].value = module[name].value /\ module'[name].entry = module[name].entry
       /\ Len(module[name].code) <= Len(module'[name].code)
       /\ Len(module'[name].code) \in Nat

Rests == mod' = mod /\ line' = line /\ insert' = insert /\ log' = log /\ printed' = printed

LEMMA CodeIs ==
  ASSUME Types, NEW name \in DOMAIN module
  PROVE  Len(module[name].code) \in Nat /\ module[name].code \in Seq(Instruction)
<1> DEFINE C == Instruction
<1> HIDE DEF C
<1>1. module[name].code \in Seq(C)
  BY DEF Types, FunctionOK, C
<1> QED
  BY <1>1, LenProperties DEF C

LEMMA GoodStays ==
  ASSUME Inv, Building, ModuleGrows, Rests, NEW v \in AnyValue, Good(Current, v)
  PROVE  Good(Current', v)
<1>1. NameOf(line) \in DOMAIN module
  BY DEF Inv, Positions
<1>2. Len(Current.code) \in Nat
  BY <1>1, CodeIs DEF Inv, Current
<1>3. Usable(Current, v, Len(Current.code) + 1) => Usable(Current', v, Len(Current'.code) + 1)
  BY <1>1, <1>2, UsableStays DEF ModuleGrows, Current, NameOf, Rests
<1> QED
  BY <1>3 DEF Good

\* The frames below the active one stay what they are ...
LEMMA FrameStays ==
  ASSUME Inv, Building, ModuleGrows, Rests, NEW fr \in CallFrame, NEW pending \in BOOLEAN, NEW e,
         FrameOK(fr, pending, e, module, Current)
  PROVE  FrameOK(fr, pending, e, module', Current')
<1>1. \A k \in 1 .. Len(fr.vals) : Good(Current', fr.vals[k])
  BY FrameIs, GoodStays DEF FrameOK
<1>2. \A name \in DOMAIN module : name \in DOMAIN module' /\ module'[name].args = module[name].args
  BY DEF ModuleGrows
<1> QED
  BY <1>1, <1>2 DEF FrameOK

\* ... and the one below it gets the value that it waits for.
LEMMA FrameReceives ==
  ASSUME NEW fr \in CallFrame, NEW e, NEW m, NEW f, NEW v \in AnyValue, NEW gr,
         Len(e.kids) \in Nat, FrameOK(fr, TRUE, e, m, f), Good(f, v),
         gr.vals = Append(fr.vals, v)
  PROVE  FrameOK(gr, FALSE, e, m, f)
<1> DEFINE vals == fr.vals
           new == gr.vals
<1>1. /\ vals \in Seq(AnyValue) /\ Len(vals) \in Nat
      /\ Len(vals) < Len(e.kids)
      /\ \A k \in 1 .. Len(vals) : Good(f, vals[k])
      /\ e.kind = "Call" =>
           /\ e.val \in DOMAIN m /\ Len(m[e.val].args) = Len(e.kids)
           /\ \A k \in 1 .. Len(vals) : ~Failed(vals[k])
  BY FrameIs DEF FrameOK
<1>2. /\ Len(new) = Len(vals) + 1 /\ \A k \in 1 .. Len(vals) : new[k] = vals[k]
      /\ new[Len(vals) + 1] = v
  BY <1>1, AppendLast
<1> HIDE DEF vals, new
<1>3. Len(new) <= Len(e.kids)
  BY <1>1, <1>2
<1>4. \A k \in 1 .. Len(new) : k \in 1 .. Len(vals) \/ k = Len(vals) + 1
  BY <1>1, <1>2
<1>5. \A k \in 1 .. Len(new) : k < Len(new) => k \in 1 .. Len(vals)
  BY <1>1, <1>2
<1>6. \A k \in 1 .. Len(new) : Good(f, new[k])
  BY <1>1, <1>2, <1>4
<1>7. e.kind = "Call" => \A k \in 1 .. Len(new) : k < Len(new) => ~Failed(new[k])
  BY <1>1, <1>2, <1>5
<1> QED
  BY <1>1, <1>3, <1>6, <1>7 DEF FrameOK, new

\* A value goes back to the call for the parent node, or to FunctionASTtoIR.
LEMMA Returned ==
  ASSUME Inv, pc = "Expr", NEW v \in AnyValue, Good(Current', v), Return(v), ModuleGrows, Rests
  PROVE  /\ Positions' /\ Frames' /\ BodyReturned'
         /\ stack' \in Seq(CallFrame') /\ ret' \in AnyValue' /\ pc' \in {"Expr", "Body"}
<1>0. CallFrame' = CallFrame /\ AnyValue' = AnyValue
  BY DEF CallFrame, AnyValue, Rests
<1>1. /\ line \in 1 .. Len(mod.lines) /\ insert = line /\ NameOf(line) \in DOMAIN module
      /\ Current.line = line /\ Current.value = Null /\ Building
  BY DEF Inv, Positions, Building
<1>3. pc' \in {"Expr", "Body"} /\ (pc' = "Expr" <=> stack' # <<>>) => Positions'
  BY <1>1 DEF Positions, Building, Current, NameOf, Rests, ModuleGrows
<1>4. /\ stack \in Seq(CallFrame) /\ Len(stack) \in Nat /\ Len(stack) >= 1
      /\ \A s \in 1 .. Len(stack) : stack[s] \in CallFrame
  BY TopIs
<1>5. CASE Len(stack) = 1
  <2>1. stack' = <<>> /\ ret' = v /\ pc' = "Body" /\ Len(stack') = 0
    BY <1>5 DEF Return
  <2>2. <<>> \in Seq(CallFrame)
    OBVIOUS
  <2>3. Frames'
    BY <2>1 DEF Frames
  <2> QED
    BY <1>0, <1>3, <2>1, <2>2, <2>3 DEF BodyReturned
<1>6. CASE Len(stack) # 1
  <2> DEFINE n == Len(stack) - 1
  <2>0. /\ stack' = [Front(stack) EXCEPT ![Len(stack) - 1].vals = Append(@, v)]
        /\ ret' = ret /\ pc' = "Expr"
    BY <1>6, Zenon DEF Return
  <2>r. Len(stack) >= 2
    <3> DEFINE l == Len(stack)
    <3>1. l \in Nat /\ l >= 1 /\ l # 1
      BY <1>4, <1>6
    <3> HIDE DEF l
    <3>2. l >= 2
      BY <3>1
    <3> QED
      BY <3>2 DEF l
  <2>1. /\ stack' \in Seq(CallFrame) /\ Len(stack') = n /\ n \in Nat /\ n >= 1 /\ stack' # <<>>
        /\ \A i \in 1 .. n : i # n => stack'[i] = stack[i]
        /\ stack'[n].ast = stack[n].ast /\ stack'[n].vals = Append(stack[n].vals, v)
    BY <1>4, <2>0, <2>r, ReturnStack DEF n
  <2>n. n < Len(stack)
    BY <1>4
  <2> HIDE DEF n
  <2>2. ASSUME NEW s \in 1 .. n
        PROVE  FrameOK(stack'[s], s < Len(stack'), mod'.nodes[stack'[s].ast], module', Current')
    <3> DEFINE e == mod.nodes[stack[s].ast]
    <3>1. s \in 1 .. Len(stack) /\ (s < Len(stack)) = TRUE /\ stack[s] \in CallFrame
      BY <1>4, <2>1, <2>n
    <3>2. FrameOK(stack[s], TRUE, e, module, Current)
      BY <3>1 DEF Inv, Frames
    <3>3. FrameOK(stack[s], TRUE, e, module', Current')
      BY <1>1, <3>1, <3>2, FrameStays
    <3>4. stack[s].ast \in DOMAIN mod.nodes
      BY <3>1, FrameIs
    <3>5. Len(e.kids) \in Nat
      BY <3>4, ProgramIs DEF Inv
    <3>7. stack'[s].ast = stack[s].ast /\ mod'.nodes[stack'[s].ast] = e
      BY <2>1 DEF Rests
    <3>8. CASE s # n
      <4>1. stack'[s] = stack[s] /\ (s < Len(stack')) = TRUE
        BY <2>1, <3>8
      <4> QED
        BY <3>3, <3>7, <4>1
    <3>9. CASE s = n
      <4>1. stack'[s].vals = Append(stack[s].vals, v) /\ (s < Len(stack')) = FALSE
        BY <2>1, <3>9
      <4> HIDE DEF e
      <4>2. FrameOK(stack'[s], FALSE, e, module', Current')
        BY <3>1, <3>3, <3>5, <4>1, FrameReceives
      <4> QED
        BY <3>7, <4>1, <4>2
    <3> QED
      BY <3>8, <3>9
  <2>3. Frames'
    BY <2>1, <2>2 DEF Frames
  <2>4. ret \in AnyValue
    BY DEF Inv, Types
  <2> QED
    BY <1>0, <1>3, <2>0, <2>1, <2>3, <2>4 DEF BodyReturned
<1> QED
  BY <1>5, <1>6
-----------------------------------------------------------------------------
(***************************************************************************)
(* The steps of ExprASTtoIR that leave the module alone                    *)
(***************************************************************************)
LEMMA ModuleRests ==
  ASSUME Inv, Building, Building', Rests, module' = module
  PROVE  /\ ModuleGrows /\ Current' = Current
         /\ EachFinished' /\ CallsStay' /\ EveryFunctionVerifies'
         /\ (\A name \in DOMAIN module : name \in Names /\ FunctionOK(module[name]))'
<1>1. \A name \in DOMAIN module : Len(module[name].code) \in Nat
  BY CodeIs DEF Inv
<1>2. ModuleGrows
  BY <1>1 DEF ModuleGrows
<1>3. Current' = Current /\ (\A i : NameOf(i)' = NameOf(i)) /\ NameOf(line)' = NameOf(line)
  BY DEF Current, NameOf, Rests
<1>4. EachFinished'
  BY <1>3 DEF EachFinished, Inv, Rests, NameOf
<1>5. CallsStay'
  BY DEF CallsStay, Callee, Inv, Rests
<1>6. EveryFunctionVerifies'
  BY DEF EveryFunctionVerifies, Verifies, Callable, Inv, Rests
<1>7. Instruction' = Instruction /\ AnyValue' = AnyValue
  BY DEF Instruction, AnyValue, Rests
<1>8. (\A name \in DOMAIN module : name \in Names /\ FunctionOK(module[name]))'
  BY <1>7 DEF FunctionOK, Inv, Types, Rests
<1> QED
  BY <1>2, <1>3, <1>4, <1>5, <1>6, <1>8

\* A call that returns
LEMMA QuietReturn ==
  ASSUME Inv, pc = "Expr", NEW v \in AnyValue, Good(Current, v), Return(v), Rests, module' = module,
         \A a \in DOMAIN NamedValues' :
           NamedValues'[a] \in AnyValue /\ Recording(NamedValues'[a])
  PROVE  Inv'
<1>1. Building
  BY DEF Building
<1>2. pc' \in {"Expr", "Body"} => Building'
  BY DEF Building
<1>3. pc' \in {"Expr", "Body"}
  BY Zenon DEF Return
<1>4. /\ ModuleGrows /\ Current' = Current
      /\ EachFinished' /\ CallsStay' /\ EveryFunctionVerifies'
      /\ (\A name \in DOMAIN module : name \in Names /\ FunctionOK(module[name]))'
  BY <1>1, <1>2, <1>3, ModuleRests
<1>5. Good(Current', v)
  BY <1>4
<1>6. /\ Positions' /\ Frames' /\ BodyReturned'
      /\ stack' \in Seq(CallFrame') /\ ret' \in AnyValue' /\ pc' \in {"Expr", "Body"}
  BY <1>4, <1>5, Returned
<1>7. AnyValue' = AnyValue /\ Reported' = Reported
  BY DEF AnyValue, Reported, Rests
<1>8. Types'
  BY <1>4, <1>6, <1>7 DEF Inv, Types, Rests
<1>9. ArgumentsOfThis'
  BY <1>4 DEF ArgumentsOfThis, Recording
<1>10. IsProgram(mod)'
  BY DEF Inv, Rests
<1> QED
  BY <1>4, <1>6, <1>8, <1>9, <1>10 DEF Inv

\* The call for the next kid of the node
LEMMA Visited ==
  ASSUME Inv, pc = "Expr", Visit, Len(Top.vals) < Len(ast.kids),
         ast.kind = "Call" =>
           IF Top.vals = <<>> THEN Callable(ast.val, Len(ast.kids)) ELSE ~Failed(Last(Top.vals))
  PROVE  Inv'
<1> DEFINE k == ast.kids[Len(Top.vals) + 1]
           n == Len(stack)
<1>1. /\ stack \in Seq(CallFrame) /\ n \in Nat /\ n >= 1
      /\ \A s \in 1 .. n : stack[s] \in CallFrame
      /\ Top = stack[n] /\ Top.ast \in DOMAIN mod.nodes /\ ast = mod.nodes[Top.ast]
      /\ Top.vals \in Seq(AnyValue) /\ Len(Top.vals) \in Nat
      /\ FrameOK(Top, FALSE, ast, module, Current)
  BY TopIs
<1>2. Len(ast.kids) \in Nat /\ \A i \in 1 .. Len(ast.kids) : ast.kids[i] \in DOMAIN mod.nodes
  BY <1>1, ProgramIs DEF Inv
<1>3. k \in DOMAIN mod.nodes
  BY <1>1, <1>2
<1> HIDE DEF k
<1>4. FrameOf(k) \in CallFrame /\ FrameOf(k).ast = k /\ FrameOf(k).vals = <<>>
  BY <1>3, FrameOfIs
<1>5. /\ stack' = Append(stack, FrameOf(k)) /\ pc' = pc /\ ret' = ret
      /\ NamedValues' = NamedValues /\ module' = module /\ Rests
  BY DEF Visit, Rest, Rests, k
<1> HIDE DEF n
<1>6. /\ stack' \in Seq(CallFrame) /\ stack' # <<>> /\ Len(stack') = n + 1
      /\ \A s \in 1 .. n : stack'[s] = stack[s]
      /\ stack'[n + 1] = FrameOf(k)
  BY <1>1, <1>4, <1>5, AppendLast DEF n
<1>7. Building /\ Building'
  BY <1>5 DEF Building
<1>8. /\ ModuleGrows /\ Current' = Current
      /\ EachFinished' /\ CallsStay' /\ EveryFunctionVerifies'
      /\ (\A name \in DOMAIN module : name \in Names /\ FunctionOK(module[name]))'
  BY <1>5, <1>7, ModuleRests
<1>9. Frames'
  <2>1. ASSUME NEW s \in 1 .. n + 1
        PROVE  FrameOK(stack'[s], s < n + 1, mod.nodes[stack'[s].ast], module, Current)
    <3>1. CASE s \in 1 .. n /\ s # n
      <4>1. (s < n + 1) = TRUE /\ (s < Len(stack)) = TRUE
        BY <1>1, <3>1 DEF n
      <4> QED
        BY <1>6, <3>1, <4>1 DEF Inv, Frames, n
    <3>2. CASE s = n
      <4>1. (s < n + 1) = TRUE /\ stack'[s] = Top
        BY <1>1, <1>6, <3>2
      <4>2. FrameOK(Top, TRUE, ast, module, Current)
        <5> DEFINE vals == Top.vals
        <5> HIDE DEF vals
        <5>1. \A i \in 1 .. Len(vals) : i < Len(vals) \/ i = Len(vals)
          BY <1>1 DEF vals
        <5>2. vals # <<>> => Last(vals) = vals[Len(vals)]
          BY DEF Last
        <5>3. Len(vals) \in Nat /\ \A i \in 1 .. Len(vals) : vals # <<>>
          BY <1>1 DEF vals
        <5>4. ast.kind = "Call" => ast.val \in DOMAIN module /\ Len(module[ast.val].args) = Len(ast.kids)
          BY <1>1 DEF FrameOK, Callable
        <5>5. ast.kind = "Call" => \A i \in 1 .. Len(vals) : ~Failed(vals[i])
          <6>1. ast.kind = "Call" => \A i \in 1 .. Len(vals) : i < Len(vals) => ~Failed(vals[i])
            BY <1>1 DEF FrameOK, vals
          <6> QED
            BY <5>1, <5>2, <5>3, <6>1 DEF vals
        <5> QED
          BY <1>1, <5>4, <5>5 DEF FrameOK, vals
      <4> QED
        BY <1>1, <4>1, <4>2
    <3>3. CASE s = n + 1
      <4>1. (s < n + 1) = FALSE /\ stack'[s] = FrameOf(k) /\ Len(FrameOf(k).vals) = 0
        BY <1>1, <1>4, <1>6, <3>3
      <4>2. Len(mod.nodes[k].kids) \in Nat
        BY <1>3, ProgramIs DEF Inv
      <4>3. FrameOK(FrameOf(k), FALSE, mod.nodes[k], module, Current)
        BY <1>4, <4>1, <4>2 DEF FrameOK
      <4> QED
        BY <1>4, <4>1, <4>3
    <3> QED
      BY <1>1, <3>1, <3>2, <3>3
  <2>2. mod' = mod /\ module' = module /\ Len(stack') = n + 1
    BY <1>5, <1>6 DEF Rests
  <2> QED
    BY <1>8, <2>1, <2>2 DEF Frames
<1>10. Positions'
  BY <1>5, <1>6, <1>8 DEF Inv, Positions, Building, NameOf, Rests
<1>11. AnyValue' = AnyValue /\ Reported' = Reported /\ CallFrame' = CallFrame
  BY <1>5 DEF AnyValue, Reported, CallFrame, Rests
<1>12. Types'
  BY <1>5, <1>6, <1>8, <1>11 DEF Inv, Types, Rests
<1>13. ArgumentsOfThis' /\ BodyReturned'
  BY <1>5, <1>8 DEF ArgumentsOfThis, Recording, BodyReturned, Inv, Building
<1>14. IsProgram(mod)'
  BY <1>5 DEF Inv, Rests
<1> QED
  BY <1>8, <1>9, <1>10, <1>12, <1>13, <1>14 DEF Inv
-----------------------------------------------------------------------------
(***************************************************************************)
(* ExprASTtoIR, node by node                                               *)
(***************************************************************************)
\* What is in NamedValues
LEMMA NamedValuesAre ==
  ASSUME Inv, Building
  PROVE  \A a \in DOMAIN NamedValues : NamedValues[a] \in AnyValue /\ Recording(NamedValues[a])
BY DEF Inv, Types, ArgumentsOfThis

\* What the active call has got for its kids
LEMMA TopValues ==
  ASSUME Inv, pc = "Expr"
  PROVE  /\ \A k \in 1 .. Len(Top.vals) : Top.vals[k] \in AnyValue /\ Good(Current, Top.vals[k])
         /\ Top.vals # <<>> => Last(Top.vals) \in AnyValue /\ Good(Current, Last(Top.vals))
         /\ ast.kind = "Call" => \A k \in 1 .. Len(Top.vals) : k < Len(Top.vals) => ~Failed(Top.vals[k])
<1>1. Top \in CallFrame /\ Top.vals \in Seq(AnyValue) /\ FrameOK(Top, FALSE, ast, module, Current)
  BY TopIs
<1> DEFINE vals == Top.vals
           V == AnyValue
<1>2. /\ \A k \in 1 .. Len(vals) : Good(Current, vals[k])
      /\ ast.kind = "Call" => \A k \in 1 .. Len(vals) : k < Len(vals) => ~Failed(vals[k])
  BY <1>1 DEF FrameOK
<1> HIDE DEF vals, V
<1>3. vals \in Seq(V)
  BY <1>1 DEF vals, V
<1>4. \A k \in 1 .. Len(vals) : vals[k] \in V
  BY <1>3, ElementOfSeq
<1>5. vals # <<>> => Last(vals) = vals[Len(vals)] /\ Len(vals) \in 1 .. Len(vals)
  <2>1. vals # <<>> => Len(vals) \in Nat \ {0} /\ Last(vals) = vals[Len(vals)]
    BY <1>3, FrontLast
  <2> DEFINE n == Len(vals)
  <2>2. n \in Nat \ {0} => n \in 1 .. n
    OBVIOUS
  <2> HIDE DEF n
  <2> QED
    BY <2>1, <2>2 DEF n
<1> QED
  BY <1>2, <1>4, <1>5 DEF vals, V

\* A constant is usable wherever it is.
LEMMA ConstantIs ==
  ASSUME Inv, pc = "Expr"
  PROVE  Value("const", 0, Top.ast) \in AnyValue /\ Good(Current, Value("const", 0, Top.ast))
<1>1. Top.ast \in DOMAIN mod.nodes /\ DOMAIN mod.nodes = 1 .. Len(mod.nodes)
      /\ Len(mod.nodes) \in Nat /\ Len(mod.lines) \in Nat
  BY TopIs, ProgramIs DEF Inv
<1>2. Top.ast \in Nat /\ 0 \in 0 .. Len(mod.lines) /\ "const" \in {"const", "arg", "instr", "null"} \cup Error
  BY <1>1
<1>3. Value("const", 0, Top.ast) \in AnyValue /\ Value("const", 0, Top.ast).kind = "const"
  BY <1>2, ValueIs
<1> QED
  BY <1>3 DEF Good, Usable

\* So is an error.
LEMMA FailureIs ==
  ASSUME Inv, NEW e \in Error
  PROVE  Failure(e) \in AnyValue /\ Good(Current, Failure(e))
<1>1. Len(mod.lines) \in Nat
  BY ProgramIs DEF Inv
<1> QED
  BY <1>1, NullAndFailure DEF Good

LEMMA NumberKeeps ==
  ASSUME Inv, NumberExprASTtoIR
  PROVE  Inv'
<1> DEFINE v == Value("const", 0, Top.ast)
<1>1. pc = "Expr" /\ Return(v) /\ Rests /\ module' = module /\ NamedValues' = NamedValues
  BY DEF NumberExprASTtoIR, At, Rest, Rests
<1>2. v \in AnyValue /\ Good(Current, v)
  BY <1>1, ConstantIs
<1>3. \A a \in DOMAIN NamedValues' : NamedValues'[a] \in AnyValue /\ Recording(NamedValues'[a])
  BY <1>1, NamedValuesAre DEF Building
<1> HIDE DEF v
<1> QED
  BY <1>1, <1>2, <1>3, QuietReturn

LEMMA VariableKeeps ==
  ASSUME Inv, VariableExprASTtoIR
  PROVE  Inv'
<1> DEFINE V == IF ast.val \in DOMAIN NamedValues THEN NamedValues[ast.val] ELSE Null
           v == IF V = Null THEN Failure("undefined variable") ELSE V
<1>1. /\ pc = "Expr" /\ NamedValues' = With(NamedValues, ast.val, V) /\ Return(v)
      /\ module' = module /\ Rests
  BY Zenon DEF VariableExprASTtoIR, At, Rest, Rests
<1>2. Len(mod.lines) \in Nat
  BY ProgramIs DEF Inv
<1>3. \A a \in DOMAIN NamedValues : NamedValues[a] \in AnyValue /\ Recording(NamedValues[a])
  BY <1>1, NamedValuesAre DEF Building
<1>4. V \in AnyValue /\ Recording(V)
  BY <1>2, <1>3, NullAndFailure DEF Recording
<1> HIDE DEF V
<1>5. v \in AnyValue /\ Good(Current, v)
  <2>1. CASE V = Null
    <3>1. "undefined variable" \in Error
      BY DEF Error
    <3> QED
      BY <2>1, <3>1, FailureIs
  <2>2. CASE V # Null
    BY <1>4, <2>2 DEF Recording, Usable, Good
  <2> QED
    BY <2>1, <2>2
<1> HIDE DEF v
<1>6. \A a \in DOMAIN NamedValues' : NamedValues'[a] \in AnyValue /\ Recording(NamedValues'[a])
  <2>1. ASSUME NEW a \in DOMAIN NamedValues' PROVE NamedValues'[a] = V \/ (a \in DOMAIN NamedValues /\ NamedValues'[a] = NamedValues[a])
    BY <1>1, <2>1 DEF With
  <2> QED
    BY <1>3, <1>4, <2>1
<1> QED
  BY <1>1, <1>5, <1>6, QuietReturn

LEMMA BinaryFailedKeeps ==
  ASSUME Inv, BinaryFailed
  PROVE  Inv'
<1> DEFINE L == Top.vals[1]
           R == Top.vals[2]
           bad == Failure("invalid binary operator")
<1>1. /\ pc = "Expr" /\ Len(Top.vals) = 2
      /\ Return(L) \/ Return(R) \/ Return(bad)
      /\ module' = module /\ NamedValues' = NamedValues /\ Rests
  BY Zenon DEF BinaryFailed, At, Rest, Rests
<1>2. "invalid binary operator" \in Error
  BY DEF Error
<1>3. bad \in AnyValue /\ Good(Current, bad)
  BY <1>2, FailureIs
<1>s. 1 \in 1 .. 2 /\ 2 \in 1 .. 2
  OBVIOUS
<1>r. 1 \in 1 .. Len(Top.vals) /\ 2 \in 1 .. Len(Top.vals)
  BY <1>1, <1>s, Zenon
<1>4. L \in AnyValue /\ Good(Current, L) /\ R \in AnyValue /\ Good(Current, R)
  BY <1>1, <1>r, TopValues
<1>5. \A a \in DOMAIN NamedValues' : NamedValues'[a] \in AnyValue /\ Recording(NamedValues'[a])
  BY <1>1, NamedValuesAre DEF Building
<1> HIDE DEF L, R, bad
<1> QED
  BY <1>1, <1>3, <1>4, <1>5, QuietReturn

LEMMA CallFailedKeeps ==
  ASSUME Inv, CallFailed
  PROVE  Inv'
<1> DEFINE v == Last(Top.vals)
<1>1. /\ pc = "Expr" /\ Top.vals # <<>> /\ Return(v)
      /\ module' = module /\ NamedValues' = NamedValues /\ Rests
  BY Zenon DEF CallFailed, At, Rest, Rests
<1>2. v \in AnyValue /\ Good(Current, v)
  BY <1>1, TopValues
<1>3. \A a \in DOMAIN NamedValues' : NamedValues'[a] \in AnyValue /\ Recording(NamedValues'[a])
  BY <1>1, NamedValuesAre DEF Building
<1> HIDE DEF v
<1> QED
  BY <1>1, <1>2, <1>3, QuietReturn

LEMMA CallRejectedKeeps ==
  ASSUME Inv, CallRejected
  PROVE  Inv'
<1> DEFINE e == IF ast.val \in DOMAIN module THEN "incorrect # arguments" ELSE "undefined function"
           v == Failure(e)
<1>1. /\ pc = "Expr" /\ Return(v)
      /\ module' = module /\ NamedValues' = NamedValues /\ Rests
  BY Zenon DEF CallRejected, At, Rest, Rests
<1>2. e \in Error
  BY DEF Error
<1>3. v \in AnyValue /\ Good(Current, v)
  BY <1>2, FailureIs
<1>4. \A a \in DOMAIN NamedValues' : NamedValues'[a] \in AnyValue /\ Recording(NamedValues'[a])
  BY <1>1, NamedValuesAre DEF Building
<1> HIDE DEF v
<1> QED
  BY <1>1, <1>3, <1>4, QuietReturn

LEMMA BinaryOperandKeeps ==
  ASSUME Inv, BinaryOperand
  PROVE  Inv'
<1>1. pc = "Expr" /\ ast.kind = "Binary" /\ Len(Top.vals) < 2 /\ Visit
  BY DEF BinaryOperand, At
<1>2. Len(ast.kids) = 2
  BY <1>1, TopIs, ProgramIs DEF Inv
<1> QED
  BY <1>1, <1>2, Visited

LEMMA CallArgumentKeeps ==
  ASSUME Inv, CallArgument
  PROVE  Inv'
BY Visited DEF CallArgument, At
-----------------------------------------------------------------------------
(***************************************************************************)
(* Instructions                                                            *)
(***************************************************************************)
\* An instruction of f that stands at place i of its code, in module m
Fits(c, i, f, m) ==
  /\ \A k \in DOMAIN c.args : Usable(f, c.args[k], i)
  /\ c.op = "call" => Callee(c) \in DOMAIN m /\ Len(m[Callee(c)].args) = Len(c.args)

LEMMA VerifiesIs ==
  ASSUME Types
  PROVE  EveryFunctionVerifies <=>
           \A name \in DOMAIN module :
             /\ \A i \in 1 .. Len(module[name].code) : Fits(module[name].code[i], i, module[name], module)
             /\ module[name].value # Null =>
                  Usable(module[name], module[name].value, Len(module[name].code) + 1)
<1>1. \A name \in DOMAIN module : DOMAIN module[name].code = 1 .. Len(module[name].code)
  <2>1. ASSUME NEW name \in DOMAIN module PROVE DOMAIN module[name].code = 1 .. Len(module[name].code)
    <3> DEFINE C == Instruction
    <3>1. module[name].code \in Seq(C)
      BY CodeIs DEF C
    <3> HIDE DEF C
    <3> QED
      BY <3>1, LenProperties
  <2> QED
    BY <2>1
<1> QED
  BY <1>1 DEF EveryFunctionVerifies, Verifies, Fits, Callable, Callee

\* What a function is after instructions are added to its code
LEMMA CodeAdded ==
  ASSUME NEW f, FunctionOK(f), NEW instrs \in Seq(Instruction)
  PROVE  LET g == [f EXCEPT !.code = @ \o instrs]
         IN  /\ FunctionOK(g)
             /\ g.line = f.line /\ g.args = f.args /\ g.entry = f.entry /\ g.value = f.value
             /\ g.code = f.code \o instrs /\ Len(f.code) \in Nat /\ Len(instrs) \in Nat
             /\ Len(g.code) = Len(f.code) + Len(instrs)
             /\ \A i \in 1 .. Len(f.code) : g.code[i] = f.code[i]
             /\ \A i \in 1 .. Len(instrs) : g.code[Len(f.code) + i] = instrs[i]
<1> DEFINE C == Instruction
           code == f.code \o instrs
           g == [f EXCEPT !.code = @ \o instrs]
           r == [line |-> f.line, args |-> f.args, entry |-> f.entry, code |-> code, value |-> f.value]
<1>1. f.code \in Seq(C) /\ instrs \in Seq(C)
  BY DEF FunctionOK
<1>2. g = r
  <2>1. f = [line |-> f.line, args |-> f.args, entry |-> f.entry, code |-> f.code, value |-> f.value]
    BY DEF FunctionOK
  <2> HIDE DEF code
  <2>2. \A a, b, c, d, e, x :
          [[line |-> a, args |-> b, entry |-> c, code |-> d, value |-> e] EXCEPT !.code = x]
            = [line |-> a, args |-> b, entry |-> c, code |-> x, value |-> e]
    OBVIOUS
  <2>3. [[line |-> f.line, args |-> f.args, entry |-> f.entry, code |-> f.code, value |-> f.value]
           EXCEPT !.code = code] = r
    BY <2>2
  <2>4. [f EXCEPT !.code = code] = r
    BY <2>1, <2>3, Zenon
  <2> QED
    BY <2>4 DEF code
<1> HIDE DEF C
<1>3. /\ code \in Seq(C) /\ Len(f.code) \in Nat /\ Len(instrs) \in Nat
      /\ Len(code) = Len(f.code) + Len(instrs)
      /\ \A i \in 1 .. Len(f.code) : code[i] = f.code[i]
  BY <1>1, LenProperties, ConcatProperties
<1>4. \A i \in 1 .. Len(instrs) : code[Len(f.code) + i] = instrs[i]
  <2>1. ASSUME NEW i \in 1 .. Len(instrs) PROVE code[Len(f.code) + i] = instrs[i]
    <3> DEFINE n == Len(f.code)
               m == Len(instrs)
    <3>1. n \in Nat /\ m \in Nat /\ i \in 1 .. m
      BY <1>3
    <3>2. \A j \in 1 .. n + m : code[j] = IF j <= n THEN f.code[j] ELSE instrs[j - n]
      BY <1>1, ConcatProperties
    <3> HIDE DEF n, m, code
    <3>3. n + i \in 1 .. n + m /\ ~(n + i <= n) /\ (n + i) - n = i
      BY <3>1
    <3> QED
      BY <3>2, <3>3 DEF n
  <2> QED
    BY <2>1
<1> HIDE DEF code
<1>5. r.line = f.line /\ r.args = f.args /\ r.entry = f.entry /\ r.value = f.value /\ r.code = code
  OBVIOUS
<1>6. FunctionOK(r)
  BY <1>3, <1>5 DEF FunctionOK, C
<1> HIDE DEF r
<1>7. g = r /\ g.line = f.line /\ g.args = f.args /\ g.entry = f.entry /\ g.value = f.value /\ g.code = code
  BY <1>2, <1>5
<1> HIDE DEF g
<1>8. /\ FunctionOK(g)
      /\ Len(g.code) = Len(f.code) + Len(instrs)
      /\ \A i \in 1 .. Len(f.code) : g.code[i] = f.code[i]
      /\ \A i \in 1 .. Len(instrs) : g.code[Len(f.code) + i] = instrs[i]
  BY <1>3, <1>4, <1>6, <1>7
<1> QED
  BY <1>3, <1>7, <1>8 DEF g, code
\* Instructions are added to the function that is being built.
LEMMA Emitted ==
  ASSUME Inv, pc = "Expr", NEW instrs \in Seq(Instruction), Len(instrs) >= 1, Emit(instrs),
         Rests, NamedValues' = NamedValues,
         \A i \in 1 .. Len(instrs) : Fits(instrs[i], Len(Current.code) + i, Current, module)
  PROVE  Inv'
<1> DEFINE nm == NameOf(line)
           F == Current
           g == [F EXCEPT !.code = @ \o instrs]
           n == Len(F.code)
           l == Len(instrs)
           v == Value("instr", insert, n + l)
<1>1. /\ Types /\ Positions /\ EachFinished /\ CallsStay /\ EveryFunctionVerifies
      /\ Building /\ IsProgram(mod) /\ ArgumentsOfThis
  BY DEF Inv, Building
<1>2. /\ line \in 1 .. Len(mod.lines) /\ insert = line /\ nm \in DOMAIN module
      /\ F.line = line /\ F.value = Null /\ FunctionOK(F)
  BY <1>1 DEF Positions, Types, Current
<1>3. mod.lines[insert].Proto.Name = nm /\ module[nm] = F
  BY <1>2 DEF NameOf, Current
<1>4. Return(v) /\ module' = [module EXCEPT ![nm].code = @ \o instrs]
  BY <1>3, Zenon DEF Emit
<1>5. module' = [module EXCEPT ![nm] = g]
  <2>1. [module EXCEPT ![nm].code = @ \o instrs] = [module EXCEPT ![nm] = [module[nm] EXCEPT !.code = @ \o instrs]]
    OBVIOUS
  <2> QED
    BY <1>3, <1>4, <2>1, Zenon
<1>6. /\ FunctionOK(g)
      /\ g.line = F.line /\ g.args = F.args /\ g.entry = F.entry /\ g.value = F.value
      /\ n \in Nat /\ l \in Nat /\ Len(g.code) = n + l
      /\ \A i \in 1 .. n : g.code[i] = F.code[i]
      /\ \A i \in 1 .. l : g.code[n + i] = instrs[i]
  BY <1>2, CodeAdded
<1> HIDE DEF g, F, nm, n, v
<1>7. /\ DOMAIN module' = DOMAIN module /\ module'[nm] = g
      /\ \A name \in DOMAIN module : name # nm => module'[name] = module[name]
  BY <1>2, <1>5
<1>8. ModuleGrows
  <2>1. \A name \in DOMAIN module : Len(module[name].code) \in Nat
    BY <1>1, CodeIs
  <2>2. Len(module[nm].code) <= Len(g.code) /\ Len(g.code) \in Nat
    <3>1. n <= n + l /\ n + l \in Nat
      BY <1>6
    <3> QED
      BY <1>3, <1>6, <3>1 DEF n
  <2>3. \A a \in Nat : a <= a
    OBVIOUS
  <2>4. ASSUME NEW name \in DOMAIN module
        PROVE  /\ module'[name].line = module[name].line /\ module'[name].args = module[name].args
               /\ module'[name].value = module[name].value /\ module'[name].entry = module[name].entry
               /\ Len(module[name].code) <= Len(module'[name].code)
               /\ Len(module'[name].code) \in Nat
    BY <1>3, <1>6, <1>7, <2>1, <2>2, <2>3
  <2> QED
    BY <1>7, <2>4 DEF ModuleGrows
<1>9. Current' = g /\ (\A i : NameOf(i)' = NameOf(i)) /\ NameOf(line)' = nm
  BY <1>7 DEF Current, NameOf, Rests, nm
<1>10. v \in AnyValue /\ Good(Current', v)
  <2>1. n + l \in Nat /\ line \in 0 .. Len(mod.lines) /\ n + l < (n + l) + 1
    BY <1>2, <1>6
  <2>2. "instr" \in {"const", "arg", "instr", "null"} \cup Error
    OBVIOUS
  <2>3. v \in AnyValue /\ v.kind = "instr" /\ v.of = line /\ v.n = n + l
    BY <1>2, <2>1, <2>2, ValueIs DEF v
  <2>4. Usable(g, v, (n + l) + 1)
    BY <1>2, <1>6, <2>1, <2>3 DEF Usable
  <2> QED
    BY <1>6, <1>9, <2>3, <2>4 DEF Good
<1>11. /\ Positions' /\ Frames' /\ BodyReturned'
       /\ stack' \in Seq(CallFrame') /\ ret' \in AnyValue' /\ pc' \in {"Expr", "Body"}
  BY <1>4, <1>8, <1>10, Returned
<1>12. Building' /\ mod' = mod /\ line' = line
  BY <1>11 DEF Building, Rests
<1>13. AnyValue' = AnyValue /\ Reported' = Reported /\ Instruction' = Instruction
  BY DEF AnyValue, Reported, Instruction, Rests
<1>14. (\A name \in DOMAIN module : name \in Names /\ FunctionOK(module[name]))'
  <2>1. \A name \in DOMAIN module' : name \in Names /\ FunctionOK(module'[name])
    BY <1>1, <1>6, <1>7 DEF Types
  <2> QED
    BY <1>13, <2>1 DEF FunctionOK, Rests
<1>15. Types'
  BY <1>1, <1>11, <1>13, <1>14 DEF Types, Rests
<1>16. EachFinished'
  BY <1>1, <1>2, <1>3, <1>6, <1>7, <1>9, <1>12 DEF EachFinished
<1>17. EveryFunctionVerifies'
  <2>1. \A name \in DOMAIN module :
          /\ \A i \in 1 .. Len(module[name].code) : Fits(module[name].code[i], i, module[name], module)
          /\ module[name].value # Null =>
               Usable(module[name], module[name].value, Len(module[name].code) + 1)
    BY <1>1, VerifiesIs
  <2>2. ASSUME NEW c, NEW i, NEW f, Fits(c, i, f, module) PROVE Fits(c, i, f, module')
    <3>1. \A m \in DOMAIN module : m \in DOMAIN module' /\ module'[m].args = module[m].args
      BY <1>8 DEF ModuleGrows
    <3> QED
      BY <2>2, <3>1 DEF Fits
  <2>3. ASSUME NEW c, NEW i, Fits(c, i, F, module') PROVE Fits(c, i, g, module')
    BY <1>6, <2>3 DEF Fits, Usable
  <2>4. \A i \in 1 .. n + l : i \in 1 .. n \/ (i - n \in 1 .. l /\ n + (i - n) = i)
    BY <1>6
  <2>5. \A i \in 1 .. n + l : Fits(g.code[i], i, g, module')
    <3>1. ASSUME NEW i \in 1 .. n + l PROVE Fits(g.code[i], i, g, module')
      <4>1. CASE i \in 1 .. n
        <5>1. Fits(F.code[i], i, F, module)
          BY <1>2, <1>3, <2>1, <4>1 DEF n
        <5>2. Fits(F.code[i], i, g, module')
          BY <2>2, <2>3, <5>1
        <5> QED
          BY <1>6, <4>1, <5>2
      <4>2. CASE i - n \in 1 .. l /\ n + (i - n) = i
        <5>1. g.code[i] = instrs[i - n]
          BY <1>6, <4>2
        <5>2. Fits(instrs[i - n], n + (i - n), F, module)
          BY <4>2 DEF n, F
        <5> QED
          BY <2>2, <2>3, <4>2, <5>1, <5>2
      <4> QED
        BY <2>4, <4>1, <4>2
    <3> QED
      BY <3>1
  <2>6. \A name \in DOMAIN module' :
          /\ \A i \in 1 .. Len(module'[name].code) : Fits(module'[name].code[i], i, module'[name], module')
          /\ module'[name].value # Null =>
               Usable(module'[name], module'[name].value, Len(module'[name].code) + 1)
    <3>1. ASSUME NEW name \in DOMAIN module', name # nm
          PROVE  /\ \A i \in 1 .. Len(module'[name].code) : Fits(module'[name].code[i], i, module'[name], module')
                 /\ module'[name].value # Null =>
                      Usable(module'[name], module'[name].value, Len(module'[name].code) + 1)
      BY <1>7, <2>1, <2>2, <3>1
    <3>2. ASSUME NEW i \in 1 .. Len(module'[nm].code) PROVE Fits(module'[nm].code[i], i, module'[nm], module')
      BY <1>6, <1>7, <2>5
    <3>3. module'[nm].value = Null
      BY <1>2, <1>6, <1>7
    <3> QED
      BY <3>1, <3>2, <3>3
  <2>7. (\A name \in DOMAIN module :
          /\ \A i \in 1 .. Len(module[name].code) : Fits(module[name].code[i], i, module[name], module)
          /\ module[name].value # Null =>
               Usable(module[name], module[name].value, Len(module[name].code) + 1))'
    BY <2>6, <1>12 DEF Fits, Callee
  <2>8. Types' /\ (Types => (EveryFunctionVerifies <=>
           \A name \in DOMAIN module :
             /\ \A i \in 1 .. Len(module[name].code) : Fits(module[name].code[i], i, module[name], module)
             /\ module[name].value # Null =>
                  Usable(module[name], module[name].value, Len(module[name].code) + 1)))'
    BY <1>15, VerifiesIs, PTL
  <2> QED
    BY <2>7, <2>8
<1>18. CallsStay'
  <2>1. \A m \in DOMAIN module : m \in DOMAIN module' /\ module'[m].value = module[m].value
    BY <1>8 DEF ModuleGrows
  <2>2. \A i \in 1 .. l : instrs[i].op = "call" =>
          Callee(instrs[i]) = nm \/ (Callee(instrs[i]) \in DOMAIN module /\ module[Callee(instrs[i])].value # Null)
    BY <1>1 DEF EachFinished, Fits, nm
  <2>3. \A c : Callee(c)' = Callee(c)
    BY <1>12 DEF Callee
  <2> DEFINE Stays(c, name, m) == Callee(c) = name \/ (Callee(c) \in DOMAIN m /\ m[Callee(c)].value # Null)
  <2>4. ASSUME NEW name \in DOMAIN module, NEW i \in DOMAIN module'[name].code, module'[name].code[i].op = "call"
        PROVE  Stays(module'[name].code[i], name, module')
    <3>1. CASE name # nm
      BY <1>1, <1>7, <2>1, <2>4, <3>1 DEF CallsStay
    <3>2. CASE name = nm
      <4>1. DOMAIN g.code = 1 .. n + l
        <5> DEFINE C == Instruction
        <5>1. g.code \in Seq(C)
          BY <1>6 DEF FunctionOK
        <5> HIDE DEF C
        <5>2. DOMAIN g.code = 1 .. Len(g.code)
          BY <5>1, LenProperties
        <5> QED
          BY <1>6, <5>2
      <4>2. i \in 1 .. n \/ (i - n \in 1 .. l /\ n + (i - n) = i)
        BY <1>6, <1>7, <3>2, <4>1
      <4>3. CASE i \in 1 .. n
        <5>1. g.code[i] = F.code[i] /\ i \in DOMAIN F.code
          <6> DEFINE C == Instruction
          <6>1. F.code \in Seq(C)
            BY <1>2 DEF FunctionOK
          <6> HIDE DEF C
          <6>2. DOMAIN F.code = 1 .. Len(F.code)
            BY <6>1, LenProperties
          <6> QED
            BY <1>6, <4>3, <6>2 DEF n
        <5>2. module'[name].code[i] = F.code[i] /\ F.code[i].op = "call"
          BY <1>7, <2>4, <3>2, <5>1
        <5>3. Stays(F.code[i], nm, module)
          BY <1>1, <1>2, <1>3, <5>1, <5>2 DEF CallsStay
        <5> QED
          BY <2>1, <3>2, <5>2, <5>3
      <4>4. CASE i - n \in 1 .. l /\ n + (i - n) = i
        <5>1. module'[name].code[i] = instrs[i - n] /\ instrs[i - n].op = "call"
          BY <1>6, <1>7, <2>4, <3>2, <4>4
        <5>2. Stays(instrs[i - n], nm, module)
          BY <2>2, <4>4, <5>1
        <5> QED
          BY <2>1, <3>2, <5>1, <5>2
      <4> QED
        BY <4>2, <4>3, <4>4
    <3> QED
      BY <3>1, <3>2
  <2> QED
    BY <1>7, <2>3, <2>4 DEF CallsStay
<1>19. ArgumentsOfThis'
  BY <1>1, <1>6, <1>9 DEF ArgumentsOfThis, Recording, Usable, F
<1>20. IsProgram(mod)'
  BY <1>1, <1>12
<1> QED
  BY <1>11, <1>15, <1>16, <1>17, <1>18, <1>19, <1>20 DEF Inv
\* An instruction made of what the calls for the kids returned
LEMMA InstrIs ==
  ASSUME Inv, pc = "Expr", NEW op \in {"call"} \cup Operator,
         \A k \in 1 .. Len(Top.vals) : ~Failed(Top.vals[k]),
         op = "call" => ast.val \in DOMAIN module /\ Len(module[ast.val].args) = Len(Top.vals)
  PROVE  /\ Instr(op, Top.vals) \in Instruction
         /\ Fits(Instr(op, Top.vals), Len(Current.code) + 1, Current, module)
<1> DEFINE V == AnyValue
           vals == Top.vals
           c == Instr(op, Top.vals)
<1>1. Top.ast \in DOMAIN mod.nodes /\ ast = mod.nodes[Top.ast]
      /\ vals \in Seq(V)
  BY TopIs
<1>2. \A k \in 1 .. Len(vals) : Usable(Current, vals[k], Len(Current.code) + 1)
  BY TopValues DEF Good
<1>3. c = [op |-> op, args |-> vals, ast |-> Top.ast]
  BY DEF Instr
<1> HIDE DEF V, vals
<1>4. DOMAIN vals = 1 .. Len(vals)
  BY <1>1, LenProperties
<1>5. op \in {"call", "uitofp"} \cup Operator
  OBVIOUS
<1> HIDE DEF c
<1>6. c \in [op : {"call", "uitofp"} \cup Operator, args : Seq(V), ast : DOMAIN mod.nodes]
  BY <1>1, <1>3, <1>5
<1>7. c.op = op /\ c.args = vals /\ c.ast = Top.ast
  BY <1>3
<1>8. Callee(c) = ast.val
  BY <1>1, <1>7 DEF Callee
<1>9. Fits(c, Len(Current.code) + 1, Current, module)
  BY <1>2, <1>4, <1>7, <1>8 DEF Fits, vals
<1> QED
  BY <1>6, <1>9 DEF Instruction, V, c

\* The comparison's result, and its conversion
LEMMA ConversionIs ==
  ASSUME Inv, pc = "Expr",
         NEW cmp, cmp = Value("instr", insert, Len(Current.code) + 1)
  PROVE  /\ Instr("uitofp", <<cmp>>) \in Instruction
         /\ Fits(Instr("uitofp", <<cmp>>), Len(Current.code) + 2, Current, module)
<1> DEFINE V == AnyValue
           c == Instr("uitofp", <<cmp>>)
           n == Len(Current.code)
<1>1. Top.ast \in DOMAIN mod.nodes
  BY TopIs
<1>2. insert = line /\ line \in 1 .. Len(mod.lines) /\ NameOf(line) \in DOMAIN module /\ Current.line = line
  BY DEF Inv, Positions, Building
<1>3. n \in Nat /\ Len(mod.lines) \in Nat
  BY <1>2, CodeIs, ProgramIs DEF Inv, Current
<1>a. n + 1 \in Nat /\ n + 1 < n + 2 /\ line \in 0 .. Len(mod.lines)
  BY <1>2, <1>3
<1>b. "instr" \in {"const", "arg", "instr", "null"} \cup Error
  OBVIOUS
<1>4. cmp \in AnyValue /\ cmp.kind = "instr" /\ cmp.of = line /\ cmp.n = n + 1
  BY <1>2, <1>a, <1>b, ValueIs
<1>5. Usable(Current, cmp, n + 2)
  BY <1>2, <1>a, <1>4 DEF Usable
<1>6. c = [op |-> "uitofp", args |-> <<cmp>>, ast |-> Top.ast]
  BY DEF Instr
<1>7. <<cmp>> \in Seq(V)
  BY <1>4
<1> HIDE DEF V, c
<1>8. c \in [op : {"call", "uitofp"} \cup Operator, args : Seq(V), ast : DOMAIN mod.nodes]
  BY <1>1, <1>6, <1>7
<1>9. c.op = "uitofp" /\ c.args = <<cmp>>
  BY <1>6
<1>10. \A k \in DOMAIN <<cmp>> : <<cmp>>[k] = cmp
  OBVIOUS
<1>11. Fits(c, n + 2, Current, module)
  BY <1>5, <1>9, <1>10 DEF Fits
<1> QED
  BY <1>8, <1>11 DEF Instruction, V, c

LEMMA BinaryOperationKeeps ==
  ASSUME Inv, BinaryOperation
  PROVE  Inv'
<1> DEFINE const == Value("const", 0, Top.ast)
           op == ast.val
           a == Instr(op, Top.vals)
           cmp == Value("instr", insert, Len(Current.code) + 1)
           b == Instr("uitofp", <<cmp>>)
           instrs == Create(op, Top.vals)
<1>1. /\ pc = "Expr" /\ Len(Top.vals) = 2 /\ op \in {"+", "-", "*", "<"}
      /\ \A i \in 1 .. 2 : ~Failed(Top.vals[i])
      /\ NamedValues' = NamedValues /\ Rests
      /\ \/ Return(const) /\ module' = module
         \/ Emit(instrs)
  BY Zenon DEF BinaryOperation, At, Rest, Rests
<1>2. CASE Return(const) /\ module' = module
  <2>1. const \in AnyValue /\ Good(Current, const)
    BY <1>1, ConstantIs
  <2>2. \A x \in DOMAIN NamedValues' : NamedValues'[x] \in AnyValue /\ Recording(NamedValues'[x])
    BY <1>1, NamedValuesAre DEF Building
  <2> HIDE DEF const
  <2> QED
    BY <1>1, <1>2, <2>1, <2>2, QuietReturn
<1>3. CASE Emit(instrs)
  <2>1. insert = line /\ NameOf(line) \in DOMAIN module
    BY <1>1 DEF Inv, Positions, Building
  <2>2. op \in {"call"} \cup Operator /\ op # "call"
    BY <1>1 DEF Operator
  <2>3. \A k \in 1 .. Len(Top.vals) : ~Failed(Top.vals[k])
    BY <1>1, Zenon
  <2>4. a \in Instruction /\ Fits(a, Len(Current.code) + 1, Current, module)
    BY <1>1, <2>2, <2>3, InstrIs
  <2>5. b \in Instruction /\ Fits(b, Len(Current.code) + 2, Current, module)
    BY <1>1, ConversionIs
  <2>6. instrs = <<a, b>> \/ instrs = <<a>>
    <3>1. module[mod.lines[insert].Proto.Name] = Current
      BY <2>1 DEF Current, NameOf
    <3> QED
      BY <3>1, Zenon DEF Create
  <2> DEFINE I == Instruction
  <2> HIDE DEF instrs, a, b, I
  <2>7. CASE instrs = <<a>>
    <3>1. instrs \in Seq(I) /\ Len(instrs) = 1 /\ instrs[1] = a
      BY <2>4, <2>7 DEF I
    <3>2. \A i \in 1 .. 1 : i = 1
      OBVIOUS
    <3>3. \A i \in 1 .. Len(instrs) : Fits(instrs[i], Len(Current.code) + i, Current, module)
      BY <2>4, <3>1, <3>2
    <3>4. Len(instrs) >= 1
      BY <3>1
    <3> QED
      BY <1>1, <1>3, <3>1, <3>3, <3>4, Emitted DEF I
  <2>8. CASE instrs = <<a, b>>
    <3>1. instrs \in Seq(I) /\ Len(instrs) = 2 /\ instrs[1] = a /\ instrs[2] = b
      BY <2>4, <2>5, <2>8 DEF I
    <3>2. \A i \in 1 .. 2 : i = 1 \/ i = 2
      OBVIOUS
    <3>3. \A i \in 1 .. Len(instrs) : Fits(instrs[i], Len(Current.code) + i, Current, module)
      BY <2>4, <2>5, <3>1, <3>2
    <3>4. Len(instrs) >= 1
      BY <3>1
    <3> QED
      BY <1>1, <1>3, <3>1, <3>3, <3>4, Emitted DEF I
  <2> QED
    BY <2>6, <2>7, <2>8
<1> QED
  BY <1>1, <1>2, <1>3

LEMMA CreateCallKeeps ==
  ASSUME Inv, CreateCall
  PROVE  Inv'
<1> DEFINE a == Instr("call", Top.vals)
           instrs == <<a>>
           vals == Top.vals
<1>1. /\ pc = "Expr" /\ ast.kind = "Call" /\ Len(vals) = Len(ast.kids)
      /\ IF vals = <<>> THEN Callable(ast.val, 0) ELSE ~Failed(Last(vals))
      /\ Emit(instrs)
      /\ NamedValues' = NamedValues /\ Rests
  BY Zenon DEF CreateCall, At, Rest, Rests
<1>2. /\ vals \in Seq(AnyValue) /\ Len(vals) \in Nat
      /\ FrameOK(Top, FALSE, ast, module, Current)
  BY <1>1, TopIs
<1>3. ast.val \in DOMAIN module /\ Len(module[ast.val].args) = Len(vals)
  <2>1. vals = <<>> => Len(vals) = 0
    OBVIOUS
  <2> QED
    BY <1>1, <1>2, <2>1 DEF FrameOK, Callable
<1>4. \A k \in 1 .. Len(vals) : ~Failed(vals[k])
  <2>1. \A k \in 1 .. Len(vals) : k < Len(vals) => ~Failed(vals[k])
    BY <1>1, TopValues
  <2> HIDE DEF vals
  <2>2. \A k \in 1 .. Len(vals) : vals # <<>> /\ (k < Len(vals) \/ k = Len(vals))
    BY <1>2
  <2>3. Last(vals) = vals[Len(vals)]
    BY DEF Last
  <2> QED
    BY <1>1, <2>1, <2>2, <2>3
<1>5. "call" \in {"call"} \cup Operator
  OBVIOUS
<1>6. a \in Instruction /\ Fits(a, Len(Current.code) + 1, Current, module)
  BY <1>1, <1>3, <1>4, <1>5, InstrIs
<1> DEFINE I == Instruction
<1> HIDE DEF a, I
<1>7. instrs \in Seq(I) /\ Len(instrs) = 1 /\ instrs[1] = a
  BY <1>6 DEF I
<1>8. \A i \in 1 .. 1 : i = 1
  OBVIOUS
<1>9. \A i \in 1 .. Len(instrs) : Fits(instrs[i], Len(Current.code) + i, Current, module)
  BY <1>6, <1>7, <1>8
<1>10. Len(instrs) >= 1
  BY <1>7
<1> HIDE DEF instrs
<1> QED
  BY <1>1, <1>7, <1>9, <1>10, Emitted DEF I

LEMMA ExprKeeps ==
  ASSUME Inv, ExprASTtoIR
  PROVE  Inv'
BY NumberKeeps, VariableKeeps, BinaryOperandKeeps, BinaryFailedKeeps, BinaryOperationKeeps,
   CallRejectedKeeps, CallArgumentKeeps, CallFailedKeeps, CreateCallKeeps DEF ExprASTtoIR
-----------------------------------------------------------------------------
(***************************************************************************)
(* Between the functions                                                   *)
(***************************************************************************)
\* The invariant of a state in which no function is being built
Idle ==
  /\ Types /\ IsProgram(mod) /\ EachFinished /\ CallsStay /\ EveryFunctionVerifies
  /\ pc \in {"Get", "Line", "Undefined", "Done", "Crashed"} /\ stack = <<>>
  /\ (pc = "Get" => line = 0) /\ (pc = "Line" => line >= 1)
  /\ (pc = "Undefined" => line <= Len(mod.lines))

LEMMA BetweenFunctions == Idle => Inv
<1> SUFFICES ASSUME Idle PROVE Inv
  OBVIOUS
<1> USE DEF Idle
<1>1. ~Building
  BY DEF Building
<1>2. Frames
  <2>1. \A s \in 1 .. 0 : FALSE
    OBVIOUS
  <2>2. Len(stack) = 0
    OBVIOUS
  <2> QED
    BY <2>1, <2>2 DEF Frames
<1> QED
  BY <1>1, <1>2 DEF Inv, Positions, ArgumentsOfThis, BodyReturned

\* The module stays when no function is being built.
LEMMA ModuleIdle ==
  ASSUME Inv, ~Building, ~Building', mod' = mod, module' = module, stack' = stack
  PROVE  /\ EachFinished' /\ CallsStay' /\ EveryFunctionVerifies' /\ IsProgram(mod)' /\ stack' = <<>>
         /\ (\A name \in DOMAIN module : name \in Names /\ FunctionOK(module[name]))'
         /\ AnyValue' = AnyValue /\ Reported' = Reported /\ CallFrame' = CallFrame
<1>1. EachFinished'
  BY DEF EachFinished, Inv, NameOf
<1>2. CallsStay'
  BY DEF CallsStay, Callee, Inv
<1>3. EveryFunctionVerifies'
  BY DEF EveryFunctionVerifies, Verifies, Callable, Inv
<1>4. Instruction' = Instruction /\ AnyValue' = AnyValue /\ Reported' = Reported /\ CallFrame' = CallFrame
  BY DEF Instruction, AnyValue, Reported, CallFrame
<1>5. (\A name \in DOMAIN module : name \in Names /\ FunctionOK(module[name]))'
  BY <1>4 DEF FunctionOK, Inv, Types
<1>6. IsProgram(mod)' /\ stack' = <<>>
  BY DEF Inv, Positions, Building
<1> QED
  BY <1>1, <1>2, <1>3, <1>4, <1>5, <1>6

LEMMA ReportIs ==
  ASSUME Types, NEW e \in Error, line \in 0 .. Len(mod.lines), Report(e)
  PROVE  log' \in Seq(Reported) /\ pc' = "Undefined"
<1> DEFINE r == [line |-> line, error |-> e]
           R == Reported
<1>1. r \in R /\ log \in Seq(R)
  BY DEF Reported, Types
<1>2. log' = Append(log, r) /\ pc' = "Undefined"
  BY DEF Report
<1> HIDE DEF r, R
<1>3. log' \in Seq(R)
  BY <1>1, <1>2, AppendLast
<1> QED
  BY <1>2, <1>3 DEF R

\* Before generate() looks at the result of get()
Fresh ==
  /\ pc = "Get" /\ line = 0
  /\ stack = <<>> /\ ret = Null
  /\ NamedValues = <<>> /\ module = <<>> /\ insert = 0
  /\ log = <<>> /\ printed = <<>>

LEMMA FreshHolds == IsProgram(mod) /\ Fresh => Inv
<1> SUFFICES ASSUME IsProgram(mod), Fresh PROVE Inv
  OBVIOUS
<1>2. Len(mod.lines) \in Nat
  BY ProgramIs
<1>3. Null \in AnyValue
  BY <1>2, NullAndFailure
<1>4. DOMAIN module = {} /\ DOMAIN NamedValues = {} /\ <<>> \in Seq(CallFrame) /\ <<>> \in Seq(Reported)
      /\ <<>> \in Seq(Names)
  BY DEF Fresh
<1>5. line \in 0 .. Len(mod.lines) + 1 /\ insert \in 0 .. Len(mod.lines)
  BY <1>2 DEF Fresh
<1>6. Types
  BY <1>3, <1>4, <1>5 DEF Types, Fresh
<1>7. EachFinished /\ CallsStay /\ EveryFunctionVerifies
  BY <1>4 DEF EachFinished, CallsStay, EveryFunctionVerifies
<1> QED
  BY <1>6, <1>7, BetweenFunctions DEF Fresh, Idle

LEMMA InitHolds ==
  ASSUME Init
  PROVE  Inv
BY ProgramsAssumption, FreshHolds DEF Init, Fresh

LEMMA LoopKeeps ==
  ASSUME Inv, ParserResult \/ Crash \/ GoOn \/ LinesDone
  PROVE  Inv'
<1>1. /\ mod' = mod /\ module' = module /\ stack' = stack /\ ret' = ret /\ NamedValues' = NamedValues
      /\ insert' = insert /\ printed' = printed
      /\ pc \in {"Get", "Line", "Undefined"} /\ pc' \in {"Line", "Undefined", "Done", "Crashed"}
  BY DEF ParserResult, Crash, GoOn, LinesDone, Report
<1>2. ~Building /\ ~Building'
  BY <1>1 DEF Building
<1>3. /\ EachFinished' /\ CallsStay' /\ EveryFunctionVerifies' /\ IsProgram(mod)' /\ stack' = <<>>
      /\ (\A name \in DOMAIN module : name \in Names /\ FunctionOK(module[name]))'
      /\ AnyValue' = AnyValue /\ Reported' = Reported /\ CallFrame' = CallFrame
  BY <1>1, <1>2, ModuleIdle
<1> DEFINE l == Len(mod.lines)
<1>4. Types /\ l \in Nat
  BY ProgramIs DEF Inv
<1>p. (pc = "Get" => line = 0) /\ (pc = "Undefined" => line <= l)
  BY DEF Inv, Positions
<1>t. line \in 0 .. l + 1 /\ log \in Seq(Reported)
  BY <1>4 DEF Types
<1> HIDE DEF l
<1>r. ASSUME NEW e \in Error, Report(e), line \in 0 .. l PROVE log' \in Seq(Reported) /\ pc' = "Undefined"
  BY <1>4, <1>r, ReportIs DEF l
<1>5. /\ line' \in 0 .. l + 1 /\ log' \in Seq(Reported)
      /\ pc' = "Line" => line' >= 1
      /\ pc' = "Undefined" => line' <= l
  <2>1. CASE ParserResult
    <3>1. CASE mod.ok
      BY <1>4, <1>t, <2>1, <3>1 DEF ParserResult
    <3>2. CASE ~mod.ok
      <4>1. Report("parser error") /\ line' = line
        BY <2>1, <3>2 DEF ParserResult
      <4>a. pc = "Get"
        BY <2>1 DEF ParserResult
      <4>b. line = 0
        BY <1>p, <4>a
      <4>c. 0 <= l
        BY <1>4
      <4>2. line \in 0 .. l
        BY <1>4, <4>b, <4>c
      <4>3. "parser error" \in Error
        BY DEF Error
      <4>4. log' \in Seq(Reported) /\ pc' = "Undefined"
        BY <1>r, <4>1, <4>2, <4>3
      <4>5. line' \in 0 .. l + 1
        BY <1>t, <4>1
      <4> QED
        BY <4>1, <4>b, <4>c, <4>4, <4>5
    <3> QED
      BY <3>1, <3>2
  <2>2. CASE Crash
    BY <1>t, <2>2 DEF Crash
  <2>3. CASE GoOn
    BY <1>4, <1>p, <1>t, <2>3 DEF GoOn
  <2>4. CASE LinesDone
    BY <1>t, <2>4 DEF LinesDone
  <2> QED
    BY <2>1, <2>2, <2>3, <2>4
<1>6. Types'
  <2>1. <<>> \in Seq(CallFrame)
    OBVIOUS
  <2> QED
    BY <1>1, <1>3, <1>4, <1>5, <2>1 DEF Types, l
<1>7. Idle'
  BY <1>1, <1>3, <1>5, <1>6 DEF Idle, l
<1>8. Idle' => Inv'
  BY BetweenFunctions, PTL
<1> QED
  BY <1>7, <1>8
-----------------------------------------------------------------------------
(***************************************************************************)
(* FunctionASTtoIR                                                         *)
(***************************************************************************)
\* The function whose body has returned
LEMMA BodyIs ==
  ASSUME Inv, pc = "Body"
  PROVE  /\ Building /\ Types /\ IsProgram(mod) /\ stack = <<>>
         /\ line \in 1 .. Len(mod.lines) /\ insert = line
         /\ NameOf(line) \in DOMAIN module /\ Current = module[NameOf(line)]
         /\ Current.line = line /\ Current.value = Null /\ FunctionOK(Current)
         /\ Good(Current, ret) /\ ret \in AnyValue
         /\ \A name \in DOMAIN module :
              /\ \A i \in 1 .. Len(module[name].code) : Fits(module[name].code[i], i, module[name], module)
              /\ module[name].value # Null =>
                   Usable(module[name], module[name].value, Len(module[name].code) + 1)
         /\ \A name \in DOMAIN module : DOMAIN module[name].code = 1 .. Len(module[name].code)
         /\ line \in 0 .. Len(mod.lines) /\ line + 1 \in 0 .. Len(mod.lines) + 1 /\ line + 1 >= 1
<1>1. Building /\ Types /\ IsProgram(mod) /\ stack = <<>> /\ Positions /\ EveryFunctionVerifies
  BY DEF Inv, Positions, Building
<1>2. \A name \in DOMAIN module :
        /\ \A i \in 1 .. Len(module[name].code) : Fits(module[name].code[i], i, module[name], module)
        /\ module[name].value # Null =>
             Usable(module[name], module[name].value, Len(module[name].code) + 1)
  BY <1>1, VerifiesIs
<1>3. \A name \in DOMAIN module : DOMAIN module[name].code = 1 .. Len(module[name].code)
  <2>1. ASSUME NEW name \in DOMAIN module PROVE DOMAIN module[name].code = 1 .. Len(module[name].code)
    <3> DEFINE C == Instruction
    <3>1. module[name].code \in Seq(C)
      BY <1>1, CodeIs
    <3> HIDE DEF C
    <3> QED
      BY <3>1, LenProperties
  <2> QED
    BY <2>1
<1>4. /\ line \in 1 .. Len(mod.lines) /\ insert = line
      /\ NameOf(line) \in DOMAIN module /\ Current = module[NameOf(line)]
      /\ Current.line = line /\ Current.value = Null /\ FunctionOK(Current)
  BY <1>1 DEF Positions, Types, Current
<1>5. Good(Current, ret) /\ ret \in AnyValue
  BY <1>1 DEF Inv, BodyReturned, Types
<1> DEFINE l == Len(mod.lines)
<1>6. l \in Nat /\ line \in 1 .. l
  BY <1>1, <1>4, ProgramIs
<1> HIDE DEF l
<1>7. line \in 0 .. l /\ line + 1 \in 0 .. l + 1 /\ line + 1 >= 1
  BY <1>6
<1> QED
  BY <1>1, <1>2, <1>3, <1>4, <1>5, <1>7 DEF l

\* EveryFunctionVerifies and CallsStay of a state with module m
StaysIn(m) ==
  \A name \in DOMAIN m : \A i \in DOMAIN m[name].code :
    LET c == m[name].code[i]
    IN  c.op = "call" => Callee(c) = name \/ (Callee(c) \in DOMAIN m /\ m[Callee(c)].value # Null)

VerifiesAll(m) ==
  \A name \in DOMAIN m :
    /\ \A i \in DOMAIN m[name].code : Fits(m[name].code[i], i, m[name], m)
    /\ m[name].value # Null => Usable(m[name], m[name].value, Len(m[name].code) + 1)

LEMMA ModuleThen ==
  ASSUME mod' = mod
  PROVE  /\ StaysIn(module') => CallsStay'
         /\ VerifiesAll(module') => EveryFunctionVerifies'
         /\ (\A name \in DOMAIN module' : name \in Names /\ FunctionOK(module'[name])) =>
              (\A name \in DOMAIN module : name \in Names /\ FunctionOK(module[name]))'
         /\ AnyValue' = AnyValue /\ Reported' = Reported /\ CallFrame' = CallFrame
<1>1. Instruction' = Instruction /\ AnyValue' = AnyValue /\ Reported' = Reported /\ CallFrame' = CallFrame
  BY DEF Instruction, AnyValue, Reported, CallFrame
<1>2. StaysIn(module') => CallsStay'
  BY DEF StaysIn, CallsStay, Callee
<1>3. VerifiesAll(module') => EveryFunctionVerifies'
  BY DEF VerifiesAll, Fits, EveryFunctionVerifies, Verifies, Callable, Callee
<1>4. (\A name \in DOMAIN module' : name \in Names /\ FunctionOK(module'[name])) =>
        (\A name \in DOMAIN module : name \in Names /\ FunctionOK(module[name]))'
  BY <1>1 DEF FunctionOK
<1> QED
  BY <1>1, <1>2, <1>3, <1>4

LEMMA RemoveKeeps ==
  ASSUME Inv, RemoveFunction
  PROVE  Inv'
<1> DEFINE nm == NameOf(line)
<1>1. pc = "Body" /\ Failed(ret)
  BY DEF RemoveFunction
<1>2. /\ Types /\ IsProgram(mod) /\ stack = <<>> /\ line \in 1 .. Len(mod.lines)
      /\ nm \in DOMAIN module /\ module[nm].value = Null /\ line \in 0 .. Len(mod.lines)
      /\ VerifiesAll(module)
  BY <1>1, BodyIs DEF VerifiesAll
<1>3. /\ mod' = mod /\ line' = line /\ stack' = stack /\ ret' = ret /\ NamedValues' = NamedValues
      /\ insert' = insert /\ printed' = printed /\ module' = eraseFromParent(nm) /\ Report(ret.kind)
  BY DEF RemoveFunction, NameOf
<1>4. log' \in Seq(Reported) /\ pc' = "Undefined"
  BY <1>1, <1>2, <1>3, ReportIs DEF Failed
<1>5. DOMAIN module' = DOMAIN module \ {nm} /\ \A name \in DOMAIN module' : module'[name] = module[name]
  BY <1>3 DEF eraseFromParent
<1> HIDE DEF nm
<1>6. StaysIn(module')
  <2>1. \A name \in DOMAIN module : \A i \in DOMAIN module[name].code :
          LET c == module[name].code[i]
          IN  c.op = "call" => Callee(c) = name \/ (Callee(c) \in DOMAIN module /\ module[Callee(c)].value # Null)
    BY DEF Inv, CallsStay
  <2> QED
    BY <1>2, <1>5, <2>1 DEF StaysIn
<1>7. VerifiesAll(module')
  <2>1. ASSUME NEW name \in DOMAIN module', NEW i \in DOMAIN module'[name].code
        PROVE  Fits(module'[name].code[i], i, module'[name], module')
    <3>1. Fits(module[name].code[i], i, module[name], module)
      BY <1>2, <1>5 DEF VerifiesAll
    <3> QED
      BY <1>5, <1>6, <3>1 DEF Fits, StaysIn
  <2>2. ASSUME NEW name \in DOMAIN module', module'[name].value # Null
        PROVE  Usable(module'[name], module'[name].value, Len(module'[name].code) + 1)
    BY <1>2, <1>5, <2>2 DEF VerifiesAll
  <2> QED
    BY <2>1, <2>2 DEF VerifiesAll
<1>8. \A name \in DOMAIN module' : name \in Names /\ FunctionOK(module'[name])
  BY <1>2, <1>5 DEF Types
<1>9. /\ CallsStay' /\ EveryFunctionVerifies'
      /\ (\A name \in DOMAIN module : name \in Names /\ FunctionOK(module[name]))'
      /\ AnyValue' = AnyValue /\ Reported' = Reported /\ CallFrame' = CallFrame
  BY <1>3, <1>6, <1>7, <1>8, ModuleThen
<1>10. EachFinished'
  BY <1>3, <1>5 DEF Inv, EachFinished, Building, NameOf, nm
<1>11. Types'
  BY <1>2, <1>3, <1>4, <1>9 DEF Types
<1>12. Idle'
  <2> DEFINE l == Len(mod.lines)
  <2>1. line \in 1 .. l => line <= l
    OBVIOUS
  <2> HIDE DEF l
  <2>2. l' = l
    BY <1>3 DEF l
  <2>3. line' <= l'
    BY <1>2, <1>3, <2>1, <2>2 DEF l
  <2> QED
    BY <1>2, <1>3, <1>4, <1>9, <1>10, <1>11, <2>3 DEF Idle, l
<1>13. Idle' => Inv'
  BY BetweenFunctions, PTL
<1> QED
  BY <1>12, <1>13

\* The function that is finished gets its value, and nothing else changes.
LEMMA FinishIs ==
  ASSUME Inv, FinishFunction
  PROVE  LET nm == NameOf(line)
             F == Current
             g == [F EXCEPT !.value = ret]
         IN  /\ FunctionOK(g) /\ g.line = F.line /\ g.args = F.args /\ g.entry = F.entry
             /\ g.code = F.code /\ g.value = ret
             /\ DOMAIN module' = DOMAIN module /\ module'[nm] = g
             /\ \A name \in DOMAIN module : name # nm => module'[name] = module[name]
<1> DEFINE nm == NameOf(line)
           F == Current
           g == [F EXCEPT !.value = ret]
           r == [line |-> F.line, args |-> F.args, entry |-> F.entry, code |-> F.code, value |-> ret]
<1>1. /\ insert = line /\ nm \in DOMAIN module /\ F = module[nm] /\ FunctionOK(F) /\ ret \in AnyValue
  BY BodyIs DEF FinishFunction
<1>2. module' = [module EXCEPT ![nm].value = ret]
  BY <1>1 DEF FinishFunction, NameOf
<1>3. module' = [module EXCEPT ![nm] = g]
  <2>1. [module EXCEPT ![nm].value = ret] = [module EXCEPT ![nm] = [module[nm] EXCEPT !.value = ret]]
    OBVIOUS
  <2> QED
    BY <1>1, <1>2, <2>1, Zenon
<1> HIDE DEF F
<1>4. g = r
  <2>1. F = [line |-> F.line, args |-> F.args, entry |-> F.entry, code |-> F.code, value |-> F.value]
    BY <1>1 DEF FunctionOK
  <2>2. \A a, b, c, d, e, x :
          [[line |-> a, args |-> b, entry |-> c, code |-> d, value |-> e] EXCEPT !.value = x]
            = [line |-> a, args |-> b, entry |-> c, code |-> d, value |-> x]
    OBVIOUS
  <2>3. [[line |-> F.line, args |-> F.args, entry |-> F.entry, code |-> F.code, value |-> F.value]
           EXCEPT !.value = ret] = r
    BY <2>2
  <2> QED
    BY <2>1, <2>3, Zenon
<1>5. r.line = F.line /\ r.args = F.args /\ r.entry = F.entry /\ r.code = F.code /\ r.value = ret
  OBVIOUS
<1>6. FunctionOK(r)
  BY <1>1, <1>5 DEF FunctionOK
<1> HIDE DEF g, r, nm
<1>7. /\ DOMAIN module' = DOMAIN module /\ module'[nm] = g
      /\ \A name \in DOMAIN module : name # nm => module'[name] = module[name]
  BY <1>1, <1>3
<1> QED
  BY <1>4, <1>5, <1>6, <1>7 DEF F, g, nm

LEMMA FinishKeeps ==
  ASSUME Inv, FinishFunction
  PROVE  Inv'
<1> DEFINE nm == NameOf(line)
           F == Current
           g == [F EXCEPT !.value = ret]
<1>1. pc = "Body" /\ ~Failed(ret)
  BY DEF FinishFunction
<1>2. /\ Types /\ IsProgram(mod) /\ stack = <<>> /\ line \in 1 .. Len(mod.lines) /\ insert = line
      /\ nm \in DOMAIN module /\ F = module[nm] /\ F.value = Null /\ FunctionOK(F)
      /\ line + 1 \in 0 .. Len(mod.lines) + 1 /\ line + 1 >= 1
      /\ ret \in AnyValue /\ Usable(F, ret, Len(F.code) + 1)
      /\ VerifiesAll(module)
  BY <1>1, BodyIs DEF VerifiesAll, Good
<1>3. /\ mod' = mod /\ line' = line + 1 /\ stack' = stack /\ ret' = ret /\ NamedValues' = NamedValues
      /\ insert' = insert /\ printed' = Append(printed, nm) /\ log' = log /\ pc' = "Line"
      /\ module' = [module EXCEPT ![nm].value = ret]
  BY <1>2 DEF FinishFunction, NameOf
<1>4. /\ FunctionOK(g) /\ g.line = F.line /\ g.args = F.args /\ g.entry = F.entry
      /\ g.code = F.code /\ g.value = ret
  BY FinishIs
<1>6. /\ DOMAIN module' = DOMAIN module /\ module'[nm] = g
      /\ \A name \in DOMAIN module : name # nm => module'[name] = module[name]
  BY FinishIs
<1> HIDE DEF g, F, nm
<1>7. ret # Null
  BY <1>2, NullAndFailure, ProgramIs
<1>a. \A name \in DOMAIN module :
        /\ module'[name].args = module[name].args /\ module'[name].code = module[name].code
        /\ module'[name].line = module[name].line /\ module'[name].entry = module[name].entry
        /\ module[name].value # Null => module'[name].value = module[name].value
  BY <1>2, <1>4, <1>6
<1>8. StaysIn(module')
  <2>1. StaysIn(module)
    BY DEF Inv, CallsStay, StaysIn
  <2> QED
    BY <1>6, <1>a, <2>1 DEF StaysIn
<1>9. VerifiesAll(module')
  <2>1. ASSUME NEW name \in DOMAIN module', NEW i \in DOMAIN module'[name].code
        PROVE  Fits(module'[name].code[i], i, module'[name], module')
    <3>1. Fits(module[name].code[i], i, module[name], module)
      BY <1>2, <1>6, <1>a DEF VerifiesAll
    <3> QED
      BY <1>6, <1>a, <3>1 DEF Fits, Usable
  <2>2. ASSUME NEW name \in DOMAIN module'
        PROVE  Usable(module'[name], module'[name].value, Len(module'[name].code) + 1) \/ module'[name].value = Null
    <3>1. CASE name = nm
      BY <1>2, <1>4, <1>6, <3>1 DEF Usable
    <3>2. CASE name # nm
      BY <1>2, <1>6, <3>2 DEF VerifiesAll
    <3> QED
      BY <3>1, <3>2
  <2> QED
    BY <2>1, <2>2 DEF VerifiesAll
<1>10. \A name \in DOMAIN module' : name \in Names /\ FunctionOK(module'[name])
  BY <1>2, <1>4, <1>6 DEF Types
<1>11. /\ CallsStay' /\ EveryFunctionVerifies'
       /\ (\A name \in DOMAIN module : name \in Names /\ FunctionOK(module[name]))'
       /\ AnyValue' = AnyValue /\ Reported' = Reported /\ CallFrame' = CallFrame
  BY <1>3, <1>8, <1>9, <1>10, ModuleThen
<1>12. EachFinished'
  <2>1. \A i : NameOf(i)' = NameOf(i)
    BY <1>3 DEF NameOf
  <2>2. \A name \in DOMAIN module : module[name].entry /\ NameOf(module[name].line) = name
         /\ (name # nm => module[name].value # Null)
    BY DEF Inv, EachFinished, nm
  <2> QED
    BY <1>2, <1>4, <1>6, <1>7, <2>1, <2>2 DEF EachFinished
<1>13. printed' \in Seq(Names)
  <2>1. nm \in Names /\ printed \in Seq(Names)
    BY <1>2 DEF Types
  <2> QED
    BY <1>3, <2>1, AppendLast
<1>14. Types'
  BY <1>2, <1>3, <1>11, <1>13 DEF Types
<1>15. Idle'
  BY <1>2, <1>3, <1>11, <1>12, <1>14 DEF Idle
<1>16. Idle' => Inv'
  BY BetweenFunctions, PTL
<1> QED
  BY <1>15, <1>16
\* A new function, with its arguments named and no code, and the arguments in NamedValues
LEMMA NewFunction ==
  ASSUME IsProgram(mod), line \in 1 .. Len(mod.lines)
  PROVE  LET P == PrototypeASTtoIR(mod.lines[line].Proto)
             g == [P EXCEPT !.entry = TRUE]
         IN  /\ FunctionOK(g) /\ ~P.entry /\ g.args = P.args
             /\ g.line = line /\ g.entry = TRUE /\ g.code = <<>> /\ g.value = Null
             /\ \A a \in DOMAIN Argument(P.args) :
                  LET v == Argument(P.args)[a]
                  IN  v \in AnyValue /\ v.kind = "arg" /\ v.of = line /\ v.n \in DOMAIN P.args
<1> DEFINE args == setNames(mod.lines[line].Proto.Args)
           P == [line |-> line, args |-> args, entry |-> FALSE, code |-> <<>>, value |-> Null]
           g == [line |-> line, args |-> args, entry |-> TRUE, code |-> <<>>, value |-> Null]
<1>0. PrototypeASTtoIR(mod.lines[line].Proto) = P
  BY DEF PrototypeASTtoIR
<1>1. mod.lines[line].Proto.Args \in Seq(Names) /\ Len(mod.lines) \in Nat
  BY ProgramIs
<1>2. Len(mod.lines[line].Proto.Args) \in Nat
  BY <1>1, LenProperties
<1>3. args \in Seq(ToSet(args))
  BY <1>2, SetNamesIs
<1>4. Null \in AnyValue /\ <<>> \in Seq(Instruction)
  BY <1>1, NullAndFailure
<1> HIDE DEF args
<1>5. [P EXCEPT !.entry = TRUE] = g
  <2> DEFINE E == [P EXCEPT !.entry = TRUE]
             D == {"line", "args", "entry", "code", "value"}
  <2>1. P = [x \in D |-> P[x]] /\ g = [x \in D |-> g[x]] /\ "entry" \in D
    BY Zenon
  <2>2. E = [x \in D |-> IF x = "entry" THEN TRUE ELSE P[x]]
    BY <2>1, Zenon
  <2>4. g.entry = TRUE /\ g.line = P.line /\ g.args = P.args /\ g.code = P.code /\ g.value = P.value
    OBVIOUS
  <2> HIDE DEF P, g
  <2>3. \A x \in D : (IF x = "entry" THEN TRUE ELSE P[x]) = g[x]
    BY <2>4, Zenon
  <2> HIDE DEF D, E
  <2> QED
    BY <2>1, <2>2, <2>3, Zenon DEF E
<1>6. /\ g.line = line /\ g.args = args /\ g.entry = TRUE /\ g.code = <<>> /\ g.value = Null
      /\ P.args = args /\ P.entry = FALSE
  OBVIOUS
<1>7. FunctionOK(g)
  BY <1>3, <1>4, <1>6 DEF FunctionOK
<1>8. ASSUME NEW a \in DOMAIN Argument(args)
      PROVE  LET v == Argument(args)[a]
             IN  v \in AnyValue /\ v.kind = "arg" /\ v.of = line /\ v.n \in DOMAIN args
  <2> DEFINE i == CHOOSE i \in DOMAIN args : args[i] = a
  <2>1. \E k \in DOMAIN args : args[k] = a
    BY DEF Argument, ToSet
  <2>2. i \in DOMAIN args
    BY <2>1
  <2>3. Argument(args)[a] = Value("arg", line, i)
    BY DEF Argument
  <2>4. DOMAIN args = 1 .. Len(args) /\ Len(args) \in Nat
    BY <1>3, LenProperties
  <2> HIDE DEF i
  <2> DEFINE l == Len(mod.lines)
             m == Len(args)
  <2>5. i \in 1 .. m /\ m \in Nat /\ line \in 1 .. l /\ l \in Nat
    BY <1>1, <2>2, <2>4
  <2> HIDE DEF l, m
  <2>6. i \in Nat /\ line \in 0 .. l
    BY <2>5
  <2>7. "arg" \in {"const", "arg", "instr", "null"} \cup Error
    OBVIOUS
  <2> QED
    BY <2>2, <2>3, <2>6, <2>7, ValueIs DEF l
<1> HIDE DEF g, P
<1> QED
  BY <1>0, <1>5, <1>6, <1>7, <1>8

LEMMA BeginKeeps ==
  ASSUME Inv, BeginFunction
  PROVE  Inv'
<1> DEFINE d == mod.lines[line]
           nm == NameOf(line)
           P == PrototypeASTtoIR(d.Proto)
           g == [P EXCEPT !.entry = TRUE]
           l == Len(mod.lines)
<1>1. /\ Types /\ IsProgram(mod) /\ EachFinished /\ CallsStay /\ EveryFunctionVerifies
      /\ pc = "Line" /\ ~Building /\ stack = <<>> /\ l \in Nat
  BY ProgramIs DEF BeginFunction, Inv, Positions, Building
<1>2. line \in 1 .. l /\ line \in 0 .. l /\ line <= l
  <2>1. line <= l /\ line >= 1 /\ line \in 0 .. l + 1
    BY <1>1 DEF BeginFunction, Inv, Positions, Types
  <2> HIDE DEF l
  <2> QED
    BY <1>1, <2>1
<1>3. mod' = mod /\ line' = line /\ ret' = ret /\ printed' = printed
  BY DEF BeginFunction
<1>4. CASE nm \in DOMAIN module
  <2>1. hasBody(module[nm])
    BY <1>1, <1>4 DEF EachFinished, hasBody
  <2>2. /\ Report("cannot be redefined") /\ stack' = stack /\ NamedValues' = NamedValues
        /\ module' = module /\ insert' = insert
    BY <1>4, <2>1, Zenon DEF BeginFunction, NameOf
  <2>3. "cannot be redefined" \in Error
    BY DEF Error
  <2>4. log' \in Seq(Reported) /\ pc' = "Undefined"
    BY <1>1, <1>2, <2>2, <2>3, ReportIs
  <2>5. ~Building'
    BY <2>4 DEF Building
  <2>6. /\ EachFinished' /\ CallsStay' /\ EveryFunctionVerifies' /\ IsProgram(mod)' /\ stack' = <<>>
        /\ (\A name \in DOMAIN module : name \in Names /\ FunctionOK(module[name]))'
        /\ AnyValue' = AnyValue /\ Reported' = Reported /\ CallFrame' = CallFrame
    BY <1>1, <1>3, <2>2, <2>5, ModuleIdle
  <2>7. Types'
    BY <1>1, <1>3, <2>2, <2>4, <2>6 DEF Types
  <2>8. Idle'
    BY <1>2, <1>3, <2>4, <2>6, <2>7 DEF Idle
  <2>9. Idle' => Inv'
    BY BetweenFunctions, PTL
  <2> QED
    BY <2>8, <2>9
<1>5. CASE nm \notin DOMAIN module
  <2>1. /\ FunctionOK(g) /\ ~P.entry /\ g.args = P.args
        /\ g.line = line /\ g.entry = TRUE /\ g.code = <<>> /\ g.value = Null
        /\ \A a \in DOMAIN Argument(P.args) :
             LET v == Argument(P.args)[a]
             IN  v \in AnyValue /\ v.kind = "arg" /\ v.of = line /\ v.n \in DOMAIN P.args
    BY <1>1, <1>2, NewFunction
  <2>2. /\ module' = With(module, nm, g) /\ insert' = line /\ NamedValues' = Argument(P.args)
        /\ stack' = <<FrameOf(d.Body)>> /\ pc' = "Expr" /\ log' = log
    BY <1>5, <2>1, Zenon DEF BeginFunction, NameOf, hasBody, Recorded
  <2>3. nm \in Names /\ d.Body \in DOMAIN mod.nodes
    BY <1>1, <1>2, ProgramIs
  <2> HIDE DEF nm, P, g, d
  <2>4. /\ DOMAIN module' = DOMAIN module \cup {nm} /\ module'[nm] = g
        /\ \A name \in DOMAIN module : name # nm /\ module'[name] = module[name]
    BY <1>5, <2>2 DEF With
  <2>5. /\ Building' /\ Current' = g /\ NameOf(line)' = nm
        /\ (\A i : NameOf(i)' = NameOf(i))
    BY <1>3, <2>2, <2>4 DEF Building, Current, NameOf, nm
  <2>6. \A i \in DOMAIN g.code : FALSE
    BY <2>1
  <2>7. StaysIn(module')
    <3>1. StaysIn(module)
      BY <1>1 DEF CallsStay, StaysIn
    <3> QED
      BY <2>4, <2>6, <3>1 DEF StaysIn
  <2>8. VerifiesAll(module')
    <3>1. VerifiesAll(module)
      BY <1>1 DEF VerifiesAll, Fits, EveryFunctionVerifies, Verifies, Callable, Callee
    <3>2. ASSUME NEW c, NEW i, NEW f, Fits(c, i, f, module) PROVE Fits(c, i, f, module')
      BY <2>4, <3>2 DEF Fits
    <3> QED
      BY <2>1, <2>4, <2>6, <3>1, <3>2 DEF VerifiesAll
  <2>9. \A name \in DOMAIN module' : name \in Names /\ FunctionOK(module'[name])
    BY <1>1, <2>1, <2>3, <2>4 DEF Types
  <2>10. /\ CallsStay' /\ EveryFunctionVerifies'
         /\ (\A name \in DOMAIN module : name \in Names /\ FunctionOK(module[name]))'
         /\ AnyValue' = AnyValue /\ Reported' = Reported /\ CallFrame' = CallFrame
    BY <1>3, <2>7, <2>8, <2>9, ModuleThen
  <2>11. EachFinished'
    <3>1. \A name \in DOMAIN module : /\ module[name].entry /\ NameOf(module[name].line) = name
                                      /\ module[name].value # Null
      BY <1>1 DEF EachFinished
    <3>2. NameOf(line) = nm
      BY DEF nm
    <3> QED
      BY <2>1, <2>4, <2>5, <3>1, <3>2 DEF EachFinished
  <2> DEFINE fr == FrameOf(d.Body)
             S == CallFrame
  <2>12. fr \in S /\ fr.ast = d.Body /\ fr.vals = <<>>
    BY <2>3, FrameOfIs
  <2>13. Len(mod.nodes[d.Body].kids) \in Nat
    BY <1>1, <2>3, ProgramIs
  <2> HIDE DEF fr, S
  <2>14. stack' = <<fr>>
    BY <2>2 DEF fr
  <2>15. stack' \in Seq(S) /\ Len(stack') = 1 /\ stack'[1] = fr /\ stack' # <<>>
    BY <2>12, <2>14
  <2>16. Frames'
    <3>1. FrameOK(fr, FALSE, mod.nodes[d.Body], module', Current')
      <4>1. Len(fr.vals) = 0
        BY <2>12
      <4> QED
        BY <2>12, <2>13, <4>1 DEF FrameOK
    <3>2. \A s \in 1 .. 1 : s = 1 /\ (s < 1) = FALSE
      OBVIOUS
    <3>3. \A s \in 1 .. Len(stack') :
            FrameOK(stack'[s], s < Len(stack'), mod'.nodes[stack'[s].ast], module', Current')
      BY <1>3, <2>12, <2>15, <3>1, <3>2
    <3> QED
      BY <3>3 DEF Frames
  <2>17. ArgumentsOfThis'
    BY <2>1, <2>2, <2>5 DEF ArgumentsOfThis, Recording, Usable
  <2>18. Positions'
    BY <1>2, <1>3, <2>1, <2>2, <2>4, <2>5, <2>15 DEF Positions
  <2>19. Types'
    BY <1>1, <1>2, <1>3, <2>1, <2>2, <2>10, <2>15 DEF Types, S
  <2>20. BodyReturned' /\ IsProgram(mod)'
    BY <1>1, <1>3, <2>2 DEF BodyReturned
  <2> QED
    BY <2>10, <2>11, <2>16, <2>17, <2>18, <2>19, <2>20 DEF Inv
<1> QED
  BY <1>4, <1>5
-----------------------------------------------------------------------------
(***************************************************************************)
(* The theorems                                                            *)
(***************************************************************************)
LEMMA NextKeeps == Inv /\ [Next]_vars => Inv'
<1> SUFFICES ASSUME Inv, [Next]_vars PROVE Inv'
  OBVIOUS
<1>1. CASE ParserResult \/ Crash \/ GoOn \/ LinesDone
  BY <1>1, LoopKeeps
<1>2. CASE BeginFunction
  BY <1>2, BeginKeeps
<1>3. CASE FinishFunction
  BY <1>3, FinishKeeps
<1>4. CASE RemoveFunction
  BY <1>4, RemoveKeeps
<1>5. CASE ExprASTtoIR
  BY <1>5, ExprKeeps
<1>6. CASE UNCHANGED vars
  <2>1. /\ mod' = mod /\ pc' = pc /\ line' = line /\ stack' = stack /\ ret' = ret
        /\ NamedValues' = NamedValues /\ module' = module /\ insert' = insert
        /\ log' = log /\ printed' = printed
    BY <1>6 DEF vars
  <2>2. IsProgram(mod)' /\ Building' = Building /\ Current' = Current
    BY <2>1 DEF Inv, Building, Current, NameOf
  <2>3. AnyValue' = AnyValue /\ Reported' = Reported /\ CallFrame' = CallFrame /\ Instruction' = Instruction
    BY <2>1 DEF AnyValue, Reported, CallFrame, Instruction
  <2>4. Types'
    BY <2>1, <2>3 DEF Inv, Types, FunctionOK
  <2>5. Positions' /\ EachFinished'
    BY <2>1, <2>2 DEF Inv, Positions, EachFinished, NameOf
  <2>6. CallsStay' /\ Frames'
    BY <2>1, <2>2 DEF Inv, CallsStay, Callee, Frames
  <2>7. ArgumentsOfThis' /\ BodyReturned'
    BY <2>1, <2>2 DEF Inv, ArgumentsOfThis, Recording, BodyReturned
  <2>8. EveryFunctionVerifies'
    BY <2>1 DEF Inv, EveryFunctionVerifies, Verifies, Callable
  <2> QED
    BY <2>2, <2>4, <2>5, <2>6, <2>7, <2>8 DEF Inv
<1> QED
  BY <1>1, <1>2, <1>3, <1>4, <1>5, <1>6 DEF Next, Terminated

\* Only a function that was built is printed.
LEMMA PrintsWhenBuilt ==
  ASSUME Inv, [Next]_vars, printed' # printed
  PROVE  Len(mod.lines) >= 1
<1>1. FinishFunction
  BY Zenon DEF Next, vars, ParserResult, Crash, GoOn, LinesDone, BeginFunction, RemoveFunction, Terminated,
     ExprASTtoIR, NumberExprASTtoIR, VariableExprASTtoIR, BinaryOperand, BinaryFailed, BinaryOperation,
     CallRejected, CallArgument, CallFailed, CreateCall, Visit, Rest
<1>2. line \in 1 .. Len(mod.lines)
  BY <1>1 DEF FinishFunction, Inv, Positions, Building
<1>3. Len(mod.lines) \in Nat
  BY ProgramIs DEF Inv
<1> QED
  BY <1>2, <1>3

LEMMA Invariant == Spec => []Inv
<1>1. Init => Inv
  BY InitHolds
<1> QED
  BY <1>1, NextKeeps, PTL DEF Spec

\* What llvm::verifyFunction wants holds of every function at every moment, whatever
\* the parser returned: operands are constants, arguments of the same function or
\* earlier instructions of it, and calls are to functions that are in the module.
THEOREM GeneratedVerifies == Spec => []EveryFunctionVerifies
<1>1. Inv => EveryFunctionVerifies
  BY DEF Inv
<1> QED
  BY <1>1, Invariant, PTL

\* The invariant has the types.
LEMMA InvTypes == Inv => TypeOK
<1> SUFFICES ASSUME Inv PROVE TypeOK
  OBVIOUS
<1>1. Types /\ IsProgram(mod) /\ Len(mod.lines) \in Nat
  BY ProgramIs DEF Inv
<1> DEFINE V == AnyValue \ {Null}
           Fr == [ast : DOMAIN mod.nodes, vals : Seq(V)]
           S == CallFrame
<1>2. \A f, v : Good(f, v) => v # Null
  BY <1>1, NullAndFailure DEF Good
<1>3. stack \in Seq(S)
  BY <1>1 DEF Types
<1>4. ASSUME NEW s \in 1 .. Len(stack)
      PROVE  stack[s] \in Fr /\ Len(stack[s].vals) <= Len(mod.nodes[stack[s].ast].kids)
  <2> DEFINE fr == stack[s]
  <2>1. fr \in CallFrame
    BY <1>3, ElementOfSeq
  <2>2. FrameOK(fr, s < Len(stack), mod.nodes[fr.ast], module, Current)
    BY DEF Inv, Frames
  <2> DEFINE vals == fr.vals
             W == AnyValue
  <2>3. vals \in Seq(W) /\ \A k \in 1 .. Len(vals) : vals[k] \in W
    BY <2>1, FrameIs
  <2>4. \A k \in 1 .. Len(vals) : vals[k] # Null
    BY <1>2, <2>2 DEF FrameOK
  <2>5. \A k \in 1 .. Len(vals) : vals[k] \in V
    BY <2>3, <2>4
  <2>6. fr = [ast |-> fr.ast, vals |-> fr.vals] /\ fr.ast \in DOMAIN mod.nodes
    BY <2>1 DEF CallFrame
  <2> HIDE DEF vals, W, V
  <2>7. vals \in Seq(V)
    BY <2>3, <2>5, SeqRange
  <2> HIDE DEF fr
  <2>8. [ast |-> fr.ast, vals |-> vals] \in [ast : DOMAIN mod.nodes, vals : Seq(V)]
    BY <2>6, <2>7
  <2>9. fr \in Fr
    BY <2>6, <2>8 DEF vals
  <2>10. Len(fr.vals) <= Len(mod.nodes[fr.ast].kids)
    BY <2>2 DEF FrameOK
  <2> QED
    BY <2>9, <2>10 DEF fr
<1>5. stack \in Seq(Fr) /\ DOMAIN stack = 1 .. Len(stack)
  <2> HIDE DEF Fr, S
  <2>1. DOMAIN stack = 1 .. Len(stack)
    BY <1>3, LenProperties
  <2> QED
    BY <1>3, <1>4, <2>1, SeqRange
<1>6. ASSUME NEW name \in DOMAIN module PROVE name \in Names /\ module[name] \in Function
  <2> DEFINE f == module[name]
             A == UNION {ToSet(module[g].args) : g \in DOMAIN module}
             I == Instruction
  <2>1. name \in Names /\ FunctionOK(f)
    BY <1>1 DEF Types
  <2>2. f.args \in Seq(A)
    <3>1. ToSet(f.args) \subseteq A
      OBVIOUS
    <3>2. f.args \in Seq(ToSet(f.args))
      BY <2>1 DEF FunctionOK
    <3> HIDE DEF A, f
    <3> QED
      BY <3>1, <3>2, SeqMonotonic
  <2>3. /\ f = [line |-> f.line, args |-> f.args, entry |-> f.entry, code |-> f.code, value |-> f.value]
        /\ f.line \in 1 .. Len(mod.lines) /\ f.entry \in BOOLEAN /\ f.code \in Seq(I)
        /\ f.value \in AnyValue
    BY <2>1 DEF FunctionOK
  <2>4. Function = [line : 1 .. Len(mod.lines), args : Seq(A), entry : BOOLEAN, code : Seq(I), value : AnyValue]
    BY DEF Function, Instruction
  <2> HIDE DEF f, A, I
  <2>5. [line |-> f.line, args |-> f.args, entry |-> f.entry, code |-> f.code, value |-> f.value] \in
          [line : 1 .. Len(mod.lines), args : Seq(A), entry : BOOLEAN, code : Seq(I), value : AnyValue]
    BY <2>2, <2>3
  <2> QED
    BY <2>1, <2>3, <2>4, <2>5 DEF f
<1>7. pc = "Body" => ret # Null
  BY <1>2 DEF Inv, BodyReturned
<1> HIDE DEF Fr
<1>8. \A s \in DOMAIN stack : Len(stack[s].vals) <= Len(mod.nodes[stack[s].ast].kids)
  BY <1>4, <1>5
<1>9. stack \in Seq([ast : DOMAIN mod.nodes, vals : Seq(AnyValue \ {Null})])
  BY <1>5 DEF Fr
<1> QED
  BY <1>1, <1>6, <1>7, <1>8, <1>9 DEF TypeOK, Types, Reported

\* Every variable has its type, and no call of ExprASTtoIR returns a null Value*.
THEOREM GeneratorTypes == Spec => []TypeOK
BY InvTypes, Invariant, PTL

\* A later definition, valid or not, never touches a finished function: not the code,
\* the arguments or the result of it, and it is never erased.
THEOREM FinishedStay == Spec => FinishedFunctionsStay
<1> DEFINE Stay == \A name \in DOMAIN module :
                     module[name].value # Null => name \in DOMAIN module' /\ module'[name] = module[name]
<1>1. Inv /\ [Next]_vars => Stay
  <2> SUFFICES ASSUME Inv, [Next]_vars PROVE Stay
    OBVIOUS
  <2>1. CASE module' = module
    BY <2>1
  <2>2. ASSUME NEW instrs, Emit(instrs), pc = "Expr" PROVE Stay
    <3> DEFINE nm == NameOf(insert)
    <3>1. module[nm].value = Null
      BY <2>2 DEF Inv, Positions, Building, Current
    <3>2. module' = [module EXCEPT ![nm] = [module[nm] EXCEPT !.code = @ \o instrs]]
      BY <2>2, Zenon DEF Emit, NameOf
    <3> HIDE DEF nm
    <3> QED
      BY <3>1, <3>2
  <2>3. CASE BeginFunction
    <3> DEFINE d == mod.lines[line]
               nm == d.Proto.Name
               F == IF nm \in DOMAIN module THEN module[nm] ELSE PrototypeASTtoIR(d.Proto)
               g == [F EXCEPT !.entry = TRUE]
    <3>1. module' = module \/ (~hasBody(F) /\ module' = With(module, nm, g))
      BY <2>3, Zenon DEF BeginFunction
    <3>2. nm \in DOMAIN module => hasBody(F)
      BY DEF Inv, EachFinished, hasBody
    <3>3. CASE nm \notin DOMAIN module /\ module' = With(module, nm, g)
      <4> HIDE DEF nm, g
      <4> QED
        BY <3>3 DEF With
    <3> QED
      BY <2>1, <3>1, <3>2, <3>3
  <2>4. CASE FinishFunction
    <3> DEFINE nm == NameOf(insert)
    <3>1. module[nm].value = Null
      BY <2>4 DEF FinishFunction, Inv, Positions, Building, Current
    <3>2. module' = [module EXCEPT ![nm] = [module[nm] EXCEPT !.value = ret]]
      BY <2>4, Zenon DEF FinishFunction, NameOf
    <3> HIDE DEF nm
    <3> QED
      BY <3>1, <3>2
  <2>5. CASE RemoveFunction
    <3> DEFINE nm == NameOf(line)
    <3>1. module[nm].value = Null
      BY <2>5 DEF RemoveFunction, Inv, Positions, Building, Current
    <3>2. module' = eraseFromParent(nm)
      BY <2>5 DEF RemoveFunction, NameOf
    <3> HIDE DEF nm
    <3> QED
      BY <3>1, <3>2 DEF eraseFromParent
  <2>6. CASE ExprASTtoIR
    <3>1. CASE NumberExprASTtoIR \/ VariableExprASTtoIR \/ BinaryOperand \/ BinaryFailed
               \/ CallRejected \/ CallArgument \/ CallFailed
      BY <2>1, <3>1, Zenon DEF NumberExprASTtoIR, VariableExprASTtoIR, BinaryOperand, BinaryFailed,
                       CallRejected, CallArgument, CallFailed, Visit
    <3>2. CASE BinaryOperation
      BY <2>1, <2>2, <3>2, Zenon DEF BinaryOperation, At
    <3>3. CASE CreateCall
      BY <2>2, <3>3, Zenon DEF CreateCall, At
    <3> QED
      BY <2>6, <3>1, <3>2, <3>3 DEF ExprASTtoIR
  <2>7. CASE ParserResult \/ Crash \/ GoOn \/ LinesDone \/ Terminated \/ UNCHANGED vars
    BY <2>1, <2>7 DEF ParserResult, Crash, GoOn, LinesDone, Terminated, vars
  <2> QED
    BY <2>3, <2>4, <2>5, <2>6, <2>7 DEF Next
<1>2. Inv /\ [Next]_vars => [Stay]_vars
  BY <1>1
<1> QED
  BY <1>2, Invariant, PTL DEF Spec, FinishedFunctionsStay
-----------------------------------------------------------------------------
(***************************************************************************)
(* Which functions the module has: those printed, one for each line that   *)
(* was not reported, and the one being built.                              *)
(***************************************************************************)
ReportedLines == {log[j].line : j \in 1 .. Len(log)}

\* The lines whose compilation is over
Passed == line - (IF pc = "Undefined" THEN 0 ELSE 1)
CompiledLines(n) == 1 .. n \ ReportedLines

Counted ==
  /\ pc = "Get" => line = 0 /\ printed = <<>> /\ log = <<>> /\ DOMAIN module = {}
  /\ \A k \in ReportedLines : k <= line /\ (pc \in {"Line", "Expr", "Body"} => k < line)
  /\ pc = "Undefined" => line \in ReportedLines
  /\ IsInjective(printed)
  /\ DOMAIN module = ToSet(printed) \cup (IF Building THEN {NameOf(line)} ELSE {})
  /\ Building => NameOf(line) \notin ToSet(printed)
  /\ pc # "Get" /\ pc # "Crashed" => Len(printed) = Cardinality(CompiledLines(Passed))

LEMMA CompiledIs ==
  ASSUME Types, NEW n \in Int
  PROVE  /\ Compiled(n) = CompiledLines(n)
         /\ \A k \in ReportedLines : k \in Nat
         /\ IsFiniteSet(CompiledLines(n)) /\ Cardinality(CompiledLines(n)) \in Nat
<1> DEFINE R == Reported
<1>1. log \in Seq(R)
  BY DEF Types
<1>2. ASSUME NEW j \in 1 .. Len(log) PROVE log[j].line \in Nat
  <2>1. log[j] \in R
    <3> HIDE DEF R
    <3> QED
      BY <1>1, ElementOfSeq
  <2> DEFINE l == Len(mod.lines)
  <2>2. log[j].line \in 0 .. l
    BY <2>1 DEF Reported
  <2> HIDE DEF l
  <2> QED
    BY <2>2
<1> HIDE DEF R
<1>3. DOMAIN log = 1 .. Len(log)
  BY <1>1, LenProperties
<1>4. \A k \in ReportedLines : k \in Nat
  BY <1>2 DEF ReportedLines
<1>5. Compiled(n) = CompiledLines(n)
  <2>1. Rejected(n) = ReportedLines \cap 0 .. n
    BY <1>3 DEF Rejected, ReportedLines
  <2> QED
    BY <2>1 DEF Compiled, CompiledLines
<1>6. IsFiniteSet(1 .. n)
  BY FS_Interval
<1>7. CompiledLines(n) \in SUBSET (1 .. n)
  BY DEF CompiledLines
<1>8. IsFiniteSet(CompiledLines(n))
  BY <1>6, <1>7, FS_Subset
<1>9. Cardinality(CompiledLines(n)) \in Nat
  BY <1>8, FS_CardinalityType
<1> QED
  BY <1>4, <1>5, <1>8, <1>9

\* One more report is one more line reported.
LEMMA ReportAdds ==
  ASSUME Types, NEW e \in Error, line \in 0 .. Len(mod.lines), Report(e)
  PROVE  ReportedLines' = ReportedLines \cup {line}
<1> DEFINE r == [line |-> line, error |-> e]
           R == Reported
<1>1. r \in R /\ log \in Seq(R) /\ log' = Append(log, r) /\ r.line = line
  BY DEF Reported, Types, Report
<1> HIDE DEF r, R
<1> DEFINE n == Len(log)
<1>2. /\ n \in Nat /\ Len(log') = n + 1 /\ log'[n + 1] = r
      /\ \A i \in 1 .. n : log'[i] = log[i]
  BY <1>1, LenProperties, AppendLast
<1> HIDE DEF n
<1>3. \A i \in 1 .. n + 1 : i \in 1 .. n \/ i = n + 1
  BY <1>2
<1>4. (\A i \in 1 .. n : i \in 1 .. n + 1) /\ n + 1 \in 1 .. n + 1
  BY <1>2
<1> DEFINE Old == {log[j].line : j \in 1 .. n}
           New == {log'[j].line : j \in 1 .. n + 1}
<1>5. New = Old \cup {line}
  BY <1>1, <1>2, <1>3, <1>4
<1>6. ReportedLines = Old /\ ReportedLines' = New
  BY <1>2 DEF ReportedLines, n
<1> QED
  BY <1>5, <1>6

LEMMA CountedInit == Fresh => Counted
<1> SUFFICES ASSUME Fresh PROVE Counted
  OBVIOUS
<1>1. /\ pc = "Get" /\ line = 0 /\ printed = <<>> /\ log = <<>> /\ module = <<>>
  BY DEF Fresh
<1>2. DOMAIN module = {} /\ ToSet(printed) = {} /\ IsInjective(printed)
  BY <1>1 DEF ToSet, IsInjective
<1>3. ReportedLines = {}
  <2>1. \A j \in 1 .. 0 : FALSE
    OBVIOUS
  <2> QED
    BY <1>1, <2>1 DEF ReportedLines
<1> QED
  BY <1>1, <1>2, <1>3 DEF Counted, Building

\* The module has the same functions, of the same lines and with the same arguments.
SameFunctions ==
  /\ DOMAIN module' = DOMAIN module
  /\ \A name \in DOMAIN module :
       module'[name].line = module[name].line /\ module'[name].args = module[name].args

\* A step of ExprASTtoIR reports, prints, adds and removes nothing.
LEMMA ExprIs ==
  ASSUME Inv, ExprASTtoIR
  PROVE  Rests /\ pc = "Expr" /\ pc' \in {"Expr", "Body"} /\ SameFunctions
<1>1. ASSUME NEW v, Return(v), pc = "Expr" PROVE pc' \in {"Expr", "Body"}
  BY <1>1, Zenon DEF Return
<1>2. ASSUME NEW instrs, Emit(instrs), pc = "Expr"
      PROVE  pc' \in {"Expr", "Body"} /\ SameFunctions
  <2> DEFINE nm == NameOf(insert)
             F == module[nm]
             g == [F EXCEPT !.code = @ \o instrs]
  <2>1. module' = [module EXCEPT ![nm] = g] /\ Return(Value("instr", insert, Len(F.code) + Len(instrs)))
    BY <1>2, Zenon DEF Emit, NameOf
  <2>2. nm \in DOMAIN module /\ FunctionOK(F)
    BY <1>2 DEF Inv, Positions, Building, Types
  <2> HIDE DEF F
  <2>3. g.line = F.line /\ g.args = F.args
    <3> DEFINE c == F.code \o instrs
    <3>1. F = [line |-> F.line, args |-> F.args, entry |-> F.entry, code |-> F.code, value |-> F.value]
      BY <2>2 DEF FunctionOK
    <3> HIDE DEF c
    <3>2. \A a, b, x, y, e, z :
            LET r == [[line |-> a, args |-> b, entry |-> x, code |-> y, value |-> e] EXCEPT !.code = z]
            IN  r.line = a /\ r.args = b
      OBVIOUS
    <3>3. LET r == [F EXCEPT !.code = c] IN r.line = F.line /\ r.args = F.args
      BY <3>1, <3>2, Zenon
    <3> QED
      BY <3>3 DEF c
  <2> HIDE DEF nm, g
  <2>4. SameFunctions
    BY <2>1, <2>2, <2>3 DEF SameFunctions, F
  <2> QED
    BY <1>1, <1>2, <2>1, <2>4
<1>3. CASE NumberExprASTtoIR \/ VariableExprASTtoIR \/ BinaryOperand \/ BinaryFailed
           \/ CallRejected \/ CallArgument \/ CallFailed
  <2>1. Rest /\ pc = "Expr" /\ module' = module /\ (pc' = pc \/ \E v : Return(v))
    BY <1>3, Zenon DEF NumberExprASTtoIR, VariableExprASTtoIR, BinaryOperand, BinaryFailed,
                       CallRejected, CallArgument, CallFailed, Visit, At
  <2> QED
    BY <1>1, <2>1 DEF Rest, Rests, SameFunctions
<1>4. CASE BinaryOperation
  <2>1. Rest /\ pc = "Expr" /\ ((module' = module /\ \E v : Return(v)) \/ \E instrs : Emit(instrs))
    BY <1>4, Zenon DEF BinaryOperation, At
  <2> QED
    BY <1>1, <1>2, <2>1 DEF Rest, Rests, SameFunctions
<1>5. CASE CreateCall
  <2>1. Rest /\ pc = "Expr" /\ \E instrs : Emit(instrs)
    BY <1>5, Zenon DEF CreateCall, At
  <2> QED
    BY <1>2, <2>1 DEF Rest, Rests
<1> QED
  BY <1>3, <1>4, <1>5 DEF ExprASTtoIR

\* Line l is compiled, or it is reported: one compiled line more, or as many as before.
LEMMA OneLineMore ==
  ASSUME NEW R, NEW l \in Nat, l >= 1
  PROVE  /\ 1 .. l \ (R \cup {l}) = 1 .. (l - 1) \ R
         /\ l \notin R =>
              /\ IsFiniteSet(1 .. l \ R)
              /\ Cardinality(1 .. l \ R) = Cardinality(1 .. (l - 1) \ R) + 1
<1> DEFINE Before == 1 .. (l - 1) \ R
<1>1. 1 .. l = 1 .. (l - 1) \cup {l} /\ l \notin 1 .. (l - 1)
  OBVIOUS
<1>2. 1 .. l \ (R \cup {l}) = Before
  BY <1>1
<1>3. l \notin R => 1 .. l \ R = Before \cup {l} /\ l \notin Before
  BY <1>1
<1>4. IsFiniteSet(Before)
  <2>1. IsFiniteSet(1 .. (l - 1))
    BY FS_Interval
  <2>2. Before \in SUBSET (1 .. (l - 1))
    OBVIOUS
  <2> QED
    BY <2>1, <2>2, FS_Subset
<1> HIDE DEF Before
<1>5. l \notin Before => IsFiniteSet(Before \cup {l}) /\ Cardinality(Before \cup {l}) = Cardinality(Before) + 1
  BY <1>4, FS_AddElement
<1>6. l \notin R => /\ IsFiniteSet(1 .. l \ R)
                    /\ Cardinality(1 .. l \ R) = Cardinality(Before) + 1
  BY <1>3, <1>5, Zenon
<1> QED
  BY <1>2, <1>6, Zenon DEF Before

\* A line that is given up is reported, and leaves nothing behind.
LEMMA CountedReport ==
  ASSUME Inv, Counted, NEW e \in Error, Report(e), line \in 1 .. Len(mod.lines),
         pc \in {"Line", "Expr", "Body"},
         mod' = mod, line' = line, printed' = printed, DOMAIN module' = ToSet(printed)
  PROVE  Counted'
<1> DEFINE l == Len(mod.lines)
<1>0. Types /\ l \in Nat
  BY ProgramIs DEF Inv
<1> HIDE DEF l
<1>1. line \in Nat /\ line >= 1 /\ line \in 0 .. l
  BY <1>0 DEF l
<1>2. ReportedLines' = ReportedLines \cup {line} /\ pc' = "Undefined"
  BY <1>0, <1>1, ReportAdds DEF l, Report
<1>3. \A k \in ReportedLines : k < line
  BY DEF Counted
<1>4. \A k \in ReportedLines : k \in Nat
  BY <1>0, CompiledIs
<1>5. \A k \in ReportedLines \cup {line} : k <= line
  BY <1>1, <1>3, <1>4
<1>6. Passed = line - 1 /\ Passed' = line
  BY <1>1, <1>2 DEF Passed
<1>7. Len(printed) = Cardinality(1 .. (line - 1) \ ReportedLines)
  BY <1>6 DEF Counted, CompiledLines
<1>8. 1 .. line \ (ReportedLines \cup {line}) = 1 .. (line - 1) \ ReportedLines
  BY <1>1, OneLineMore
<1>9. Len(printed') = Cardinality(CompiledLines(Passed))'
  <2>1. CompiledLines(Passed)' = 1 .. line \ (ReportedLines \cup {line})
    BY <1>2, <1>6 DEF CompiledLines
  <2> QED
    BY <1>7, <1>8, <2>1
<1> QED
  BY <1>2, <1>5, <1>9 DEF Counted, Building

LEMMA CountedNext == Inv /\ Counted /\ [Next]_vars => Counted'
<1> SUFFICES ASSUME Inv, Counted, [Next]_vars PROVE Counted'
  OBVIOUS
<1> DEFINE l == Len(mod.lines)
           nm == NameOf(line)
<1>0. Types /\ IsProgram(mod) /\ l \in Nat /\ line \in 0 .. l + 1
  BY ProgramIs DEF Inv, Types
<1> HIDE DEF l, nm
<1>a. line \in Nat /\ Passed \in Int /\ line - 1 \in Int /\ 0 \in Int
  BY <1>0 DEF Passed
<1>1. CASE ParserResult
  <2>1. /\ pc = "Get" /\ line = 0 /\ printed = <<>> /\ log = <<>> /\ DOMAIN module = {}
        /\ printed' = printed /\ module' = module /\ mod' = mod
    BY <1>1 DEF ParserResult, Counted
  <2>2. ToSet(printed) = {} /\ Len(printed) = 0 /\ IsInjective(printed) /\ ReportedLines = {}
    <3>1. \A j \in 1 .. 0 : FALSE
      OBVIOUS
    <3>2. Len(log) = 0 /\ Len(printed) = 0
      BY <2>1
    <3> QED
      BY <2>1, <3>1, <3>2 DEF ReportedLines, ToSet, IsInjective
  <2>3. 1 .. 0 = {} /\ Cardinality({}) = 0
    BY FS_EmptySet
  <2>4. CASE mod.ok
    <3>1. pc' = "Line" /\ line' = 1 /\ log' = log
      BY <1>1, <2>4 DEF ParserResult
    <3>p. Passed' = 0
      BY <3>1 DEF Passed
    <3>r. ReportedLines' = ReportedLines
      BY <3>1 DEF ReportedLines
    <3>2. ReportedLines' = {} /\ Passed' = 0
      BY <2>2, <3>p, <3>r
    <3>3. CompiledLines(Passed)' = {}
      BY <2>3, <3>2 DEF CompiledLines
    <3> QED
      BY <2>1, <2>2, <2>3, <3>1, <3>2, <3>3 DEF Counted, Building
  <2>5. CASE ~mod.ok
    <3>1. Report("parser error") /\ line' = line /\ pc' = "Undefined"
      BY <1>1, <2>5 DEF ParserResult, Report
    <3>2. "parser error" \in Error
      BY DEF Error
    <3>3. line \in 0 .. l
      BY <1>0, <2>1
    <3>4. ReportedLines' = {0}
      BY <1>0, <2>1, <2>2, <3>1, <3>2, <3>3, ReportAdds DEF l
    <3>z. \A k \in {0} : k <= 0
      OBVIOUS
    <3>0. line' = 0 /\ pc' = "Undefined" /\ 0 \in {0}
      BY <2>1, <3>1, Zenon
    <3>5. Passed' = 0
      BY <3>0 DEF Passed
    <3>6. CompiledLines(Passed)' = {}
      BY <2>3, <3>5 DEF CompiledLines
    <3> QED
      BY <2>1, <2>2, <2>3, <3>z, <3>0, <3>1, <3>4, <3>6, Zenon DEF Counted, Building
  <2> QED
    BY <2>4, <2>5
<1>2. CASE Crash \/ GoOn \/ LinesDone
  <2>1. /\ printed' = printed /\ module' = module /\ mod' = mod /\ log' = log
        /\ pc \in {"Line", "Undefined"} /\ pc' \in {"Line", "Done", "Crashed"}
        /\ pc' = "Line" => pc = "Undefined" /\ line' = line + 1
        /\ pc' = "Done" => pc = "Line" /\ line' = line
        /\ line' = line \/ line' = line + 1
    BY <1>2 DEF Crash, GoOn, LinesDone
  <2>2. ReportedLines' = ReportedLines
    BY <2>1 DEF ReportedLines
  <2>3. \A k \in ReportedLines : k \in Nat /\ k <= line
    BY <1>0, <1>a, CompiledIs DEF Counted
  <2>4. \A k \in ReportedLines : k <= line' /\ (pc' = "Line" => k < line')
    BY <1>a, <2>1, <2>3
  <2>5. pc' # "Crashed" => Passed' = Passed
    BY <1>a, <2>1 DEF Passed
  <2>6. pc' # "Crashed" => CompiledLines(Passed)' = CompiledLines(Passed)
    BY <2>2, <2>5 DEF CompiledLines
  <2> QED
    BY <2>1, <2>2, <2>4, <2>6 DEF Counted, Building
<1>3. CASE BeginFunction
  <2>1. /\ pc = "Line" /\ mod' = mod /\ line' = line /\ printed' = printed
        /\ DOMAIN module = ToSet(printed)
    BY <1>3 DEF BeginFunction, Counted, Building
  <2>2. line \in 1 .. l
    <3>1. line <= l /\ line >= 1
      BY <1>3, <2>1 DEF BeginFunction, Inv, Positions, l
    <3> QED
      BY <1>0, <3>1
  <2>3. \/ Report("cannot be redefined") /\ module' = module
        \/ nm \notin DOMAIN module /\ pc' = "Expr" /\ log' = log /\ DOMAIN module' = DOMAIN module \cup {nm}
    <3> DEFINE F == IF nm \in DOMAIN module THEN module[nm] ELSE PrototypeASTtoIR(mod.lines[line].Proto)
               g == [F EXCEPT !.entry = TRUE]
    <3>1. \/ Report("cannot be redefined") /\ module' = module
          \/ ~hasBody(F) /\ pc' = "Expr" /\ log' = log /\ module' = With(module, nm, g)
      BY <1>3, Zenon DEF BeginFunction, nm, NameOf
    <3>2. nm \in DOMAIN module => hasBody(F)
      BY DEF Inv, EachFinished, hasBody
    <3> HIDE DEF g, F
    <3> QED
      BY <3>1, <3>2 DEF With
  <2>4. CASE Report("cannot be redefined") /\ module' = module
    <3>1. "cannot be redefined" \in Error
      BY DEF Error
    <3> QED
      BY <2>1, <2>2, <2>4, <3>1, CountedReport DEF l
  <2>5. CASE nm \notin DOMAIN module /\ pc' = "Expr" /\ log' = log /\ DOMAIN module' = DOMAIN module \cup {nm}
    <3>1. ReportedLines' = ReportedLines /\ NameOf(line)' = nm
      BY <2>1, <2>5 DEF ReportedLines, NameOf, nm
    <3>2. Passed' = Passed
      BY <2>1, <2>5 DEF Passed
    <3>3. CompiledLines(Passed)' = CompiledLines(Passed)
      BY <3>1, <3>2 DEF CompiledLines
    <3> QED
      BY <2>1, <2>5, <3>1, <3>3 DEF Counted, Building
  <2> QED
    BY <2>3, <2>4, <2>5
<1>4. CASE FinishFunction
  <2>1. /\ pc = "Body" /\ Building /\ pc' = "Line" /\ mod' = mod /\ line' = line + 1 /\ log' = log
        /\ printed' = Append(printed, nm) /\ DOMAIN module' = DOMAIN module
    BY <1>4 DEF FinishFunction, Building, nm, NameOf
  <2>2. /\ nm \notin ToSet(printed) /\ nm \in DOMAIN module /\ nm \in Names /\ printed \in Seq(Names)
        /\ line >= 1
    <3>1. line \in 1 .. l /\ nm \in DOMAIN module
      BY <2>1 DEF Inv, Positions, l, nm
    <3>2. line >= 1
      BY <1>0, <3>1
    <3> QED
      BY <1>0, <2>1, <3>1, <3>2 DEF Counted, Types, nm
  <2>3. /\ ToSet(printed') = ToSet(printed) \cup {nm} /\ IsInjective(printed')
        /\ Len(printed') = Len(printed) + 1
    BY <2>1, <2>2, AppendSet, AppendLast DEF Counted
  <2>4. ReportedLines' = ReportedLines /\ Passed = line - 1 /\ Passed' = line
    BY <1>a, <2>1 DEF ReportedLines, Passed
  <2>5. \A k \in ReportedLines : k < line /\ k \in Nat
    BY <1>0, <1>a, <2>1, CompiledIs DEF Counted
  <2>6. line \notin ReportedLines /\ \A k \in ReportedLines : k <= line + 1 /\ k < line + 1
    BY <1>a, <2>5
  <2>7. Cardinality(1 .. line \ ReportedLines) = Cardinality(1 .. (line - 1) \ ReportedLines) + 1
    BY <1>a, <2>2, <2>6, OneLineMore
  <2>8. Len(printed) = Cardinality(1 .. (line - 1) \ ReportedLines)
    BY <2>1, <2>4 DEF Counted, CompiledLines
  <2>9. CompiledLines(Passed)' = 1 .. line \ ReportedLines
    BY <2>4 DEF CompiledLines
  <2>10. Len(printed') = Cardinality(CompiledLines(Passed))'
    BY <2>3, <2>7, <2>8, <2>9
  <2>11. DOMAIN module = ToSet(printed) \cup {nm}
    BY <2>1 DEF Counted, nm
  <2> QED
    BY <2>1, <2>3, <2>4, <2>6, <2>10, <2>11 DEF Counted, Building
<1>5. CASE RemoveFunction
  <2>1. /\ pc = "Body" /\ Building /\ mod' = mod /\ line' = line /\ printed' = printed
        /\ Report(ret.kind) /\ ret.kind \in Error /\ module' = eraseFromParent(nm)
    BY <1>5 DEF RemoveFunction, Building, nm, NameOf, Failed
  <2>2. line \in 1 .. l
    BY <2>1 DEF Inv, Positions, l
  <2>3. DOMAIN module = ToSet(printed) \cup {nm} /\ nm \notin ToSet(printed)
    BY <2>1 DEF Counted, nm
  <2>4. DOMAIN module' = ToSet(printed)
    BY <2>1, <2>3 DEF eraseFromParent
  <2> QED
    BY <2>1, <2>2, <2>4, CountedReport DEF l
<1>6. CASE ExprASTtoIR
  <2>1. Rests /\ pc = "Expr" /\ pc' \in {"Expr", "Body"} /\ DOMAIN module' = DOMAIN module
    BY <1>6, ExprIs DEF SameFunctions
  <2>2. ReportedLines' = ReportedLines /\ Passed' = Passed /\ NameOf(line)' = nm
    BY <2>1 DEF ReportedLines, Passed, Rests, NameOf, nm
  <2>3. CompiledLines(Passed)' = CompiledLines(Passed)
    BY <2>2 DEF CompiledLines
  <2> QED
    BY <2>1, <2>2, <2>3 DEF Counted, Building, Rests, nm
<1>7. CASE UNCHANGED vars
  <2>1. /\ printed' = printed /\ module' = module /\ mod' = mod /\ log' = log /\ pc' = pc /\ line' = line
    BY <1>7 DEF vars
  <2>2. ReportedLines' = ReportedLines /\ Passed' = Passed /\ NameOf(line)' = nm
    BY <2>1 DEF ReportedLines, Passed, NameOf, nm
  <2>3. CompiledLines(Passed)' = CompiledLines(Passed)
    BY <2>2 DEF CompiledLines
  <2> QED
    BY <2>1, <2>2, <2>3 DEF Counted, Building, nm
<1> QED
  BY <1>1, <1>2, <1>3, <1>4, <1>5, <1>6, <1>7 DEF Next, Terminated

\* Between two lines the module holds exactly the functions printed, finished, each
\* name once, one for each line so far that was not reported.
THEOREM ModuleMatchesPrinted == Spec => []ModuleIsWhatWasPrinted
<1>1. Inv /\ Counted => ModuleIsWhatWasPrinted
  <2> SUFFICES ASSUME Inv, Counted, pc \in {"Line", "Undefined", "Done"}
               PROVE  /\ DOMAIN module = ToSet(printed) /\ IsInjective(printed)
                      /\ \A name \in DOMAIN module : module[name].value # Null
                      /\ Len(printed) = Cardinality(Compiled(Passed))
    BY DEF ModuleIsWhatWasPrinted, Passed
  <2>1. Types /\ Passed \in Int
    <3>1. Types /\ Len(mod.lines) \in Nat /\ line \in 0 .. Len(mod.lines) + 1
      BY ProgramIs DEF Inv, Types
    <3> DEFINE l == Len(mod.lines)
    <3> HIDE DEF l
    <3>2. line \in 0 .. l + 1 /\ l \in Nat
      BY <3>1 DEF l
    <3>3. Passed \in Int
      BY <3>2 DEF Passed
    <3> QED
      BY <3>1, <3>3
  <2>2. Compiled(Passed) = CompiledLines(Passed)
    BY <2>1, CompiledIs
  <2>3. ~Building
    BY DEF Building
  <2>4. \A name \in DOMAIN module : module[name].value # Null
    BY <2>3 DEF Inv, EachFinished
  <2> QED
    BY <2>2, <2>3, <2>4 DEF Counted
<1>2. Init => Counted
  BY CountedInit DEF Init, Fresh
<1> QED
  BY <1>1, <1>2, Invariant, CountedNext, PTL DEF Spec

-----------------------------------------------------------------------------
(***************************************************************************)
(* The order of what is printed                                            *)
(***************************************************************************)
\* A line that was compiled was printed after the compiled lines before it; all lines were
\* passed in the end; and if there are none because of an error, the error was reported.
Place(i) == Cardinality(CompiledLines(i))
PrintedOrder ==
  /\ ~mod.ok /\ pc # "Get" => 0 \in ReportedLines
  /\ pc = "Done" => line > Len(mod.lines)
  /\ pc # "Get" /\ pc # "Crashed" => \A i \in CompiledLines(Passed) : printed[Place(i)] = NameOf(i)

OrderInv == Counted /\ PrintedOrder

LEMMA OrderInit == Fresh => OrderInv
BY CountedInit DEF Fresh, OrderInv, PrintedOrder

\* A line that was compiled is one of those printed.
LEMMA PlaceIs ==
  ASSUME Types, Passed \in Int, NEW i \in CompiledLines(Passed),
         Len(printed) = Cardinality(CompiledLines(Passed))
  PROVE  Place(i) \in 1 .. Len(printed)
<1> DEFINE C == CompiledLines(i)
           D == CompiledLines(Passed)
<1>1. i \in Nat /\ i >= 1 /\ i <= Passed /\ i \notin ReportedLines
  BY DEF CompiledLines
<1>2. i \in C /\ C \in SUBSET D
  BY <1>1 DEF CompiledLines
<1>3. IsFiniteSet(C) /\ Cardinality(C) \in Nat /\ IsFiniteSet(D) /\ Cardinality(D) \in Nat
  BY <1>1, CompiledIs
<1> HIDE DEF C, D
<1>4. Cardinality(C) <= Cardinality(D)
  BY <1>2, <1>3, FS_Subset
<1>5. Cardinality(C) # 0
  BY <1>2, <1>3, FS_EmptySet
<1> DEFINE n == Len(printed)
           m == Cardinality(C)
<1>6. m \in Nat /\ n \in Nat /\ m <= n /\ m # 0
  BY <1>3, <1>4, <1>5 DEF D
<1>7. Place(i) = m
  BY DEF Place, C
<1> HIDE DEF n, m
<1> QED
  BY <1>6, <1>7 DEF n

\* The lines passed by a step that prints nothing are those before, or one that is reported.
LEMMA OrderSame ==
  ASSUME Inv, Counted, Counted', PrintedOrder, mod' = mod, printed' = printed,
         pc # "Get" /\ pc # "Crashed",
         \/ ReportedLines' = ReportedLines /\ Passed' = Passed
         \/ /\ ReportedLines' = ReportedLines \cup {line}
            /\ Passed = line - 1 /\ Passed' = line /\ line \in 1 .. Len(mod.lines)
  PROVE  \A i \in CompiledLines(Passed)' : printed'[Place(i)'] = NameOf(i)'
<1>1. ASSUME NEW i \in CompiledLines(Passed)' PROVE i \in CompiledLines(Passed) /\ Place(i)' = Place(i)
  <2>1. CASE ReportedLines' = ReportedLines /\ Passed' = Passed
    BY <2>1 DEF CompiledLines, Place
  <2>2. CASE /\ ReportedLines' = ReportedLines \cup {line}
             /\ Passed = line - 1 /\ Passed' = line /\ line \in 1 .. Len(mod.lines)
    <3>1. line \in Nat
      BY <2>2
    <3>2. i \in 1 .. line /\ i # line /\ i \notin ReportedLines
      BY <2>2 DEF CompiledLines
    <3>3. i \in 1 .. line - 1 /\ line \notin 1 .. i
      BY <3>1, <3>2
    <3>4. CompiledLines(i)' = CompiledLines(i)
      BY <2>2, <3>3 DEF CompiledLines
    <3> QED
      BY <2>2, <3>2, <3>3, <3>4 DEF CompiledLines, Place
  <2> QED
    BY <2>1, <2>2
<1>2. \A i : NameOf(i)' = NameOf(i)
  BY DEF NameOf
<1>3. \A i \in CompiledLines(Passed) : printed[Place(i)] = NameOf(i)
  BY DEF PrintedOrder
<1> QED
  BY <1>1, <1>2, <1>3

\* A function that is printed comes after all those printed before.
LEMMA OrderFinish == ASSUME Inv, OrderInv, Counted', FinishFunction PROVE PrintedOrder'
<1> DEFINE l == Len(mod.lines)
           nm == NameOf(line)
           R == ReportedLines
<1>0. Types /\ IsProgram(mod) /\ l \in Nat /\ printed \in Seq(Names)
  BY ProgramIs DEF Inv, Types
<1>1. /\ pc = "Body" /\ Building /\ pc' = "Line" /\ mod' = mod /\ line' = line + 1 /\ log' = log
      /\ printed' = Append(printed, nm)
  BY DEF FinishFunction, Building, nm, NameOf
<1>2. line \in 1 .. l /\ nm \in DOMAIN module
  BY <1>1 DEF Inv, Positions
<1>3. line \in Nat /\ line >= 1 /\ nm \in Names
  BY <1>0, <1>2 DEF Types
<1>4. R' = R /\ Passed = line - 1 /\ Passed' = line
  BY <1>1, <1>3 DEF ReportedLines, Passed
<1>5. line \notin R
  <2>1. \A k \in R : k < line /\ k \in Nat
    BY <1>0, <1>1, <1>3, CompiledIs DEF OrderInv, Counted
  <2> QED
    BY <1>3, <2>1
<1>6. Len(printed) = Cardinality(CompiledLines(Passed))
  BY <1>1 DEF OrderInv, Counted
<1> DEFINE n == Len(printed)
<1>7. /\ n \in Nat /\ printed'[n + 1] = nm /\ \A i \in 1 .. n : printed'[i] = printed[i]
  BY <1>0, <1>1, <1>3, AppendLast, LenProperties
<1>8. \A i : CompiledLines(i)' = CompiledLines(i) /\ Place(i)' = Place(i) /\ NameOf(i)' = NameOf(i)
  BY <1>1, <1>4 DEF CompiledLines, Place, NameOf
<1>9. Place(line) = n + 1
  <2>1. Cardinality(1 .. line \ R) = Cardinality(1 .. (line - 1) \ R) + 1
    BY <1>3, <1>5, OneLineMore
  <2> QED
    BY <1>4, <1>6, <2>1 DEF Place, CompiledLines
<1>10. ASSUME NEW i \in CompiledLines(line) PROVE printed'[Place(i)] = NameOf(i)
  <2>1. CASE i = line
    BY <1>7, <1>9, <2>1
  <2>2. CASE i # line
    <3>1. i \in CompiledLines(Passed)
      <4>1. i \in 1 .. line /\ i \notin R
        BY DEF CompiledLines
      <4>2. i \in 1 .. (line - 1)
        BY <1>3, <2>2, <4>1
      <4> QED
        BY <1>4, <4>1, <4>2 DEF CompiledLines
    <3>2. Passed \in Int
      BY <1>3, <1>4
    <3>3. Place(i) \in 1 .. n
      BY <1>0, <1>6, <3>1, <3>2, PlaceIs
    <3>4. printed[Place(i)] = NameOf(i)
      BY <1>1, <3>1 DEF OrderInv, PrintedOrder
    <3> QED
      BY <1>7, <3>3, <3>4
  <2> QED
    BY <2>1, <2>2
<1>11. CompiledLines(Passed)' = CompiledLines(line)
  BY <1>4 DEF CompiledLines
<1>12. ~mod.ok => 0 \in R
  BY <1>1 DEF OrderInv, PrintedOrder
<1> HIDE DEF R, nm, n, l
<1> QED
  BY <1>1, <1>4, <1>8, <1>10, <1>11, <1>12 DEF PrintedOrder, R

LEMMA OrderNext == Inv /\ OrderInv /\ [Next]_vars => OrderInv'
<1> SUFFICES ASSUME Inv, OrderInv, [Next]_vars PROVE OrderInv'
  OBVIOUS
<1> DEFINE l == Len(mod.lines)
<1>0. Types /\ l \in Nat /\ line \in 0 .. l + 1
  BY ProgramIs DEF Inv, Types
<1>c. Counted /\ Counted'
  BY CountedNext DEF OrderInv
<1> HIDE DEF l
<1>a. line \in Nat
  BY <1>0
\* a step that prints nothing
<1>s. ASSUME mod' = mod, printed' = printed, pc # "Get", pc # "Crashed",
             \/ ReportedLines' = ReportedLines /\ Passed' = Passed
             \/ /\ ReportedLines' = ReportedLines \cup {line}
                /\ Passed = line - 1 /\ Passed' = line /\ line \in 1 .. Len(mod.lines),
             pc' = "Done" => line' > Len(mod.lines)
      PROVE  PrintedOrder'
  <2>1. \A i \in CompiledLines(Passed)' : printed'[Place(i)'] = NameOf(i)'
    BY <1>s, <1>c, OrderSame DEF OrderInv
  <2>2. ~mod'.ok => 0 \in ReportedLines'
    BY <1>s DEF OrderInv, PrintedOrder
  <2>3. (\A i \in CompiledLines(Passed) : printed[Place(i)] = NameOf(i))'
    BY <2>1
  <2>4. (~mod.ok /\ pc # "Get" => 0 \in ReportedLines)' /\ (pc = "Done" => line > Len(mod.lines))'
    BY <1>s, <2>2
  <2> QED
    BY <2>3, <2>4 DEF PrintedOrder
<1>r. ASSUME NEW e \in Error, Report(e), line \in 1 .. Len(mod.lines), mod' = mod, line' = line, printed' = printed,
             pc \in {"Line", "Body"}
      PROVE  PrintedOrder'
  <2>1. ReportedLines' = ReportedLines \cup {line} /\ pc' = "Undefined"
    <3>1. line \in 0 .. l
      BY <1>r, <1>0 DEF l
    <3> QED
      BY <1>0, <1>r, <3>1, ReportAdds DEF l, Report
  <2>2. Passed = line - 1 /\ Passed' = line
    BY <1>a, <1>r, <2>1 DEF Passed
  <2> QED
    BY <1>r, <1>s, <2>1, <2>2
<1>1. CASE ParserResult
  <2>1. pc = "Get" /\ line = 0 /\ log = <<>> /\ mod' = mod
    BY <1>1, <1>c DEF ParserResult, Counted
  <2>2. CASE mod.ok
    <3>1. pc' = "Line" /\ line' = 1
      BY <1>1, <2>2 DEF ParserResult
    <3>2. Passed' = 0
      BY <3>1 DEF Passed
    <3>3. CompiledLines(Passed)' = {}
      <4>1. 1 .. 0 = {}
        OBVIOUS
      <4> QED
        BY <3>2, <4>1 DEF CompiledLines
    <3> QED
      BY <1>c, <2>1, <2>2, <3>1, <3>3 DEF PrintedOrder, OrderInv
  <2>3. CASE ~mod.ok
    <3>1. Report("parser error") /\ line' = line /\ pc' = "Undefined"
      BY <1>1, <2>3 DEF ParserResult, Report
    <3>2. "parser error" \in Error /\ line \in 0 .. l
      BY <1>0, <2>1 DEF Error
    <3>3. 0 \in ReportedLines'
      BY <1>0, <2>1, <3>1, <3>2, ReportAdds DEF l
    <3>0. line' = 0 /\ pc' = "Undefined"
      BY <2>1, <3>1, Zenon
    <3>4. Passed' = 0
      BY <3>0 DEF Passed
    <3>5. CompiledLines(Passed)' = {}
      <4>1. 1 .. 0 = {}
        OBVIOUS
      <4> QED
        BY <3>4, <4>1 DEF CompiledLines
    <3> QED
      BY <1>c, <3>0, <3>3, <3>5 DEF PrintedOrder, OrderInv
  <2> QED
    BY <1>c, <2>2, <2>3 DEF OrderInv
<1>2. CASE Crash
  <2>1. pc = "Undefined" /\ pc' = "Crashed" /\ mod' = mod /\ log' = log
    BY <1>2 DEF Crash
  <2>2. ReportedLines' = ReportedLines
    BY <2>1 DEF ReportedLines
  <2> QED
    BY <1>c, <2>1, <2>2 DEF PrintedOrder, OrderInv
<1>3. CASE GoOn \/ LinesDone
  <2>1. /\ printed' = printed /\ mod' = mod /\ log' = log
        /\ \/ pc = "Undefined" /\ pc' = "Line" /\ line' = line + 1
           \/ pc = "Line" /\ pc' = "Done" /\ line' = line /\ line > Len(mod.lines)
    BY <1>3 DEF GoOn, LinesDone
  <2>2. ReportedLines' = ReportedLines
    BY <2>1 DEF ReportedLines
  <2>3. Passed' = Passed
    BY <1>a, <2>1 DEF Passed
  <2> QED
    BY <1>c, <1>s, <2>1, <2>2, <2>3 DEF OrderInv
<1>4. CASE BeginFunction
  <2>1. /\ pc = "Line" /\ mod' = mod /\ line' = line /\ printed' = printed /\ line <= Len(mod.lines)
        /\ Report("cannot be redefined") \/ (pc' = "Expr" /\ log' = log)
    BY <1>4, Zenon DEF BeginFunction
  <2>2. line \in 1 .. Len(mod.lines)
    <3>1. line >= 1 /\ line <= l
      BY <2>1 DEF Inv, Positions, l
    <3>2. line \in 1 .. l
      BY <1>0, <3>1
    <3> QED
      BY <3>2 DEF l
  <2>3. CASE Report("cannot be redefined")
    <3>1. "cannot be redefined" \in Error
      BY DEF Error
    <3> QED
      BY <1>c, <1>r, <2>1, <2>2, <2>3, <3>1 DEF OrderInv
  <2>4. CASE pc' = "Expr" /\ log' = log
    <3>1. ReportedLines' = ReportedLines /\ Passed' = Passed
      BY <2>1, <2>4 DEF ReportedLines, Passed
    <3> QED
      BY <1>c, <1>s, <2>1, <2>4, <3>1 DEF OrderInv
  <2> QED
    BY <2>1, <2>3, <2>4
<1>5. CASE FinishFunction
  BY <1>5, <1>c, OrderFinish DEF OrderInv
<1>6. CASE RemoveFunction
  <2>1. /\ pc = "Body" /\ mod' = mod /\ line' = line /\ printed' = printed
        /\ Report(ret.kind) /\ ret.kind \in Error
    BY <1>6 DEF RemoveFunction, Failed
  <2>2. line \in 1 .. Len(mod.lines)
    BY <2>1 DEF Inv, Positions, Building
  <2> QED
    BY <1>c, <1>r, <2>1, <2>2 DEF OrderInv
<1>7. CASE ExprASTtoIR
  <2>1. Rests /\ pc = "Expr" /\ pc' \in {"Expr", "Body"}
    BY <1>7, ExprIs
  <2>2. ReportedLines' = ReportedLines /\ Passed' = Passed
    BY <2>1 DEF ReportedLines, Passed, Rests
  <2> QED
    BY <1>c, <1>s, <2>1, <2>2 DEF Rests, OrderInv
<1>8. CASE UNCHANGED vars
  <2>1. /\ printed' = printed /\ mod' = mod /\ log' = log /\ pc' = pc /\ line' = line
    BY <1>8 DEF vars
  <2>2. ReportedLines' = ReportedLines /\ Passed' = Passed
    BY <2>1 DEF ReportedLines, Passed
  <2>3. \A i : CompiledLines(i)' = CompiledLines(i) /\ Place(i)' = Place(i) /\ NameOf(i)' = NameOf(i)
    BY <2>1, <2>2 DEF CompiledLines, Place, NameOf
  <2>4. CompiledLines(Passed)' = CompiledLines(Passed)
    BY <2>2 DEF CompiledLines
  <2> QED
    BY <1>c, <2>1, <2>2, <2>3, <2>4 DEF OrderInv, PrintedOrder
<1> QED
  BY <1>1, <1>2, <1>3, <1>4, <1>5, <1>6, <1>7, <1>8 DEF Next, Terminated

-----------------------------------------------------------------------------
(***************************************************************************)
(* The code computes the body.  Computed is defined by recursion over the  *)
(* nodes of the AST: it is well defined because a node's kids are made     *)
(* before the node.                                                        *)
(***************************************************************************)
\* The kids of a node are nodes made before it.
LEMMA KidsAre ==
  ASSUME IsProgram(mod), NEW n \in DOMAIN mod.nodes
  PROVE  /\ DOMAIN mod.nodes = 1 .. Len(mod.nodes) /\ Len(mod.nodes) \in Nat /\ n \in Nat
         /\ Len(mod.nodes[n].kids) \in Nat /\ DOMAIN mod.nodes[n].kids = 1 .. Len(mod.nodes[n].kids)
         /\ \A i \in DOMAIN mod.nodes[n].kids : /\ mod.nodes[n].kids[i] \in 1 .. n - 1
                                                /\ mod.nodes[n].kids[i] \in DOMAIN mod.nodes
<1>1. DOMAIN mod.nodes = 1 .. Len(mod.nodes) /\ Len(mod.nodes) \in Nat
  BY ProgramIs
<1>2. n \in 1 .. Len(mod.nodes) /\ n \in Nat
  BY <1>1
<1>3. mod.nodes[n] \in Node(1 .. n - 1)
  BY <1>2 DEF IsProgram, IsNode
<1>4. mod.nodes[n].kids \in Seq(1 .. n - 1)
  BY <1>3 DEF Node
<1>5. \A k \in 1 .. n - 1 : k \in 1 .. Len(mod.nodes)
  BY <1>1, <1>2
<1> DEFINE kids == mod.nodes[n].kids
           K == 1 .. n - 1
<1> HIDE DEF kids, K
<1>6. /\ Len(kids) \in Nat /\ DOMAIN kids = 1 .. Len(kids)
      /\ \A i \in 1 .. Len(kids) : kids[i] \in K
  <2>1. kids \in Seq(K)
    BY <1>4 DEF kids, K
  <2> QED
    BY <2>1, SeqEntries, LenProperties
<1> QED
  BY <1>1, <1>2, <1>5, <1>6 DEF kids, K

\* What node n stands for depends on what its kids stand for ...
LEMMA ValueOfKids ==
  ASSUME IsProgram(mod), NEW f, NEW n \in DOMAIN mod.nodes, NEW g, NEW h, NEW v,
         \A k \in 1 .. n - 1 : g[k] \subseteq h[k],
         IsValue(f, v, n, g)
  PROVE  IsValue(f, v, n, h)
<1>1. \A i \in DOMAIN mod.nodes[n].kids : mod.nodes[n].kids[i] \in 1 .. n - 1
  BY KidsAre
<1>2. \A vals : Operands(vals, n, g) => Operands(vals, n, h)
  BY <1>1 DEF Operands
<1>3. ConstantOf(n, g) => ConstantOf(n, h)
  BY <1>1 DEF ConstantOf, ToSet
<1>4. \A i : Does(f, i, n, g) => Does(f, i, n, h)
  BY <1>2 DEF Does
<1> QED
  BY <1>3, <1>4 DEF IsValue

\* ... so that Computed is well defined.
LEMMA ComputedIs ==
  ASSUME IsProgram(mod), NEW f
  PROVE  \A n \in DOMAIN mod.nodes :
           Computed(f)[n] = {v \in ValuesOf(f) : IsValue(f, v, n, Computed(f))}
<1> DEFINE N == Len(mod.nodes)
           S == SUBSET ValuesOf(f)
           Vals(n, g) == {v \in ValuesOf(f) : IsValue(f, v, n, g)}
           step == [n \in 1 .. N |-> [g \in [1 .. N -> S] |-> Vals(n, g)]]
<1>1. N \in Nat /\ DOMAIN mod.nodes = 1 .. N
  BY ProgramIs
<1>2. ASSUME NEW n \in 1 .. N, NEW g \in [1 .. N -> S], NEW h \in [1 .. N -> S],
             \A k \in 1 .. n - 1 : g[k] = h[k]
      PROVE  Vals(n, g) = Vals(n, h)
  <2>1. (\A k \in 1 .. n - 1 : g[k] \subseteq h[k]) /\ (\A k \in 1 .. n - 1 : h[k] \subseteq g[k])
    BY <1>2
  <2>2. \A v : IsValue(f, v, n, g) <=> IsValue(f, v, n, h)
    BY <1>1, <2>1, ValueOfKids
  <2> QED
    BY <2>2
<1>3. /\ step \in [1 .. N -> [[1 .. N -> S] -> S]]
      /\ \A n \in 1 .. N : \A g \in [1 .. N -> S] : step[n][g] = Vals(n, g)
  OBVIOUS
<1>4. {} \in S
  OBVIOUS
<1> HIDE DEF N, S, Vals, step
<1>5. PICK c \in [1 .. N -> S] : \A n \in 1 .. N : c[n] = step[n][c]
  <2>1. \A n \in 1 .. N : \A g, h \in [1 .. N -> S] :
           (\A k \in 1 .. n - 1 : g[k] = h[k]) => step[n][g] = step[n][h]
    <3> SUFFICES ASSUME NEW n \in 1 .. N, NEW g \in [1 .. N -> S], NEW h \in [1 .. N -> S],
                        \A k \in 1 .. n - 1 : g[k] = h[k]
                 PROVE  step[n][g] = step[n][h]
      OBVIOUS
    <3>1. Vals(n, g) = Vals(n, h)
      BY <1>2
    <3> QED
      BY <1>3, <3>1
  <2>2. step \in Steps(N, S)
    BY <1>3, <2>1 DEF Steps
  <2> QED
    BY <1>1, <1>4, <2>2, Recursion
<1>6. c = [n \in DOMAIN mod.nodes |-> Vals(n, c)]
  BY <1>1, <1>3, <1>5
<1>7. Computed(f) = CHOOSE x : x = [n \in DOMAIN mod.nodes |-> {v \in ValuesOf(f) : IsValue(f, v, n, x)}]
  BY Zenon DEF Computed
<1>8. Computed(f) = [n \in DOMAIN mod.nodes |-> {v \in ValuesOf(f) : IsValue(f, v, n, Computed(f))}]
  BY <1>6, <1>7, Zenon DEF Vals
<1> QED
  BY <1>8

\* Whatever a node stands for is a value of the function.
LEMMA InComputed ==
  ASSUME IsProgram(mod), NEW f, NEW n \in DOMAIN mod.nodes, NEW v
  PROVE  v \in Computed(f)[n] <=> IsValue(f, v, n, Computed(f))
<1>1. Computed(f)[n] = {w \in ValuesOf(f) : IsValue(f, w, n, Computed(f))}
  BY ComputedIs
<1>2. IsValue(f, v, n, Computed(f)) => v \in ValuesOf(f)
  BY DEF IsValue, ValuesOf
<1> QED
  BY <1>1, <1>2

\* More instructions: what was the value of a node still is.
LEMMA ComputedGrows ==
  ASSUME IsProgram(mod), NEW f, NEW g, g.line = f.line, g.args = f.args,
         DOMAIN f.code = 1 .. Len(f.code), Len(f.code) \in Nat,
         \A i \in 1 .. Len(f.code) : i \in DOMAIN g.code /\ g.code[i] = f.code[i]
  PROVE  \A n \in DOMAIN mod.nodes : Computed(f)[n] \subseteq Computed(g)[n]
<1> DEFINE l == Len(f.code)
           F == Computed(f)
           G == Computed(g)
           T == {n \in Nat : n \in DOMAIN mod.nodes => F[n] \subseteq G[n]}
<1>1. \A i \in 1 .. l : \A j \in 1 .. i - 1 : j \in 1 .. l
  OBVIOUS
<1>2. DOMAIN mod.nodes = 1 .. Len(mod.nodes) /\ Len(mod.nodes) \in Nat
  BY ProgramIs
<1>3. ASSUME NEW n \in DOMAIN mod.nodes, NEW c, NEW i \in 1 .. l, Does(f, i, n, c) PROVE Does(g, i, n, c)
  <2>1. g.code[i] = f.code[i] /\ \A j \in 1 .. i - 1 : g.code[j] = f.code[j]
    BY <1>1
  <2> QED
    BY <1>3, <2>1 DEF Does
<1>4. \A n \in DOMAIN mod.nodes : \A v : /\ v \in F[n] <=> IsValue(f, v, n, F)
                                         /\ v \in G[n] <=> IsValue(g, v, n, G)
  BY InComputed
<1> HIDE DEF F, G
<1>5. ASSUME NEW n \in Nat, \A k \in 0 .. n - 1 : k \in T PROVE n \in T
  <2> SUFFICES ASSUME n \in DOMAIN mod.nodes, NEW v \in F[n] PROVE v \in G[n]
    BY DEF T
  <2>1. \A k \in 1 .. n - 1 : F[k] \subseteq G[k]
    <3>1. \A k \in 1 .. n - 1 : k \in 0 .. n - 1 /\ k \in DOMAIN mod.nodes
      BY <1>2
    <3> QED
      BY <1>5, <3>1
  <2>2. IsValue(f, v, n, F)
    BY <1>4
  <2>3. IsValue(f, v, n, G)
    BY <2>1, <2>2, ValueOfKids
  <2>4. IsValue(g, v, n, G)
    <3>1. \A i : ArgumentOf(f, i, n) <=> ArgumentOf(g, i, n)
      BY DEF ArgumentOf
    <3> QED
      BY <1>3, <2>3, <3>1 DEF IsValue
  <2> QED
    BY <1>4, <2>4
<1> HIDE DEF T
<1>6. Nat \subseteq T
  BY <1>5, StrongInduction
<1>7. \A n \in DOMAIN mod.nodes : n \in Nat
  BY <1>2
<1> QED
  BY <1>6, <1>7 DEF T, F, G

-----------------------------------------------------------------------------
(***************************************************************************)
(* The inductive invariant                                                 *)
(***************************************************************************)
Body(i) == mod.lines[i].Body

\* v may be what the call of ExprASTtoIR for node n returns while f is being built.
Means(f, v, n) == Failed(v) \/ v \in Computed(f)[n]

\* The active calls are for the body, the kid of it that is next, and so on.
NextKid(fr) == mod.nodes[fr.ast].kids[Len(fr.vals) + 1]
Descends(st, root) ==
  \A s \in 1 .. Len(st) : st[s].ast = IF s = 1 THEN root ELSE NextKid(st[s - 1])

\* What a call has got are values of its kids.
KidsMean(fr, f) == \A k \in 1 .. Len(fr.vals) : Means(f, fr.vals[k], mod.nodes[fr.ast].kids[k])

\* A name stands for the argument declared so.
NameMeans(a, v, f) ==
  v # Null => \E i \in DOMAIN f.args : v = Value("arg", f.line, i) /\ mod.lines[f.line].Proto.Args[i] = a

BuildingMeans ==
  Building /\ DistinctArgs(line) =>
    /\ \A a \in DOMAIN NamedValues : NameMeans(a, NamedValues[a], Current)
    /\ \A s \in 1 .. Len(stack) : KidsMean(stack[s], Current)
    /\ pc = "Body" => Means(Current, ret, Body(line))

MeaningInv == Descends(stack, Body(line)) /\ BuildingMeans /\ CodeComputesBody

\* All this is about the program that is compiled, and that never changes.
LEMMA ComputedThen ==
  ASSUME mod' = mod
  PROVE  \A f : Computed(f)' = Computed(f)
<1> SUFFICES ASSUME NEW f PROVE Computed(f)' = Computed(f)
  OBVIOUS
<1>1. ValuesOf(f)' = ValuesOf(f)
  BY DEF ValuesOf
<1>2. \A v, n, c : IsValue(f, v, n, c)' <=> IsValue(f, v, n, c)
  <2>1. \A vals, n, c : Operands(vals, n, c)' <=> Operands(vals, n, c)
    BY DEF Operands
  <2>2. \A n, c : ConstantOf(n, c)' <=> ConstantOf(n, c)
    BY DEF ConstantOf
  <2>3. \A i, n : ArgumentOf(f, i, n)' <=> ArgumentOf(f, i, n)
    BY DEF ArgumentOf
  <2>4. \A i, n, c : Does(f, i, n, c)' <=> Does(f, i, n, c)
    BY <2>1 DEF Does
  <2> QED
    BY <2>2, <2>3, <2>4 DEF IsValue
<1>3. \A c : [n \in DOMAIN mod'.nodes |-> {v \in ValuesOf(f)' : IsValue(f, v, n, c)'}]
             = [n \in DOMAIN mod.nodes |-> {v \in ValuesOf(f) : IsValue(f, v, n, c)}]
  BY <1>1, <1>2
<1>4. (CHOOSE c : c = [n \in DOMAIN mod'.nodes |-> {v \in ValuesOf(f)' : IsValue(f, v, n, c)'}])
      = CHOOSE c : c = [n \in DOMAIN mod.nodes |-> {v \in ValuesOf(f) : IsValue(f, v, n, c)}]
  BY <1>3, Zenon
<1>5. Computed(f)' = CHOOSE c : c = [n \in DOMAIN mod'.nodes |-> {v \in ValuesOf(f)' : IsValue(f, v, n, c)'}]
  BY Zenon DEF Computed
<1>6. Computed(f) = CHOOSE c : c = [n \in DOMAIN mod.nodes |-> {v \in ValuesOf(f) : IsValue(f, v, n, c)}]
  BY Zenon DEF Computed
<1> QED
  BY <1>4, <1>5, <1>6, Zenon

LEMMA MeaningThen ==
  ASSUME mod' = mod, line' = line,
         Descends(stack', Body(line)),
         DistinctArgs(line) /\ Building' =>
           /\ \A a \in DOMAIN NamedValues' : NameMeans(a, NamedValues'[a], Current')
           /\ \A s \in 1 .. Len(stack') : KidsMean(stack'[s], Current')
           /\ pc' = "Body" => Means(Current', ret', Body(line))
  PROVE  Descends(stack, Body(line))' /\ BuildingMeans'
<1>1. \A f, v, n : Means(f, v, n)' <=> Means(f, v, n)
  BY ComputedThen DEF Means, Failed
<1>2. DistinctArgs(line)' = DistinctArgs(line) /\ Body(line)' = Body(line)
  BY DEF DistinctArgs, Body
<1>3. Descends(stack, Body(line))'
  BY <1>2 DEF Descends, NextKid
<1>4. \A a, v, f : NameMeans(a, v, f)' <=> NameMeans(a, v, f)
  BY DEF NameMeans
<1>5. \A fr, f : KidsMean(fr, f)' <=> KidsMean(fr, f)
  BY <1>1 DEF KidsMean
<1>6. BuildingMeans'
  BY <1>1, <1>2, <1>4, <1>5, Zenon DEF BuildingMeans
<1> QED
  BY <1>3, <1>6

-----------------------------------------------------------------------------
(***************************************************************************)
(* A value returns                                                         *)
(***************************************************************************)
\* g is f with more instructions.
Extends(f, g) ==
  /\ g.line = f.line /\ g.args = f.args
  /\ DOMAIN f.code = 1 .. Len(f.code) /\ Len(f.code) \in Nat
  /\ \A i \in 1 .. Len(f.code) : i \in DOMAIN g.code /\ g.code[i] = f.code[i]

LEMMA MeansStays ==
  ASSUME IsProgram(mod), NEW f, NEW g, Extends(f, g), NEW n \in DOMAIN mod.nodes, NEW v, Means(f, v, n)
  PROVE  Means(g, v, n)
<1>1. Computed(f)[n] \subseteq Computed(g)[n]
  BY ComputedGrows DEF Extends
<1> QED
  BY <1>1 DEF Means

LEMMA KidsMeanStays ==
  ASSUME IsProgram(mod), NEW f, NEW g, Extends(f, g), NEW fr \in CallFrame,
         Len(fr.vals) <= Len(mod.nodes[fr.ast].kids), KidsMean(fr, f)
  PROVE  KidsMean(fr, g)
<1>1. fr.ast \in DOMAIN mod.nodes /\ Len(fr.vals) \in Nat
  BY FrameIs
<1>2. \A i \in 1 .. Len(mod.nodes[fr.ast].kids) : mod.nodes[fr.ast].kids[i] \in DOMAIN mod.nodes
  BY <1>1, ProgramIs
<1>3. Len(mod.nodes[fr.ast].kids) \in Nat
  BY <1>1, ProgramIs
<1>4. \A k \in 1 .. Len(fr.vals) : k \in 1 .. Len(mod.nodes[fr.ast].kids)
  BY <1>1, <1>3
<1> QED
  BY <1>2, <1>4, MeansStays DEF KidsMean

LEMMA KidsReceive ==
  ASSUME NEW fr \in CallFrame, NEW gr, NEW g, NEW v \in AnyValue, KidsMean(fr, g), Means(g, v, NextKid(fr)),
         gr.ast = fr.ast, gr.vals = Append(fr.vals, v)
  PROVE  KidsMean(gr, g)
<1> DEFINE vals == fr.vals
           new == gr.vals
           n == Len(fr.vals)
<1>1. vals \in Seq(AnyValue) /\ n \in Nat
  BY FrameIs
<1>2. Len(new) = n + 1 /\ (\A k \in 1 .. n : new[k] = vals[k]) /\ new[n + 1] = v
  BY <1>1, AppendLast
<1> HIDE DEF new
<1>3. \A k \in 1 .. n : Means(g, vals[k], mod.nodes[fr.ast].kids[k])
  BY DEF KidsMean
<1>4. Means(g, v, mod.nodes[fr.ast].kids[n + 1])
  BY DEF NextKid
<1> HIDE DEF n, vals
<1>5. \A k \in 1 .. n + 1 : k \in 1 .. n \/ k = n + 1
  BY <1>1
<1>6. \A k \in 1 .. Len(new) : Means(g, new[k], mod.nodes[fr.ast].kids[k])
  BY <1>2, <1>3, <1>4, <1>5
<1> QED
  BY <1>6 DEF KidsMean, new

\* What the call on top returns is a value of the kid that the call below it waits for.
LEMMA ReturnedMeans ==
  ASSUME Inv, MeaningInv, pc = "Expr", NEW v \in AnyValue, Return(v), Rests, Extends(Current, Current'),
         DistinctArgs(line) => /\ Means(Current', v, Top.ast)
                               /\ \A a \in DOMAIN NamedValues' : NameMeans(a, NamedValues'[a], Current')
  PROVE  Descends(stack, Body(line))' /\ BuildingMeans'
<1>1. IsProgram(mod) /\ Building /\ mod' = mod /\ line' = line
  BY DEF Inv, Building, Rests
<1>2. /\ stack \in Seq(CallFrame) /\ Len(stack) \in Nat /\ Len(stack) >= 1
      /\ \A s \in 1 .. Len(stack) : stack[s] \in CallFrame
      /\ Top = stack[Len(stack)]
  BY TopIs
<1>3. Descends(stack, Body(line))
  BY DEF MeaningInv
<1>4. CASE Len(stack) = 1
  <2>1. stack' = <<>> /\ ret' = v /\ pc' = "Body" /\ Len(stack') = 0
    BY <1>4 DEF Return
  <2>2. Top.ast = Body(line)
    BY <1>2, <1>3, <1>4 DEF Descends
  <2>3. Descends(stack', Body(line))
    BY <2>1 DEF Descends
  <2>4. \A s \in 1 .. Len(stack') : KidsMean(stack'[s], Current')
    BY <2>1
  <2> QED
    BY <1>1, <2>1, <2>2, <2>3, <2>4, MeaningThen
<1>5. CASE Len(stack) # 1
  <2> DEFINE n == Len(stack) - 1
  <2>0. /\ stack' = [Front(stack) EXCEPT ![Len(stack) - 1].vals = Append(@, v)] /\ pc' = "Expr"
    BY <1>1, <1>5, Zenon DEF Return, Inv, Building
  <2>r. Len(stack) >= 2
    <3> DEFINE l == Len(stack)
    <3>1. l \in Nat /\ l >= 1 /\ l # 1
      BY <1>2, <1>5
    <3> HIDE DEF l
    <3>2. l >= 2
      BY <3>1
    <3> QED
      BY <3>2 DEF l
  <2>1. /\ Len(stack') = n /\ n \in Nat /\ n >= 1
        /\ \A i \in 1 .. n : i # n => stack'[i] = stack[i]
        /\ stack'[n].ast = stack[n].ast /\ stack'[n].vals = Append(stack[n].vals, v)
    BY <1>2, <2>0, <2>r, ReturnStack
  <2>2. Len(stack) = n + 1
    BY <1>2
  <2> HIDE DEF n
  <2>3. \A i \in 1 .. n : stack'[i].ast = stack[i].ast /\ i \in 1 .. Len(stack)
    BY <2>1, <2>2
  <2>4. Descends(stack', Body(line))
    <3> SUFFICES ASSUME NEW s \in 1 .. n
                 PROVE  stack'[s].ast = IF s = 1 THEN Body(line) ELSE NextKid(stack'[s - 1])
      BY <2>1 DEF Descends
    <3>1. stack[s].ast = IF s = 1 THEN Body(line) ELSE NextKid(stack[s - 1])
      BY <1>3, <2>3 DEF Descends
    <3>2. s # 1 => s - 1 \in 1 .. n /\ s - 1 # n
      BY <2>1
    <3>3. s # 1 => stack'[s - 1] = stack[s - 1]
      BY <2>1, <3>2
    <3> QED
      BY <2>3, <3>1, <3>3
  <2>5. Top.ast = NextKid(stack[n])
    <3>1. n + 1 \in 1 .. Len(stack) /\ n + 1 # 1 /\ (n + 1) - 1 = n
      BY <2>1, <2>2
    <3>2. stack[n + 1].ast = NextKid(stack[n])
      BY <1>3, <3>1 DEF Descends
    <3> QED
      BY <1>2, <2>2, <3>2
  <2>6. ASSUME DistinctArgs(line), NEW s \in 1 .. n PROVE KidsMean(stack'[s], Current')
    <3>1. stack[s] \in CallFrame /\ s \in 1 .. Len(stack)
      BY <1>2, <2>3
    <3>2. KidsMean(stack[s], Current)
      BY <1>1, <2>6, <3>1 DEF MeaningInv, BuildingMeans
    <3>3. Len(stack[s].vals) <= Len(mod.nodes[stack[s].ast].kids)
      BY <3>1 DEF Inv, Frames, FrameOK
    <3>4. KidsMean(stack[s], Current')
      BY <1>1, <3>1, <3>2, <3>3, KidsMeanStays
    <3>5. CASE s # n
      BY <2>1, <3>4, <3>5
    <3>6. CASE s = n
      <4>1. Means(Current', v, NextKid(stack[n]))
        BY <2>5, <2>6
      <4> QED
        BY <2>1, <3>1, <3>4, <3>6, <4>1, KidsReceive
    <3> QED
      BY <3>5, <3>6
  <2> QED
    BY <1>1, <2>0, <2>1, <2>4, <2>6, MeaningThen
<1> QED
  BY <1>4, <1>5

\* The module stays what it is.
LEMMA SameExtends ==
  ASSUME Inv, Building, Rests, module' = module
  PROVE  Extends(Current, Current') /\ Current' = Current
<1>1. Current' = Current
  BY DEF Current, NameOf, Rests
<1>2. NameOf(line) \in DOMAIN module
  BY DEF Inv, Positions
<1> DEFINE C == Instruction
<1>3. Current.code \in Seq(C)
  BY <1>2, CodeIs DEF Inv, Current
<1> HIDE DEF C
<1>4. DOMAIN Current.code = 1 .. Len(Current.code) /\ Len(Current.code) \in Nat
  BY <1>3, LenProperties
<1> QED
  BY <1>1, <1>4 DEF Extends

LEMMA VisitedMeans ==
  ASSUME Inv, MeaningInv, pc = "Expr", Visit
  PROVE  Descends(stack, Body(line))' /\ BuildingMeans'
<1> DEFINE k == NextKid(Top)
           n == Len(stack)
<1>1. /\ stack' = Append(stack, FrameOf(k)) /\ pc' = pc /\ NamedValues' = NamedValues /\ module' = module /\ Rests
      /\ mod' = mod /\ line' = line
  BY DEF Visit, Rest, Rests, NextKid, ast
<1>2. /\ stack \in Seq(CallFrame) /\ n \in Nat /\ n >= 1 /\ Top = stack[n]
  BY TopIs
<1>3. FrameOf(k).ast = k /\ FrameOf(k).vals = <<>>
  BY DEF FrameOf
<1> HIDE DEF k, n
<1>4. Len(stack') = n + 1 /\ (\A s \in 1 .. n : stack'[s] = stack[s]) /\ stack'[n + 1] = FrameOf(k)
  <2> DEFINE fr == FrameOf(k)
             S == CallFrame \cup {fr}
  <2>1. stack \in Seq(S) /\ fr \in S
    BY <1>2, SeqMonotonic
  <2> HIDE DEF fr, S
  <2> QED
    BY <1>1, <2>1, AppendLast DEF n, fr
<1>5. \A s \in 1 .. n + 1 : s \in 1 .. n \/ s = n + 1
  BY <1>2
<1>6. Descends(stack', Body(line))
  <2>1. Descends(stack, Body(line))
    BY DEF MeaningInv
  <2>2. \A s \in 1 .. n : s # 1 => s - 1 \in 1 .. n
    BY <1>2
  <2>3. ASSUME NEW s \in 1 .. n PROVE stack'[s].ast = IF s = 1 THEN Body(line) ELSE NextKid(stack'[s - 1])
    BY <1>4, <2>1, <2>2 DEF Descends, n
  <2>4. n + 1 # 1 /\ (n + 1) - 1 = n /\ n \in 1 .. n
    BY <1>2
  <2>5. stack'[n + 1].ast = NextKid(stack'[n])
    BY <1>2, <1>3, <1>4, <2>4 DEF k
  <2> QED
    BY <1>4, <1>5, <2>3, <2>4, <2>5 DEF Descends
<1>7. Building /\ Current' = Current
  <2>1. Building
    BY DEF Building
  <2> QED
    BY <1>1, <2>1, SameExtends
<1>8. ASSUME DistinctArgs(line), NEW s \in 1 .. n + 1 PROVE KidsMean(stack'[s], Current')
  <2>1. CASE s \in 1 .. n
    BY <1>4, <1>7, <1>8, <2>1 DEF MeaningInv, BuildingMeans, n
  <2>2. CASE s = n + 1
    <3>1. Len(stack'[s].vals) = 0
      BY <1>3, <1>4, <2>2
    <3> QED
      BY <3>1 DEF KidsMean
  <2> QED
    BY <1>5, <2>1, <2>2
<1>9. DistinctArgs(line) => \A a \in DOMAIN NamedValues' : NameMeans(a, NamedValues'[a], Current')
  BY <1>1, <1>7 DEF MeaningInv, BuildingMeans
<1> QED
  BY <1>1, <1>4, <1>6, <1>8, <1>9, MeaningThen

-----------------------------------------------------------------------------
(***************************************************************************)
(* What a node's value is                                                  *)
(***************************************************************************)
LEMMA FieldsOfValue ==
  \A kind, of, n : Value(kind, of, n).kind = kind /\ Value(kind, of, n).of = of /\ Value(kind, of, n).n = n
BY DEF Value

\* Finished functions compute what they did, if a step leaves them alone and finishes none.
LEMMA FinishedCompute ==
  ASSUME CodeComputesBody, mod' = mod,
         \A name \in DOMAIN module' : module'[name].value # Null =>
           name \in DOMAIN module /\ module'[name] = module[name]
  PROVE  CodeComputesBody'
<1>1. \A i : DistinctArgs(i)' = DistinctArgs(i)
  BY DEF DistinctArgs
<1>2. \A f : Computed(f)' = Computed(f)
  BY ComputedThen
<1> QED
  BY <1>1, <1>2, Zenon DEF CodeComputesBody

\* A call returns and the module stays what it is.
LEMMA QuietMeans ==
  ASSUME Inv, MeaningInv, pc = "Expr", NEW v \in AnyValue, Return(v), Rests, module' = module,
         DistinctArgs(line) => /\ Means(Current, v, Top.ast)
                               /\ \A a \in DOMAIN NamedValues' : NameMeans(a, NamedValues'[a], Current)
  PROVE  MeaningInv'
<1>1. Building
  BY DEF Building
<1>2. Extends(Current, Current') /\ Current' = Current
  BY <1>1, SameExtends
<1>3. Descends(stack, Body(line))' /\ BuildingMeans'
  <2>1. DistinctArgs(line) => /\ Means(Current', v, Top.ast)
                              /\ \A a \in DOMAIN NamedValues' : NameMeans(a, NamedValues'[a], Current')
    BY <1>2
  <2> QED
    BY <1>2, <2>1, ReturnedMeans
<1>4. CodeComputesBody'
  BY FinishedCompute DEF MeaningInv, Rests
<1> QED
  BY <1>3, <1>4 DEF MeaningInv

\* The names there are
LEMMA NamesAre ==
  ASSUME MeaningInv, Building, DistinctArgs(line), NamedValues' = NamedValues
  PROVE  \A a \in DOMAIN NamedValues' : NameMeans(a, NamedValues'[a], Current)
BY DEF MeaningInv, BuildingMeans

\* A failure means nothing.
LEMMA FailureMeans ==
  ASSUME Inv, MeaningInv, pc = "Expr", NEW v \in AnyValue, Failed(v), Return(v), Rests, module' = module,
         NamedValues' = NamedValues
  PROVE  MeaningInv'
<1>1. Means(Current, v, Top.ast)
  BY DEF Means
<1>2. DistinctArgs(line) => \A a \in DOMAIN NamedValues' : NameMeans(a, NamedValues'[a], Current)
  BY NamesAre DEF Building
<1> QED
  BY <1>1, <1>2, QuietMeans

LEMMA NumberMeans ==
  ASSUME Inv, MeaningInv, NumberExprASTtoIR
  PROVE  MeaningInv'
<1> DEFINE v == Value("const", 0, Top.ast)
<1>1. pc = "Expr" /\ ast.kind = "Number" /\ Return(v) /\ Rests /\ module' = module /\ NamedValues' = NamedValues
  BY DEF NumberExprASTtoIR, At, Rest, Rests
<1>2. v \in AnyValue /\ Top.ast \in DOMAIN mod.nodes /\ ast = mod.nodes[Top.ast] /\ IsProgram(mod)
  BY <1>1, ConstantIs, TopIs DEF Inv
<1>3. ToSet(ast.kids) = {}
  <2>1. Len(ast.kids) = 0 /\ DOMAIN ast.kids = 1 .. Len(ast.kids)
    BY <1>1, <1>2, ProgramIs, KidsAre
  <2> QED
    BY <2>1 DEF ToSet
<1>4. ConstantOf(Top.ast, Computed(Current))
  BY <1>1, <1>2, <1>3 DEF ConstantOf
<1>5. v \in Computed(Current)[Top.ast]
  BY <1>2, <1>4, InComputed DEF IsValue
<1>6. DistinctArgs(line) => \A a \in DOMAIN NamedValues' : NameMeans(a, NamedValues'[a], Current)
  BY <1>1, NamesAre DEF Building
<1>7. Means(Current, v, Top.ast)
  BY <1>5 DEF Means
<1> HIDE DEF v
<1> QED
  BY <1>1, <1>2, <1>6, <1>7, QuietMeans

LEMMA VariableMeans ==
  ASSUME Inv, MeaningInv, VariableExprASTtoIR
  PROVE  MeaningInv'
<1> DEFINE V == IF ast.val \in DOMAIN NamedValues THEN NamedValues[ast.val] ELSE Null
           v == IF V = Null THEN Failure("undefined variable") ELSE V
<1>1. /\ pc = "Expr" /\ ast.kind = "Variable" /\ NamedValues' = With(NamedValues, ast.val, V) /\ Return(v)
      /\ module' = module /\ Rests
  BY Zenon DEF VariableExprASTtoIR, At, Rest, Rests
<1>2. Top.ast \in DOMAIN mod.nodes /\ ast = mod.nodes[Top.ast] /\ IsProgram(mod)
      /\ Len(mod.lines) \in Nat /\ Building
  BY <1>1, TopIs, ProgramIs DEF Inv, Building
<1>3. \A a \in DOMAIN NamedValues : NamedValues[a] \in AnyValue
  BY DEF Inv, Types
<1>4. V \in AnyValue
  BY <1>2, <1>3, NullAndFailure
<1>5. DistinctArgs(line) => NameMeans(ast.val, V, Current)
  <2>1. NameMeans(ast.val, Null, Current)
    BY DEF NameMeans
  <2> QED
    BY <1>2, <2>1 DEF MeaningInv, BuildingMeans
<1>6. Failure("undefined variable") \in AnyValue /\ Failed(Failure("undefined variable"))
  <2>1. "undefined variable" \in Error
    BY DEF Error
  <2> QED
    BY <1>2, <2>1, NullAndFailure
<1> HIDE DEF V
<1>7. v \in AnyValue
  BY <1>4, <1>6
<1>8. ASSUME DistinctArgs(line) PROVE Means(Current, v, Top.ast)
  <2>1. CASE V = Null
    BY <1>6, <2>1 DEF Means
  <2>2. CASE V # Null
    <3>1. PICK i \in DOMAIN Current.args :
            V = Value("arg", Current.line, i) /\ mod.lines[Current.line].Proto.Args[i] = ast.val
      BY <1>5, <1>8, <2>2 DEF NameMeans
    <3>2. ArgumentOf(Current, i, Top.ast)
      BY <1>1, <1>2, <3>1 DEF ArgumentOf
    <3>3. V \in Computed(Current)[Top.ast]
      BY <1>2, <3>1, <3>2, InComputed DEF IsValue
    <3> QED
      BY <2>2, <3>3 DEF Means
  <2> QED
    BY <2>1, <2>2
<1> HIDE DEF v
<1>9. ASSUME DistinctArgs(line), NEW a \in DOMAIN NamedValues'
      PROVE  NameMeans(a, NamedValues'[a], Current)
  <2>1. (a = ast.val /\ NamedValues'[a] = V) \/ (a \in DOMAIN NamedValues /\ NamedValues'[a] = NamedValues[a])
    BY <1>1, <1>9 DEF With
  <2>2. \A b \in DOMAIN NamedValues : NameMeans(b, NamedValues[b], Current)
    BY <1>2, <1>9 DEF MeaningInv, BuildingMeans
  <2> QED
    BY <1>5, <1>9, <2>1, <2>2
<1> QED
  BY <1>1, <1>7, <1>8, <1>9, QuietMeans

LEMMA BinaryFailedMeans ==
  ASSUME Inv, MeaningInv, BinaryFailed
  PROVE  MeaningInv'
<1> DEFINE L == Top.vals[1]
           R == Top.vals[2]
           bad == Failure("invalid binary operator")
<1>1. /\ pc = "Expr" /\ Len(Top.vals) = 2
      /\ (Failed(L) /\ Return(L)) \/ (Failed(R) /\ Return(R)) \/ Return(bad)
      /\ module' = module /\ NamedValues' = NamedValues /\ Rests
  BY Zenon DEF BinaryFailed, At, Rest, Rests
<1>2. "invalid binary operator" \in Error /\ Len(mod.lines) \in Nat
  BY ProgramIs DEF Error, Inv
<1>3. bad \in AnyValue /\ Failed(bad)
  BY <1>2, NullAndFailure
<1>s. 1 \in 1 .. 2 /\ 2 \in 1 .. 2
  OBVIOUS
<1>r. 1 \in 1 .. Len(Top.vals) /\ 2 \in 1 .. Len(Top.vals)
  BY <1>1, <1>s, Zenon
<1>4. L \in AnyValue /\ R \in AnyValue
  BY <1>1, <1>r, TopValues
<1> HIDE DEF L, R, bad
<1> QED
  BY <1>1, <1>3, <1>4, FailureMeans

LEMMA CallFailedMeans ==
  ASSUME Inv, MeaningInv, CallFailed
  PROVE  MeaningInv'
<1> DEFINE v == Last(Top.vals)
<1>1. /\ pc = "Expr" /\ Top.vals # <<>> /\ Failed(v) /\ Return(v)
      /\ module' = module /\ NamedValues' = NamedValues /\ Rests
  BY Zenon DEF CallFailed, At, Rest, Rests
<1>2. v \in AnyValue
  BY <1>1, TopValues
<1> HIDE DEF v
<1> QED
  BY <1>1, <1>2, FailureMeans

LEMMA CallRejectedMeans ==
  ASSUME Inv, MeaningInv, CallRejected
  PROVE  MeaningInv'
<1> DEFINE e == IF ast.val \in DOMAIN module THEN "incorrect # arguments" ELSE "undefined function"
           v == Failure(e)
<1>1. /\ pc = "Expr" /\ Return(v)
      /\ module' = module /\ NamedValues' = NamedValues /\ Rests
  BY Zenon DEF CallRejected, At, Rest, Rests
<1>2. e \in Error /\ Len(mod.lines) \in Nat
  BY ProgramIs DEF Error, Inv
<1>3. v \in AnyValue /\ Failed(v)
  BY <1>2, NullAndFailure
<1> HIDE DEF v
<1> QED
  BY <1>1, <1>3, FailureMeans

-----------------------------------------------------------------------------
(***************************************************************************)
(* Instructions                                                            *)
(***************************************************************************)
\* g is f with the instructions added.
Adds(f, instrs, g) ==
  /\ Extends(f, g)
  /\ \A i \in 1 .. Len(instrs) : Len(f.code) + i \in DOMAIN g.code /\ g.code[Len(f.code) + i] = instrs[i]

LEMMA EmitIs ==
  ASSUME Inv, pc = "Expr", NEW instrs \in Seq(Instruction), Len(instrs) >= 1, Emit(instrs), Rests
  PROVE  LET v == Value("instr", line, Len(Current.code) + Len(instrs))
         IN  /\ Return(v) /\ v \in AnyValue
             /\ Adds(Current, instrs, Current') /\ Current.line = line
             /\ \A name \in DOMAIN module' : module'[name].value # Null =>
                  name \in DOMAIN module /\ module'[name] = module[name]
<1> DEFINE nm == NameOf(line)
           F == Current
           g == [F EXCEPT !.code = @ \o instrs]
           n == Len(F.code)
           l == Len(instrs)
           v == Value("instr", insert, n + l)
<1>1. /\ Types /\ Positions /\ Building /\ IsProgram(mod)
  BY DEF Inv, Building
<1>2. /\ line \in 1 .. Len(mod.lines) /\ insert = line /\ nm \in DOMAIN module
      /\ F.line = line /\ F.value = Null /\ FunctionOK(F)
  BY <1>1 DEF Positions, Types, Current
<1>3. mod.lines[insert].Proto.Name = nm /\ module[nm] = F
  BY <1>2 DEF NameOf, Current
<1>4. Return(v) /\ module' = [module EXCEPT ![nm].code = @ \o instrs]
  BY <1>3, Zenon DEF Emit
<1>5. module' = [module EXCEPT ![nm] = g]
  <2>1. [module EXCEPT ![nm].code = @ \o instrs] = [module EXCEPT ![nm] = [module[nm] EXCEPT !.code = @ \o instrs]]
    OBVIOUS
  <2> QED
    BY <1>3, <1>4, <2>1, Zenon
<1>6. /\ FunctionOK(g)
      /\ g.line = F.line /\ g.args = F.args /\ g.entry = F.entry /\ g.value = F.value
      /\ n \in Nat /\ l \in Nat /\ Len(g.code) = n + l
      /\ \A i \in 1 .. n : g.code[i] = F.code[i]
      /\ \A i \in 1 .. l : g.code[n + i] = instrs[i]
  BY <1>2, CodeAdded
<1> HIDE DEF g, F, nm, n, v
<1>7. /\ DOMAIN module' = DOMAIN module /\ module'[nm] = g
      /\ \A name \in DOMAIN module : name # nm => module'[name] = module[name]
  BY <1>2, <1>5
<1>8. Current' = g
  BY <1>7 DEF Current, NameOf, Rests, nm
<1>9. DOMAIN F.code = 1 .. n /\ DOMAIN g.code = 1 .. n + l
  <2> DEFINE C == Instruction
  <2>1. F.code \in Seq(C) /\ g.code \in Seq(C)
    BY <1>2, <1>6 DEF FunctionOK
  <2> HIDE DEF C
  <2> QED
    BY <1>6, <2>1, LenProperties DEF n
<1>10. (\A i \in 1 .. n : i \in 1 .. n + l) /\ \A i \in 1 .. l : n + i \in 1 .. n + l
  BY <1>6
<1>11. Extends(F, g)
  BY <1>6, <1>9, <1>10 DEF Extends, n
<1>12. Adds(F, instrs, g)
  BY <1>6, <1>9, <1>10, <1>11 DEF Adds, n
<1>13. v \in AnyValue
  <2>1. n + l \in Nat /\ line \in 0 .. Len(mod.lines)
    BY <1>2, <1>6
  <2>2. "instr" \in {"const", "arg", "instr", "null"} \cup Error
    OBVIOUS
  <2> QED
    BY <1>2, <2>1, <2>2, ValueIs DEF v
<1> QED
  BY <1>2, <1>4, <1>6, <1>7, <1>8, <1>12, <1>13 DEF F, n, v

\* What the last instruction gives is the value of the node.
LEMMA EmitMeans ==
  ASSUME Inv, MeaningInv, pc = "Expr", NEW instrs \in Seq(Instruction), Len(instrs) >= 1, Emit(instrs), Rests,
         NamedValues' = NamedValues,
         ASSUME DistinctArgs(line), NEW g, Adds(Current, instrs, g)
         PROVE  Value("instr", line, Len(Current.code) + Len(instrs)) \in Computed(g)[Top.ast]
  PROVE  MeaningInv'
<1> DEFINE v == Value("instr", line, Len(Current.code) + Len(instrs))
<1>1. /\ Return(v) /\ v \in AnyValue /\ Adds(Current, instrs, Current')
      /\ \A name \in DOMAIN module' : module'[name].value # Null =>
                  name \in DOMAIN module /\ module'[name] = module[name]
  BY EmitIs
<1>2. DistinctArgs(line) => Means(Current', v, Top.ast)
  BY <1>1 DEF Means
<1>3. Extends(Current, Current')
  BY <1>1 DEF Adds
<1>4. DistinctArgs(line) => \A a \in DOMAIN NamedValues' : NameMeans(a, NamedValues'[a], Current')
  <2>1. DistinctArgs(line) => \A a \in DOMAIN NamedValues' : NameMeans(a, NamedValues'[a], Current)
    BY NamesAre DEF Building
  <2>2. Current'.line = Current.line /\ Current'.args = Current.args
    BY <1>3 DEF Extends
  <2> QED
    BY <2>1, <2>2 DEF NameMeans
<1> HIDE DEF v
<1>5. Descends(stack, Body(line))' /\ BuildingMeans'
  BY <1>1, <1>2, <1>3, <1>4, ReturnedMeans
<1>6. CodeComputesBody'
  BY <1>1, FinishedCompute DEF MeaningInv, Rests
<1> QED
  BY <1>5, <1>6 DEF MeaningInv

\* The operands and the arguments are values of the kids.
LEMMA OperandsAre ==
  ASSUME Inv, MeaningInv, pc = "Expr", DistinctArgs(line), NEW g, Extends(Current, g),
         Len(Top.vals) = Len(ast.kids), \A k \in 1 .. Len(Top.vals) : ~Failed(Top.vals[k])
  PROVE  Operands(Top.vals, Top.ast, Computed(g))
<1>1. /\ Len(stack) \in Nat /\ Len(stack) >= 1 /\ Top = stack[Len(stack)] /\ Top \in CallFrame
      /\ Top.ast \in DOMAIN mod.nodes /\ ast = mod.nodes[Top.ast] /\ IsProgram(mod) /\ Building
  BY TopIs DEF Inv, Building
<1>2. KidsMean(Top, Current)
  <2> DEFINE n == Len(stack)
  <2>1. n \in Nat /\ n >= 1
    BY <1>1
  <2> HIDE DEF n
  <2>2. n \in 1 .. n
    BY <2>1
  <2> QED
    BY <1>1, <2>2 DEF MeaningInv, BuildingMeans, n
<1>3. Len(Top.vals) <= Len(ast.kids)
  BY TopIs DEF FrameOK
<1>4. KidsMean(Top, g)
  BY <1>1, <1>2, <1>3, KidsMeanStays
<1>5. DOMAIN ast.kids = 1 .. Len(Top.vals)
  BY <1>1, KidsAre
<1>6. \A i \in DOMAIN ast.kids : Top.vals[i] \in Computed(g)[ast.kids[i]]
  BY <1>1, <1>4, <1>5 DEF KidsMean, Means
<1> QED
  BY <1>1, <1>6 DEF Operands

\* An operand that is a constant is the constant of its node.
LEMMA ConstantOperand ==
  ASSUME IsProgram(mod), NEW f, NEW n \in DOMAIN mod.nodes, NEW v, v \in Computed(f)[n], v.kind = "const"
  PROVE  v = Value("const", 0, n)
<1>1. IsValue(f, v, n, Computed(f))
  BY InComputed
<1>2. \A of, i : Value("arg", of, i).kind = "arg" /\ Value("instr", of, i).kind = "instr"
  BY FieldsOfValue
<1> QED
  BY <1>1, <1>2 DEF IsValue

LEMMA BinaryOperationMeans ==
  ASSUME Inv, MeaningInv, BinaryOperation
  PROVE  MeaningInv'
<1> DEFINE const == Value("const", 0, Top.ast)
           op == ast.val
           a == Instr(op, Top.vals)
           cmp == Value("instr", insert, Len(Current.code) + 1)
           b == Instr("uitofp", <<cmp>>)
           instrs == Create(op, Top.vals)
           n == Len(Current.code)
<1>1. /\ pc = "Expr" /\ ast.kind = "Binary" /\ Len(Top.vals) = 2 /\ op \in {"+", "-", "*", "<"}
      /\ \A i \in 1 .. 2 : ~Failed(Top.vals[i])
      /\ NamedValues' = NamedValues /\ Rests
      /\ \/ Return(const) /\ module' = module /\ \A i \in 1 .. 2 : Top.vals[i].kind = "const"
         \/ Emit(instrs)
  BY Zenon DEF BinaryOperation, At, Rest, Rests
<1>2. Top.ast \in DOMAIN mod.nodes /\ ast = mod.nodes[Top.ast] /\ IsProgram(mod) /\ Len(ast.kids) = 2
      /\ DOMAIN ast.kids = 1 .. 2 /\ \A i \in 1 .. 2 : ast.kids[i] \in DOMAIN mod.nodes
  <2>1. Top.ast \in DOMAIN mod.nodes /\ ast = mod.nodes[Top.ast] /\ IsProgram(mod)
    BY <1>1, TopIs DEF Inv
  <2> QED
    BY <1>1, <2>1, ProgramIs, KidsAre
<1>3. insert = line /\ NameOf(line) \in DOMAIN module /\ Current.line = line
  BY <1>1 DEF Inv, Positions, Building
<1>4. \A k \in 1 .. Len(Top.vals) : ~Failed(Top.vals[k])
  BY <1>1, Zenon
<1>5. ASSUME DistinctArgs(line), NEW g, Extends(Current, g)
      PROVE  Operands(Top.vals, Top.ast, Computed(g))
  <2>1. Len(Top.vals) = Len(ast.kids)
    BY <1>1, <1>2, Zenon
  <2> QED
    BY <1>1, <1>4, <1>5, <2>1, OperandsAre, Zenon
<1>6. CASE Return(const) /\ module' = module /\ \A i \in 1 .. 2 : Top.vals[i].kind = "const"
  <2>1. const \in AnyValue
    BY <1>1, ConstantIs
  <2>2. ASSUME DistinctArgs(line) PROVE const \in Computed(Current)[Top.ast]
    <3>1. Extends(Current, Current')
      BY <1>1, <1>6, SameExtends DEF Building
    <3>2. Current' = Current
      BY <1>1, <1>6, SameExtends DEF Building
    <3>3. Operands(Top.vals, Top.ast, Computed(Current))
      BY <1>5, <2>2, <3>1, <3>2
    <3>4. \A i \in 1 .. 2 : Top.vals[i] \in Computed(Current)[ast.kids[i]]
      BY <1>2, <3>3 DEF Operands
    <3>5. \A i \in 1 .. 2 : Top.vals[i] = Value("const", 0, ast.kids[i])
      BY <1>2, <1>6, <3>4, ConstantOperand
    <3>6. \A k \in ToSet(ast.kids) : Value("const", 0, k) \in Computed(Current)[k]
      BY <1>2, <3>4, <3>5 DEF ToSet
    <3>7. ConstantOf(Top.ast, Computed(Current))
      BY <1>1, <1>2, <3>6 DEF ConstantOf
    <3> QED
      BY <1>2, <3>7, InComputed DEF IsValue
  <2>3. DistinctArgs(line) => Means(Current, const, Top.ast)
    BY <2>2 DEF Means
  <2>4. DistinctArgs(line) => \A x \in DOMAIN NamedValues' : NameMeans(x, NamedValues'[x], Current)
    BY <1>1, NamesAre DEF Building
  <2> HIDE DEF const
  <2> QED
    BY <1>1, <1>6, <2>1, <2>3, <2>4, QuietMeans
<1>7. CASE Emit(instrs)
  <2>1. op \in {"call"} \cup Operator /\ op # "call"
    BY <1>1 DEF Operator
  <2>2. a \in Instruction /\ b \in Instruction
    BY <1>1, <1>4, <2>1, InstrIs, ConversionIs
  <2>3. (op = "<" => instrs = <<a, b>>) /\ (op # "<" => instrs = <<a>>)
    <3>1. module[mod.lines[insert].Proto.Name] = Current
      BY <1>3 DEF Current, NameOf
    <3> QED
      BY <3>1, Zenon DEF Create
  <2>4. a.op = op /\ a.args = Top.vals /\ b.op = "uitofp" /\ b.args = <<cmp>>
    BY DEF Instr
  <2>5. n \in Nat
    BY <1>3, CodeIs DEF Inv, Current
  <2> DEFINE I == Instruction
  <2> HIDE DEF instrs, a, b, I, n, op
  <2>6. CASE op # "<"
    <3>1. instrs \in Seq(I) /\ Len(instrs) = 1 /\ instrs[1] = a
      <4>1. instrs = <<a>>
        BY <2>3, <2>6, Zenon
      <4> QED
        BY <2>2, <4>1 DEF I
    <3>2. ASSUME DistinctArgs(line), NEW g, Adds(Current, instrs, g)
          PROVE  Value("instr", line, Len(Current.code) + Len(instrs)) \in Computed(g)[Top.ast]
      <4>1. Extends(Current, g) /\ n + 1 \in DOMAIN g.code /\ g.code[n + 1] = a
        BY <3>1, <3>2 DEF Adds, n
      <4>2. g.line = line
        BY <1>3, <4>1 DEF Extends
      <4>3. Operands(Top.vals, Top.ast, Computed(g))
        BY <1>5, <3>2, <4>1
      <4>4. Does(g, n + 1, Top.ast, Computed(g))
        BY <1>1, <1>2, <2>4, <2>6, <4>1, <4>3 DEF Does, op
      <4>5. IsValue(g, Value("instr", line, n + 1), Top.ast, Computed(g))
        BY <4>1, <4>2, <4>4 DEF IsValue
      <4>6. Value("instr", line, n + 1) \in Computed(g)[Top.ast]
        BY <1>2, <4>5, InComputed
      <4> QED
        BY <3>1, <4>6 DEF n
    <3>3. Len(instrs) >= 1
      BY <3>1
    <3> QED
      BY <1>1, <1>7, <3>1, <3>2, <3>3, EmitMeans DEF I
  <2>7. CASE op = "<"
    <3>1. instrs \in Seq(I) /\ Len(instrs) = 2 /\ instrs[1] = a /\ instrs[2] = b
      <4>1. instrs = <<a, b>>
        BY <2>3, <2>7, Zenon
      <4> QED
        BY <2>2, <4>1 DEF I
    <3>2. ASSUME DistinctArgs(line), NEW g, Adds(Current, instrs, g)
          PROVE  Value("instr", line, Len(Current.code) + Len(instrs)) \in Computed(g)[Top.ast]
      <4>1. /\ Extends(Current, g) /\ n + 1 \in DOMAIN g.code /\ g.code[n + 1] = a
            /\ n + 2 \in DOMAIN g.code /\ g.code[n + 2] = b
        BY <3>1, <3>2 DEF Adds, n
      <4>2. g.line = line
        BY <1>3, <4>1 DEF Extends
      <4>3. Operands(Top.vals, Top.ast, Computed(g))
        BY <1>5, <3>2, <4>1
      <4>j. n + 1 \in 1 .. (n + 2) - 1
        BY <2>5
      <4>c. cmp = Value("instr", g.line, n + 1)
        BY <1>3, <4>2 DEF n
      <4>4. Does(g, n + 2, Top.ast, Computed(g))
        BY <1>1, <1>2, <2>4, <2>7, <4>1, <4>3, <4>j, <4>c DEF Does, op
      <4>5. IsValue(g, Value("instr", line, n + 2), Top.ast, Computed(g))
        BY <4>1, <4>2, <4>4 DEF IsValue
      <4>6. Value("instr", line, n + 2) \in Computed(g)[Top.ast]
        BY <1>2, <4>5, InComputed
      <4> QED
        BY <3>1, <4>6 DEF n
    <3>3. Len(instrs) >= 1
      BY <3>1
    <3> QED
      BY <1>1, <1>7, <3>1, <3>2, <3>3, EmitMeans DEF I
  <2> QED
    BY <2>6, <2>7
<1> QED
  BY <1>1, <1>6, <1>7

LEMMA CreateCallMeans ==
  ASSUME Inv, MeaningInv, CreateCall
  PROVE  MeaningInv'
<1> DEFINE a == Instr("call", Top.vals)
           instrs == <<a>>
           vals == Top.vals
           n == Len(Current.code)
<1>1. /\ pc = "Expr" /\ ast.kind = "Call" /\ Len(vals) = Len(ast.kids)
      /\ IF vals = <<>> THEN Callable(ast.val, 0) ELSE ~Failed(Last(vals))
      /\ Emit(instrs)
      /\ NamedValues' = NamedValues /\ Rests
  BY Zenon DEF CreateCall, At, Rest, Rests
<1>2. /\ vals \in Seq(AnyValue) /\ Len(vals) \in Nat
      /\ FrameOK(Top, FALSE, ast, module, Current)
      /\ Top.ast \in DOMAIN mod.nodes /\ ast = mod.nodes[Top.ast] /\ IsProgram(mod)
  BY <1>1, TopIs DEF Inv
<1>3. ast.val \in DOMAIN module /\ Len(module[ast.val].args) = Len(vals)
  <2>1. vals = <<>> => Len(vals) = 0
    OBVIOUS
  <2> QED
    BY <1>1, <1>2, <2>1 DEF FrameOK, Callable
<1>4. \A k \in 1 .. Len(vals) : ~Failed(vals[k])
  <2>1. \A k \in 1 .. Len(vals) : k < Len(vals) => ~Failed(vals[k])
    BY <1>1, TopValues
  <2> HIDE DEF vals
  <2>2. \A k \in 1 .. Len(vals) : vals # <<>> /\ (k < Len(vals) \/ k = Len(vals))
    BY <1>2
  <2>3. Last(vals) = vals[Len(vals)]
    BY DEF Last
  <2> QED
    BY <1>1, <2>1, <2>2, <2>3
<1>5. "call" \in {"call"} \cup Operator
  OBVIOUS
<1>6. a \in Instruction
  BY <1>1, <1>3, <1>4, <1>5, InstrIs
<1>7. a.op = "call" /\ a.args = vals /\ a.ast = Top.ast
  BY DEF Instr
<1>8. insert = line /\ NameOf(line) \in DOMAIN module /\ Current.line = line
  BY <1>1 DEF Inv, Positions, Building
<1> DEFINE I == Instruction
<1> HIDE DEF a, I, n
<1>9. instrs \in Seq(I) /\ Len(instrs) = 1 /\ instrs[1] = a
  BY <1>6 DEF I
<1> HIDE DEF instrs
<1>10. ASSUME DistinctArgs(line), NEW g, Adds(Current, instrs, g)
       PROVE  Value("instr", line, Len(Current.code) + Len(instrs)) \in Computed(g)[Top.ast]
  <2>1. Extends(Current, g) /\ n + 1 \in DOMAIN g.code /\ g.code[n + 1] = a
    BY <1>9, <1>10 DEF Adds, n
  <2>2. g.line = line
    BY <1>8, <2>1 DEF Extends
  <2>3. Operands(Top.vals, Top.ast, Computed(g))
    BY <1>1, <1>4, <1>10, <2>1, OperandsAre, Zenon
  <2>4. Does(g, n + 1, Top.ast, Computed(g))
    BY <1>1, <1>2, <1>7, <2>1, <2>3 DEF Does
  <2>5. IsValue(g, Value("instr", line, n + 1), Top.ast, Computed(g))
    BY <2>1, <2>2, <2>4 DEF IsValue
  <2>6. Value("instr", line, n + 1) \in Computed(g)[Top.ast]
    BY <1>2, <2>5, InComputed
  <2> QED
    BY <1>9, <2>6 DEF n
<1>11. Len(instrs) >= 1
  BY <1>9
<1> QED
  BY <1>1, <1>9, <1>10, <1>11, EmitMeans DEF I

LEMMA ArgumentMeans ==
  ASSUME Inv, MeaningInv, BinaryOperand \/ CallArgument
  PROVE  MeaningInv'
<1>1. pc = "Expr" /\ Visit
  BY Zenon DEF BinaryOperand, CallArgument, At
<1>2. Descends(stack, Body(line))' /\ BuildingMeans'
  BY <1>1, VisitedMeans
<1>3. CodeComputesBody'
  BY <1>1, FinishedCompute DEF MeaningInv, Visit, Rest
<1> QED
  BY <1>2, <1>3 DEF MeaningInv

LEMMA ExprMeans ==
  ASSUME Inv, MeaningInv, ExprASTtoIR
  PROVE  MeaningInv'
BY NumberMeans, VariableMeans, ArgumentMeans, BinaryFailedMeans, BinaryOperationMeans, CallRejectedMeans,
   CallFailedMeans, CreateCallMeans DEF ExprASTtoIR

-----------------------------------------------------------------------------
(***************************************************************************)
(* A function begins and ends                                              *)
(***************************************************************************)
\* Arguments with names of their own keep them.
LEMMA DistinctNamesStay ==
  ASSUME NEW S, NEW args \in Seq(S), IsInjective(args)
  PROVE  setNames(args) = args
<1> DEFINE n == Len(args)
           First(i) == [k \in 1 .. i |-> args[k]]
           Named(x, i) == \E last : x = [names |-> First(i), last |-> last]
<1>1. n \in Nat /\ DOMAIN args = 1 .. n /\ args = First(n) /\ \A i \in 1 .. n : args[i] \in S
  BY LenProperties, SeqEntries
<1>2. PICK named : /\ setNames(args) = named[n].names
                   /\ named[0] = [names |-> <<>>, last |-> 0]
                   /\ \A i \in Nat : i + 1 <= n => named[i + 1] = WithName(named[i], args[i + 1])
  BY <1>1, NamedIs
<1> DEFINE T == {i \in Nat : i <= n => Named(named[i], i)}
<1> HIDE DEF n
<1>3. Named(named[0], 0)
  <2>1. First(0) = <<>>
    OBVIOUS
  <2> QED
    BY <1>2, <2>1
<1>4. ASSUME NEW i \in Nat, Named(named[i], i), i + 1 <= n PROVE Named(named[i + 1], i + 1)
  <2>1. i \in 0 .. n /\ i + 1 \in 1 .. n /\ \A k \in 1 .. i : k \in 1 .. n /\ k # i + 1
    BY <1>1, <1>4
  <2>2. PICK last : named[i] = [names |-> First(i), last |-> last]
    BY <1>4
  <2>3. named[i].names = First(i) /\ named[i].last = last
    BY <2>2
  <2>4. args[i + 1] \notin ToSet(First(i))
    BY <1>1, <2>1 DEF IsInjective, ToSet
  <2>5. named[i + 1] = [names |-> Append(First(i), args[i + 1]), last |-> last]
    <3> HIDE DEF First
    <3>1. named[i + 1] = WithName(named[i], args[i + 1])
      BY <1>2, <1>4
    <3> QED
      BY <2>3, <2>4, <3>1 DEF WithName
  <2>6. Append(First(i), args[i + 1]) = First(i + 1)
    OBVIOUS
  <2> QED
    BY <2>5, <2>6
<1> HIDE DEF Named, n
<1>5. 0 \in T /\ \A i \in Nat : i \in T => i + 1 \in T
  <2>1. \A i \in Nat : i + 1 <= n => i <= n
    BY <1>1
  <2> QED
    BY <1>3, <1>4, <2>1
<1> HIDE DEF T
<1>6. Nat \subseteq T
  BY <1>5, SetInduction
<1>7. Named(named[n], n)
  BY <1>1, <1>6 DEF T
<1>8. PICK last : named[n] = [names |-> First(n), last |-> last]
  BY <1>7 DEF Named
<1>9. named[n].names = First(n)
  BY <1>8
<1> QED
  BY <1>1, <1>2, <1>9

\* Nothing is being built.
LEMMA IdleMeans ==
  ASSUME ~Building', stack' = <<>>, CodeComputesBody'
  PROVE  MeaningInv'
<1>1. Descends(stack, Body(line))'
  <2>1. Len(stack') = 0
    OBVIOUS
  <2> QED
    BY <2>1 DEF Descends
<1> QED
  BY <1>1 DEF MeaningInv, BuildingMeans

LEMMA LoopMeans ==
  ASSUME Inv, MeaningInv, ParserResult \/ Crash \/ GoOn \/ LinesDone
  PROVE  MeaningInv'
<1>1. /\ mod' = mod /\ module' = module /\ stack' = stack
      /\ pc \in {"Get", "Line", "Undefined"} /\ pc' \in {"Line", "Undefined", "Done", "Crashed"}
  BY DEF ParserResult, Crash, GoOn, LinesDone, Report
<1>2. stack' = <<>> /\ ~Building'
  BY <1>1 DEF Inv, Positions, Building
<1>3. CodeComputesBody'
  BY <1>1, FinishedCompute DEF MeaningInv
<1> QED
  BY <1>2, <1>3, IdleMeans

LEMMA BeginMeans ==
  ASSUME Inv, MeaningInv, BeginFunction
  PROVE  MeaningInv'
<1> DEFINE d == mod.lines[line]
           nm == NameOf(line)
           P == PrototypeASTtoIR(d.Proto)
           g == [P EXCEPT !.entry = TRUE]
           l == Len(mod.lines)
<1>1. /\ Types /\ IsProgram(mod) /\ EachFinished /\ pc = "Line" /\ stack = <<>> /\ l \in Nat
      /\ mod' = mod /\ line' = line
  BY ProgramIs DEF BeginFunction, Inv, Positions
<1>2. line \in 1 .. l
  <2>1. line <= l /\ line >= 1 /\ line \in 0 .. l + 1
    BY <1>1 DEF BeginFunction, Inv, Positions, Types
  <2> HIDE DEF l
  <2> QED
    BY <1>1, <2>1
<1>3. CASE nm \in DOMAIN module
  <2>1. hasBody(module[nm])
    BY <1>1, <1>3 DEF EachFinished, hasBody
  <2>2. Report("cannot be redefined") /\ stack' = stack /\ module' = module
    BY <1>3, <2>1, Zenon DEF BeginFunction, NameOf
  <2>3. ~Building' /\ stack' = <<>>
    BY <1>1, <2>2 DEF Report, Building
  <2>4. CodeComputesBody'
    BY <1>1, <2>2, FinishedCompute DEF MeaningInv
  <2> QED
    BY <2>3, <2>4, IdleMeans
<1>4. CASE nm \notin DOMAIN module
  <2>1. ~P.entry /\ g.args = P.args /\ g.line = line /\ g.code = <<>> /\ g.value = Null
    BY <1>1, <1>2, NewFunction
  <2>2. /\ module' = With(module, nm, g) /\ NamedValues' = Argument(P.args)
        /\ stack' = <<FrameOf(d.Body)>> /\ pc' = "Expr"
    BY <1>4, <2>1, Zenon DEF BeginFunction, NameOf, hasBody, Recorded
  <2>3. P.args = setNames(d.Proto.Args) /\ d.Proto.Args \in Seq(Names)
    BY <1>1, <1>2, ProgramIs DEF PrototypeASTtoIR
  <2>4. DistinctArgs(line) => P.args = d.Proto.Args
    BY <2>3, DistinctNamesStay DEF DistinctArgs
  <2> HIDE DEF P, g, nm
  <2>5. /\ DOMAIN module' = DOMAIN module \cup {nm} /\ module'[nm] = g
        /\ \A name \in DOMAIN module : name # nm /\ module'[name] = module[name]
    BY <1>4, <2>2 DEF With
  <2>6. Current' = g
    BY <1>1, <2>5 DEF Current, NameOf, nm
  <2>7. CodeComputesBody'
    BY <1>1, <2>1, <2>5, FinishedCompute DEF MeaningInv
  <2>8. Len(stack') = 1 /\ stack'[1].ast = Body(line) /\ Len(stack'[1].vals) = 0
    BY <2>2 DEF FrameOf, Body
  <2>9. Descends(stack', Body(line))
    <3>1. \A s \in 1 .. 1 : s = 1
      OBVIOUS
    <3> QED
      BY <2>8, <3>1 DEF Descends
  <2>10. \A s \in 1 .. Len(stack') : KidsMean(stack'[s], Current')
    <3>1. \A s \in 1 .. 1 : s = 1
      OBVIOUS
    <3>2. \A k \in 1 .. 0 : FALSE
      OBVIOUS
    <3> QED
      BY <2>8, <3>1, <3>2 DEF KidsMean
  <2>11. ASSUME DistinctArgs(line), NEW a \in DOMAIN NamedValues'
         PROVE  NameMeans(a, NamedValues'[a], Current')
    <3> DEFINE args == P.args
               i == CHOOSE k \in DOMAIN args : args[k] = a
    <3>1. NamedValues' = Argument(args)
      BY <2>2
    <3>2. a \in DOMAIN Argument(args)
      BY <2>11, <3>1
    <3> HIDE DEF args
    <3>3. \E k \in DOMAIN args : args[k] = a
      BY <3>2 DEF Argument, ToSet
    <3>4. i \in DOMAIN args /\ args[i] = a
      BY <3>3
    <3>5. Argument(args)[a] = Value("arg", line, i)
      BY <3>2 DEF Argument
    <3> HIDE DEF i
    <3>6. g.args = args /\ mod.lines[line].Proto.Args = args
      BY <2>1, <2>4, <2>11 DEF args
    <3> QED
      BY <2>1, <2>6, <3>1, <3>4, <3>5, <3>6 DEF NameMeans
  <2>12. Descends(stack, Body(line))' /\ BuildingMeans'
    BY <1>1, <2>2, <2>9, <2>10, <2>11, MeaningThen
  <2> QED
    BY <2>7, <2>12 DEF MeaningInv
<1> QED
  BY <1>3, <1>4

LEMMA FinishMeans ==
  ASSUME Inv, MeaningInv, FinishFunction
  PROVE  MeaningInv'
<1> DEFINE nm == NameOf(line)
           F == Current
           g == [F EXCEPT !.value = ret]
<1>1. pc = "Body" /\ ~Failed(ret)
  BY DEF FinishFunction
<1>2. /\ Building /\ Types /\ IsProgram(mod) /\ stack = <<>> /\ line \in 1 .. Len(mod.lines) /\ insert = line
      /\ nm \in DOMAIN module /\ F = module[nm] /\ FunctionOK(F) /\ F.line = line
      /\ DOMAIN F.code = 1 .. Len(F.code)
  BY <1>1, BodyIs
<1>3. mod' = mod /\ stack' = stack /\ pc' = "Line"
  BY DEF FinishFunction
<1>4. g.line = F.line /\ g.args = F.args /\ g.code = F.code /\ g.value = ret
  BY FinishIs
<1>6. Len(F.code) \in Nat
  BY <1>2, CodeIs
<1>7. /\ DOMAIN module' = DOMAIN module /\ module'[nm] = g
      /\ \A name \in DOMAIN module : name # nm => module'[name] = module[name]
  BY FinishIs
<1> HIDE DEF g, F, nm
<1>8. Extends(F, g)
  BY <1>2, <1>4, <1>6 DEF Extends
<1>9. ASSUME DistinctArgs(line) PROVE ret \in Computed(g)[Body(line)]
  <2>1. Means(F, ret, Body(line))
    BY <1>1, <1>2, <1>9 DEF MeaningInv, BuildingMeans, F
  <2>2. Body(line) \in DOMAIN mod.nodes
    BY <1>2, ProgramIs DEF Body
  <2>3. Means(g, ret, Body(line))
    BY <1>2, <1>8, <2>1, <2>2, MeansStays
  <2> QED
    BY <1>1, <2>3 DEF Means
<1>10. ASSUME NEW name \in DOMAIN module', module'[name].value # Null, DistinctArgs(module'[name].line)
       PROVE  module'[name].value \in Computed(module'[name])[Body(module'[name].line)]
  <2>1. CASE name = nm
    BY <1>2, <1>4, <1>7, <1>9, <1>10, <2>1
  <2>2. CASE name # nm
    BY <1>7, <1>10, <2>2 DEF MeaningInv, CodeComputesBody, Body
  <2> QED
    BY <2>1, <2>2
<1>11. CodeComputesBody'
  <2>1. \A i : DistinctArgs(i)' = DistinctArgs(i)
    BY <1>3 DEF DistinctArgs
  <2>2. \A f : Computed(f)' = Computed(f)
    BY <1>3, ComputedThen
  <2>3. \A i : mod'.lines[i].Body = Body(i)
    BY <1>3 DEF Body
  <2> QED
    BY <1>10, <2>1, <2>2, <2>3, Zenon DEF CodeComputesBody
<1>12. stack' = <<>> /\ ~Building'
  BY <1>2, <1>3 DEF Building
<1> QED
  BY <1>11, <1>12, IdleMeans

LEMMA RemoveMeans ==
  ASSUME Inv, MeaningInv, RemoveFunction
  PROVE  MeaningInv'
<1>1. pc = "Body" /\ pc' = "Undefined" /\ mod' = mod /\ stack' = stack /\ module' = eraseFromParent(NameOf(line))
  BY DEF RemoveFunction, Report, NameOf
<1>2. stack' = <<>> /\ ~Building'
  BY <1>1, BodyIs DEF Building
<1>3. \A name \in DOMAIN module' : name \in DOMAIN module /\ module'[name] = module[name]
  BY <1>1 DEF eraseFromParent
<1>4. CodeComputesBody'
  BY <1>1, <1>3, FinishedCompute DEF MeaningInv
<1> QED
  BY <1>2, <1>4, IdleMeans

-----------------------------------------------------------------------------
(***************************************************************************)
(* The theorem                                                             *)
(***************************************************************************)
LEMMA MeaningInit == Fresh => MeaningInv
<1> SUFFICES ASSUME Fresh PROVE MeaningInv
  OBVIOUS
<1>1. Len(stack) = 0 /\ DOMAIN module = {} /\ pc = "Get"
  BY DEF Fresh
<1> QED
  BY <1>1 DEF MeaningInv, Descends, BuildingMeans, Building, CodeComputesBody

LEMMA MeaningNext == Inv /\ MeaningInv /\ [Next]_vars => MeaningInv'
<1> SUFFICES ASSUME Inv, MeaningInv, [Next]_vars PROVE MeaningInv'
  OBVIOUS
<1>1. CASE ParserResult \/ Crash \/ GoOn \/ LinesDone
  BY <1>1, LoopMeans
<1>2. CASE BeginFunction
  BY <1>2, BeginMeans
<1>3. CASE FinishFunction
  BY <1>3, FinishMeans
<1>4. CASE RemoveFunction
  BY <1>4, RemoveMeans
<1>5. CASE ExprASTtoIR
  BY <1>5, ExprMeans
<1>6. CASE UNCHANGED vars
  <2>1. /\ mod' = mod /\ pc' = pc /\ line' = line /\ stack' = stack /\ ret' = ret
        /\ NamedValues' = NamedValues /\ module' = module
    BY <1>6 DEF vars
  <2>2. CodeComputesBody'
    BY <2>1, FinishedCompute DEF MeaningInv
  <2>3. Current' = Current /\ Building' = Building
    BY <2>1 DEF Current, Building, NameOf
  <2>4. Descends(stack, Body(line))' /\ BuildingMeans'
    BY <2>1, <2>3, MeaningThen DEF MeaningInv, BuildingMeans
  <2> QED
    BY <2>2, <2>4 DEF MeaningInv
<1> QED
  BY <1>1, <1>2, <1>3, <1>4, <1>5, <1>6 DEF Next, Terminated

\* The code of every finished function whose arguments have names of their own
\* computes its body, whatever the program: each operand, argument and result is a
\* value of the node it stands for.
THEOREM ComputesBody == Spec => []CodeComputesBody
<1>1. Init => MeaningInv
  BY MeaningInit DEF Init, Fresh
<1>2. MeaningInv => CodeComputesBody
  BY DEF MeaningInv
<1> QED
  BY <1>1, <1>2, Invariant, MeaningNext, PTL DEF Spec

-----------------------------------------------------------------------------
(***************************************************************************)
(* What is accepted.  A line's verdict is that of the nodes of its body:   *)
(* a node is good when it is valid and its kids are good.                  *)
(***************************************************************************)
ArgsOf(i) == mod.lines[i].Proto.Args
AllValid(i, root) == \A n \in Subtree(root) : ValidNode(i, mod.nodes[n])

LEMMA SubtreeIs ==
  ASSUME IsProgram(mod)
  PROVE  \A n \in DOMAIN mod.nodes :
           Subtree(n) = {n} \cup UNION {Subtree(k) : k \in ToSet(mod.nodes[n].kids)}
<1> DEFINE N == Len(mod.nodes)
           S == SUBSET (1 .. N)
           Below(m, g) == {m} \cup UNION {g[k] : k \in ToSet(mod.nodes[m].kids)}
           step == [m \in 1 .. N |-> [g \in [1 .. N -> S] |-> Below(m, g)]]
<1>1. N \in Nat /\ DOMAIN mod.nodes = 1 .. N
  BY ProgramIs
<1>2. ASSUME NEW m \in 1 .. N PROVE \A k \in ToSet(mod.nodes[m].kids) : k \in 1 .. m - 1 /\ k \in 1 .. N
  BY <1>1, KidsAre DEF ToSet
<1>3. ASSUME NEW m \in 1 .. N, NEW g \in [1 .. N -> S] PROVE Below(m, g) \in S
  <2>1. \A k \in ToSet(mod.nodes[m].kids) : g[k] \in S
    BY <1>2
  <2> QED
    BY <2>1
<1>4. ASSUME NEW m \in 1 .. N, NEW g \in [1 .. N -> S], NEW h \in [1 .. N -> S],
             \A k \in 1 .. m - 1 : g[k] = h[k]
      PROVE  Below(m, g) = Below(m, h)
  BY <1>2, <1>4
<1>5. {} \in S
  OBVIOUS
<1>6. /\ step \in [1 .. N -> [[1 .. N -> S] -> S]]
      /\ \A m \in 1 .. N : \A g \in [1 .. N -> S] : step[m][g] = Below(m, g)
  BY <1>3
<1> HIDE DEF N, S, Below, step
<1>7. PICK s \in [1 .. N -> S] : \A n \in 1 .. N : s[n] = step[n][s]
  <2>1. \A m \in 1 .. N : \A g, h \in [1 .. N -> S] :
           (\A k \in 1 .. m - 1 : g[k] = h[k]) => step[m][g] = step[m][h]
    <3> SUFFICES ASSUME NEW m \in 1 .. N, NEW g \in [1 .. N -> S], NEW h \in [1 .. N -> S],
                        \A k \in 1 .. m - 1 : g[k] = h[k]
                 PROVE  step[m][g] = step[m][h]
      OBVIOUS
    <3>1. Below(m, g) = Below(m, h)
      BY <1>4
    <3> QED
      BY <1>6, <3>1
  <2>2. step \in Steps(N, S)
    BY <1>6, <2>1 DEF Steps
  <2> QED
    BY <1>1, <1>5, <2>2, Recursion, SMTT(30)
<1> DEFINE sub == CHOOSE x : x = [m \in DOMAIN mod.nodes |-> Below(m, x)]
<1>8. s = [m \in DOMAIN mod.nodes |-> Below(m, s)]
  BY <1>1, <1>6, <1>7
<1>9. sub = [m \in DOMAIN mod.nodes |-> Below(m, sub)]
  BY <1>8, Zenon
<1>10. \A m : Subtree(m) = sub[m]
  BY Zenon DEF Subtree, Below
<1> HIDE DEF sub
<1>11. \A n \in DOMAIN mod.nodes : sub[n] = Below(n, sub)
  BY <1>9
<1> QED
  BY <1>10, <1>11 DEF Below

LEMMA AllValidIs ==
  ASSUME IsProgram(mod), NEW n \in DOMAIN mod.nodes, NEW i
  PROVE  AllValid(i, n) <=> /\ ValidNode(i, mod.nodes[n])
                            /\ \A k \in DOMAIN mod.nodes[n].kids : AllValid(i, mod.nodes[n].kids[k])
<1> DEFINE Valid(m) == ValidNode(i, mod.nodes[m])
<1>1. \A m : m \in Subtree(n) <=> m = n \/ \E k \in ToSet(mod.nodes[n].kids) : m \in Subtree(k)
  BY SubtreeIs
<1> HIDE DEF Valid
<1>2. (\A m \in Subtree(n) : Valid(m)) <=>
        Valid(n) /\ \A k \in DOMAIN mod.nodes[n].kids : \A m \in Subtree(mod.nodes[n].kids[k]) : Valid(m)
  BY <1>1 DEF ToSet
<1> QED
  BY <1>2 DEF AllValid, Valid

LEMMA CompiledAre == Types => \A j \in Int : Compiled(j) = CompiledLines(j)
BY CompiledIs

\* A verdict stays when the lines before are as they were.
LEMMA SubtreeThen ==
  ASSUME mod' = mod
  PROVE  \A n : Subtree(n)' = Subtree(n)
<1>1. \A x : [n \in DOMAIN mod'.nodes |-> {n} \cup UNION {x[k] : k \in ToSet(mod'.nodes[n].kids)}]
             = [n \in DOMAIN mod.nodes |-> {n} \cup UNION {x[k] : k \in ToSet(mod.nodes[n].kids)}]
  OBVIOUS
<1>2. (CHOOSE x : x = [n \in DOMAIN mod'.nodes |-> {n} \cup UNION {x[k] : k \in ToSet(mod'.nodes[n].kids)}])
      = CHOOSE x : x = [n \in DOMAIN mod.nodes |-> {n} \cup UNION {x[k] : k \in ToSet(mod.nodes[n].kids)}]
  BY <1>1, Zenon
<1>3. ASSUME NEW n PROVE Subtree(n)' = Subtree(n)
  BY <1>2, Zenon DEF Subtree
<1> QED
  BY <1>3

LEMMA VerdictStays ==
  ASSUME Types, Types', mod' = mod, NEW i \in Int, CompiledLines(i - 1)' = CompiledLines(i - 1)
  PROVE  /\ \A n : AllValid(i, n)' <=> AllValid(i, n)
         /\ ValidLine(i)' <=> ValidLine(i)
<1>1. i - 1 \in Int
  OBVIOUS
<1>2. Compiled(i - 1) = CompiledLines(i - 1)
  BY <1>1, CompiledIs
<1>3. Compiled(i - 1)' = CompiledLines(i - 1)'
  <2>1. Types' => (\A j \in Int : Compiled(j) = CompiledLines(j))'
    BY CompiledAre, PTL
  <2> QED
    BY <1>1, <2>1
<1>4. Compiled(i - 1)' = Compiled(i - 1)
  BY <1>2, <1>3
<1>5. \A e : ValidNode(i, e)' <=> ValidNode(i, e)
  BY <1>4, Zenon DEF ValidNode
<1>6. \A n : AllValid(i, n)' <=> AllValid(i, n)
  BY <1>5, SubtreeThen, Zenon DEF AllValid
<1>7. ValidLine(i)' <=> ValidLine(i)
  BY <1>4, <1>5, SubtreeThen, Zenon DEF ValidLine
<1> QED
  BY <1>6, <1>7

-----------------------------------------------------------------------------
(***************************************************************************)
(* The lines that a step passes                                            *)
(***************************************************************************)
LEMMA PassedSame ==
  ASSUME ReportedLines' = ReportedLines, Passed' = Passed
  PROVE  /\ \A i : CompiledLines(i)' = CompiledLines(i)
         /\ CompiledLines(Passed)' = CompiledLines(Passed)
<1>1. CompiledLines(Passed)' = CompiledLines(Passed)
  BY DEF CompiledLines
<1> QED
  BY <1>1 DEF CompiledLines

\* The line that is given up ...
LEMMA PassedReport ==
  ASSUME Inv, Counted, NEW e \in Error, Report(e), line \in 1 .. Len(mod.lines), pc \in {"Line", "Body"}, line' = line
  PROVE  /\ pc' = "Undefined" /\ Passed = line - 1 /\ Passed' = line
         /\ ReportedLines' = ReportedLines \cup {line}
         /\ \A i \in 1 .. line : CompiledLines(i - 1)' = CompiledLines(i - 1)
         /\ CompiledLines(Passed)' = CompiledLines(Passed)
<1> DEFINE l == Len(mod.lines)
<1>0. Types /\ l \in Nat /\ line \in 0 .. l /\ line \in Nat /\ line >= 1
  BY ProgramIs DEF Inv
<1>1. ReportedLines' = ReportedLines \cup {line} /\ pc' = "Undefined"
  BY <1>0, ReportAdds DEF Report
<1>2. Passed = line - 1 /\ Passed' = line
  BY <1>0, <1>1 DEF Passed
<1> HIDE DEF l
<1>3. \A i \in 1 .. line : line \notin 1 .. (i - 1)
  BY <1>0
<1>4. \A i \in 1 .. line : 1 .. (i - 1) \ (ReportedLines \cup {line}) = 1 .. (i - 1) \ ReportedLines
  BY <1>3
<1>5. \A i \in 1 .. line : CompiledLines(i - 1)' = CompiledLines(i - 1)
  BY <1>1, <1>4 DEF CompiledLines
<1>6. CompiledLines(Passed)' = 1 .. line \ (ReportedLines \cup {line})
  BY <1>1, <1>2 DEF CompiledLines
<1>7. 1 .. line \ (ReportedLines \cup {line}) = 1 .. (line - 1) \ ReportedLines
  BY <1>0, OneLineMore
<1> QED
  BY <1>1, <1>2, <1>5, <1>6, <1>7 DEF CompiledLines

\* ... and the one that is compiled
LEMMA PassedFinish ==
  ASSUME Inv, Counted, FinishFunction
  PROVE  /\ Passed = line - 1 /\ Passed' = line /\ ReportedLines' = ReportedLines /\ line \notin ReportedLines
         /\ CompiledLines(Passed)' = CompiledLines(Passed) \cup {line}
         /\ line \in Nat /\ line >= 1
<1>1. pc = "Body" /\ Building /\ pc' = "Line" /\ line' = line + 1 /\ log' = log
  BY DEF FinishFunction, Building
<1>2. line \in 1 .. Len(mod.lines) /\ Types
  BY <1>1 DEF Inv, Positions
<1>3. line \in Nat /\ line >= 1
  BY <1>2
<1>4. ReportedLines' = ReportedLines /\ Passed = line - 1 /\ Passed' = line
  BY <1>1, <1>3 DEF ReportedLines, Passed
<1>5. line \notin ReportedLines
  <2>1. \A k \in ReportedLines : k < line /\ k \in Nat
    BY <1>1, <1>2, CompiledIs DEF Counted
  <2> QED
    BY <1>3, <2>1
<1>6. 1 .. line = 1 .. (line - 1) \cup {line}
  BY <1>3
<1>7. CompiledLines(Passed)' = 1 .. line \ ReportedLines
  BY <1>4 DEF CompiledLines
<1>8. CompiledLines(Passed) = 1 .. (line - 1) \ ReportedLines
  BY <1>4 DEF CompiledLines
<1> QED
  BY <1>3, <1>4, <1>5, <1>6, <1>7, <1>8

-----------------------------------------------------------------------------
(***************************************************************************)
(* Each function is of a compiled line, or of the one that is being built, *)
(* and each compiled line has its function.                                *)
(***************************************************************************)
Owner(i) == i \in CompiledLines(Passed) \/ (Building /\ i = line)
Owners ==
  pc # "Crashed" =>
    /\ \A name \in DOMAIN module :
         Owner(module[name].line) /\ Len(module[name].args) = Len(ArgsOf(module[name].line))
    /\ \A c \in CompiledLines(Passed) : NameOf(c) \in DOMAIN module /\ module[NameOf(c)].line = c

LEMMA OwnersThen ==
  ASSUME mod' = mod,
         \A name \in DOMAIN module' :
           /\ module'[name].line \in CompiledLines(Passed)' \/ (Building' /\ module'[name].line = line')
           /\ Len(module'[name].args) = Len(ArgsOf(module'[name].line)),
         \A c \in CompiledLines(Passed)' : NameOf(c) \in DOMAIN module' /\ module'[NameOf(c)].line = c
  PROVE  Owners'
<1>1. (\A name \in DOMAIN module :
         Owner(module[name].line) /\ Len(module[name].args) = Len(ArgsOf(module[name].line)))'
  BY DEF Owner, ArgsOf
<1>2. (\A c \in CompiledLines(Passed) : NameOf(c) \in DOMAIN module /\ module[NameOf(c)].line = c)'
  BY DEF NameOf
<1> QED
  BY <1>1, <1>2 DEF Owners

\* The same lines have the same functions.
LEMMA OwnersStay ==
  ASSUME Owners, pc # "Crashed", mod' = mod, Building' <=> Building, Building => line' = line,
         CompiledLines(Passed)' = CompiledLines(Passed), SameFunctions
  PROVE  Owners'
BY OwnersThen DEF Owners, Owner, SameFunctions

LEMMA OwnersLoop ==
  ASSUME Inv, Counted, Owners, ParserResult \/ Crash \/ GoOn \/ LinesDone
  PROVE  Owners'
<1>1. CASE ParserResult
  <2>1. /\ DOMAIN module = {} /\ module' = module /\ line = 0
        /\ (pc' = "Line" /\ line' = 1) \/ (pc' = "Undefined" /\ line' = line)
    BY <1>1 DEF ParserResult, Counted, Report
  <2>2. Passed' = 0
    BY <2>1 DEF Passed
  <2>3. CompiledLines(Passed)' = {}
    <3>1. 1 .. 0 = {}
      OBVIOUS
    <3> QED
      BY <2>2, <3>1 DEF CompiledLines
  <2> QED
    BY <2>1, <2>3 DEF Owners
<1>2. CASE Crash
  BY <1>2 DEF Crash, Owners
<1>3. CASE GoOn \/ LinesDone
  <2>1. /\ module' = module /\ mod' = mod /\ log' = log
        /\ \/ pc = "Undefined" /\ pc' = "Line" /\ line' = line + 1
           \/ pc = "Line" /\ pc' = "Done" /\ line' = line
    BY <1>3 DEF GoOn, LinesDone
  <2>2. line \in Nat
    <3> DEFINE l == Len(mod.lines)
    <3>1. l \in Nat /\ line \in 0 .. l + 1
      BY ProgramIs DEF Inv, Types
    <3> HIDE DEF l
    <3> QED
      BY <3>1
  <2>3. ReportedLines' = ReportedLines /\ Passed' = Passed
    BY <2>1, <2>2 DEF ReportedLines, Passed
  <2>4. ~Building /\ ~Building' /\ pc # "Crashed"
    BY <2>1 DEF Building
  <2>5. CompiledLines(Passed)' = CompiledLines(Passed)
    BY <2>3, PassedSame
  <2> QED
    BY <2>1, <2>4, <2>5, OwnersStay DEF SameFunctions
<1> QED
  BY <1>1, <1>2, <1>3

\* A new function is that of the line.
LEMMA BeginIs ==
  ASSUME Inv, Counted, BeginFunction
  PROVE  LET nm == NameOf(line)
             g == [PrototypeASTtoIR(mod.lines[line].Proto) EXCEPT !.entry = TRUE]
         IN  /\ mod' = mod /\ line' = line /\ pc = "Line" /\ line \in 1 .. Len(mod.lines) /\ Passed = line - 1
             /\ nm \in DOMAIN module => Report("cannot be redefined") /\ module' = module
             /\ nm \notin DOMAIN module =>
                  /\ module' = With(module, nm, g) /\ NamedValues' = Argument(g.args)
                  /\ stack' = <<FrameOf(Body(line))>> /\ pc' = "Expr" /\ log' = log
                  /\ g.line = line /\ g.args = setNames(ArgsOf(line)) /\ Len(g.args) = Len(ArgsOf(line))
<1> DEFINE d == mod.lines[line]
           nm == NameOf(line)
           P == PrototypeASTtoIR(d.Proto)
           g == [P EXCEPT !.entry = TRUE]
           l == Len(mod.lines)
<1>1. /\ IsProgram(mod) /\ EachFinished /\ pc = "Line" /\ l \in Nat /\ mod' = mod /\ line' = line
  BY ProgramIs DEF BeginFunction, Inv
<1>2. line \in 1 .. l /\ line \in Nat
  <2>1. line <= l /\ line >= 1 /\ line \in 0 .. l + 1
    BY <1>1 DEF BeginFunction, Inv, Positions, Types
  <2> HIDE DEF l
  <2> QED
    BY <1>1, <2>1
<1>3. Passed = line - 1
  BY <1>1, <1>2 DEF Passed
<1>4. ASSUME nm \in DOMAIN module PROVE Report("cannot be redefined") /\ module' = module
  <2>1. hasBody(module[nm])
    BY <1>1, <1>4 DEF EachFinished, hasBody
  <2> QED
    BY <1>4, <2>1, Zenon DEF BeginFunction, NameOf
<1>5. /\ ~P.entry /\ g.args = P.args /\ g.line = line
  BY <1>1, <1>2, NewFunction
<1>6. ASSUME nm \notin DOMAIN module
      PROVE  /\ module' = With(module, nm, g) /\ NamedValues' = Argument(P.args)
             /\ stack' = <<FrameOf(d.Body)>> /\ pc' = "Expr" /\ log' = log
  BY <1>5, <1>6, Zenon DEF BeginFunction, NameOf, hasBody, Recorded
<1>7. d.Proto.Args \in Seq(Names)
  BY <1>1, <1>2, ProgramIs
<1>8. Len(d.Proto.Args) \in Nat
  BY <1>7, LenProperties
<1>9. P.args = setNames(d.Proto.Args)
  BY DEF PrototypeASTtoIR
<1>10. Len(setNames(d.Proto.Args)) = Len(d.Proto.Args)
  BY <1>8, SetNamesIs
<1> HIDE DEF g, P, nm, l
<1> QED
  BY <1>1, <1>2, <1>3, <1>4, <1>5, <1>6, <1>9, <1>10 DEF ArgsOf, Body, g, P, nm, l

LEMMA OwnersBegin ==
  ASSUME Inv, Counted, Owners, BeginFunction
  PROVE  Owners'
<1> DEFINE nm == NameOf(line)
           g == [PrototypeASTtoIR(mod.lines[line].Proto) EXCEPT !.entry = TRUE]
<1>1. mod' = mod /\ line' = line /\ pc = "Line" /\ line \in 1 .. Len(mod.lines) /\ Passed = line - 1
  BY BeginIs
<1>2. CASE nm \in DOMAIN module
  <2>1. Report("cannot be redefined") /\ module' = module /\ "cannot be redefined" \in Error
    BY <1>2, BeginIs DEF Error
  <2>2. pc' = "Undefined" /\ CompiledLines(Passed)' = CompiledLines(Passed)
    BY <1>1, <2>1, PassedReport
  <2>3. ~Building /\ ~Building' /\ pc # "Crashed"
    BY <1>1, <2>2 DEF Building
  <2> QED
    BY <1>1, <2>1, <2>2, <2>3, OwnersStay DEF SameFunctions
<1>3. CASE nm \notin DOMAIN module
  <2>1. /\ module' = With(module, nm, g) /\ pc' = "Expr" /\ log' = log
        /\ g.line = line /\ Len(g.args) = Len(ArgsOf(line))
    BY <1>3, BeginIs
  <2> HIDE DEF nm, g
  <2>2. /\ DOMAIN module' = DOMAIN module \cup {nm} /\ module'[nm] = g
        /\ \A name \in DOMAIN module : name # nm /\ module'[name] = module[name]
    BY <1>3, <2>1 DEF With
  <2>3. ReportedLines' = ReportedLines /\ Passed' = Passed
    BY <1>1, <2>1 DEF ReportedLines, Passed
  <2>4. CompiledLines(Passed)' = CompiledLines(Passed) /\ Building' /\ ~Building
    BY <1>1, <2>1, <2>3, PassedSame DEF Building
  <2>5. ASSUME NEW name \in DOMAIN module'
        PROVE  /\ module'[name].line \in CompiledLines(Passed)' \/ (Building' /\ module'[name].line = line')
               /\ Len(module'[name].args) = Len(ArgsOf(module'[name].line))
    <3>1. CASE name = nm
      BY <1>1, <2>1, <2>2, <2>4, <3>1
    <3>2. CASE name # nm
      BY <1>1, <2>2, <2>4, <3>2 DEF Owners, Owner
    <3> QED
      BY <3>1, <3>2
  <2>6. ASSUME NEW c \in CompiledLines(Passed)' PROVE NameOf(c) \in DOMAIN module' /\ module'[NameOf(c)].line = c
    BY <1>1, <2>2, <2>4 DEF Owners
  <2> QED
    BY <1>1, <2>5, <2>6, OwnersThen
<1> QED
  BY <1>2, <1>3

LEMMA OwnersFinish ==
  ASSUME Inv, Counted, Owners, FinishFunction
  PROVE  Owners'
<1> DEFINE nm == NameOf(line)
<1>1. /\ Passed = line - 1 /\ Passed' = line /\ CompiledLines(Passed)' = CompiledLines(Passed) \cup {line}
  BY PassedFinish
<1>2. pc = "Body" /\ mod' = mod
  BY DEF FinishFunction
<1>3. nm \in DOMAIN module /\ Current = module[nm] /\ Current.line = line
  BY <1>2, BodyIs
<1>4. DOMAIN module' = DOMAIN module
  BY FinishIs
<1>5. module'[nm].line = Current.line /\ module'[nm].args = Current.args
  BY FinishIs
<1>6. \A name \in DOMAIN module : name # nm => module'[name] = module[name]
  BY FinishIs
<1>7. \A name \in DOMAIN module :
        module'[name].line = module[name].line /\ module'[name].args = module[name].args
  BY <1>3, <1>5, <1>6
<1> HIDE DEF nm
<1>8. ASSUME NEW name \in DOMAIN module'
      PROVE  /\ module'[name].line \in CompiledLines(Passed)' \/ (Building' /\ module'[name].line = line')
             /\ Len(module'[name].args) = Len(ArgsOf(module'[name].line))
  <2>1. Owner(module[name].line) /\ Len(module[name].args) = Len(ArgsOf(module[name].line))
    BY <1>2, <1>4 DEF Owners
  <2> QED
    BY <1>1, <1>4, <1>7, <2>1 DEF Owner
<1>9. ASSUME NEW c \in CompiledLines(Passed)' PROVE NameOf(c) \in DOMAIN module' /\ module'[NameOf(c)].line = c
  <2>1. CASE c = line
    BY <1>3, <1>4, <1>7, <2>1 DEF nm
  <2>2. CASE c # line
    BY <1>1, <1>2, <1>4, <1>7, <2>2 DEF Owners
  <2> QED
    BY <2>1, <2>2
<1> QED
  BY <1>2, <1>8, <1>9, OwnersThen

LEMMA OwnersRemove ==
  ASSUME Inv, Counted, Owners, RemoveFunction
  PROVE  Owners'
<1> DEFINE nm == NameOf(line)
<1>1. pc = "Body" /\ mod' = mod /\ line' = line /\ Report(ret.kind) /\ ret.kind \in Error /\ module' = eraseFromParent(nm)
  BY DEF RemoveFunction, Failed, NameOf
<1>2. /\ nm \in DOMAIN module /\ module[nm].line = line /\ line \in 1 .. Len(mod.lines) /\ line \in Nat
      /\ \A name \in DOMAIN module : NameOf(module[name].line) = name
  BY <1>1, BodyIs DEF Inv, EachFinished
<1>3. Passed = line - 1 /\ CompiledLines(Passed)' = CompiledLines(Passed)
  BY <1>1, <1>2, PassedReport
<1>4. DOMAIN module' = DOMAIN module \ {nm} /\ \A name \in DOMAIN module' : module'[name] = module[name]
  BY <1>1 DEF eraseFromParent
<1>5. line \notin CompiledLines(Passed)
  <2>1. line \notin 1 .. (line - 1)
    BY <1>2
  <2> QED
    BY <1>3, <2>1 DEF CompiledLines
<1>6. ASSUME NEW name \in DOMAIN module'
      PROVE  module'[name].line \in CompiledLines(Passed)' /\ Len(module'[name].args) = Len(ArgsOf(module'[name].line))
  <2>1. name \in DOMAIN module /\ name # nm /\ module'[name] = module[name]
    BY <1>4
  <2>2. Owner(module[name].line) /\ Len(module[name].args) = Len(ArgsOf(module[name].line))
    BY <1>1, <2>1 DEF Owners
  <2>3. module[name].line # line
    BY <1>2, <2>1
  <2> QED
    BY <1>3, <2>1, <2>2, <2>3 DEF Owner
<1>7. ASSUME NEW c \in CompiledLines(Passed)' PROVE NameOf(c) \in DOMAIN module' /\ module'[NameOf(c)].line = c
  <2>1. c \in CompiledLines(Passed) /\ c # line
    BY <1>3, <1>5
  <2>2. NameOf(c) \in DOMAIN module /\ module[NameOf(c)].line = c
    BY <1>1, <2>1 DEF Owners
  <2>3. NameOf(c) # nm
    BY <1>2, <2>1, <2>2
  <2> QED
    BY <1>4, <2>2, <2>3
<1> QED
  BY <1>1, <1>6, <1>7, OwnersThen

LEMMA OwnersNext == Inv /\ Counted /\ Owners /\ [Next]_vars => Owners'
<1> SUFFICES ASSUME Inv, Counted, Owners, [Next]_vars PROVE Owners'
  OBVIOUS
<1>1. CASE ParserResult \/ Crash \/ GoOn \/ LinesDone
  BY <1>1, OwnersLoop
<1>2. CASE BeginFunction
  BY <1>2, OwnersBegin
<1>3. CASE FinishFunction
  BY <1>3, OwnersFinish
<1>4. CASE RemoveFunction
  BY <1>4, OwnersRemove
<1>5. CASE ExprASTtoIR
  <2>1. Rests /\ pc = "Expr" /\ pc' \in {"Expr", "Body"} /\ SameFunctions
    BY <1>5, ExprIs
  <2>2. ReportedLines' = ReportedLines /\ Passed' = Passed
    BY <2>1 DEF ReportedLines, Passed, Rests
  <2>3. Building /\ Building' /\ CompiledLines(Passed)' = CompiledLines(Passed)
    BY <2>1, <2>2, PassedSame DEF Building
  <2> QED
    BY <2>1, <2>3, OwnersStay DEF Rests
<1>6. CASE UNCHANGED vars
  <2>1. /\ mod' = mod /\ log' = log /\ pc' = pc /\ line' = line /\ module' = module
    BY <1>6 DEF vars
  <2>2. ReportedLines' = ReportedLines /\ Passed' = Passed
    BY <2>1 DEF ReportedLines, Passed
  <2>3. CompiledLines(Passed)' = CompiledLines(Passed) /\ SameFunctions /\ (Building' <=> Building)
    BY <2>1, <2>2, PassedSame DEF SameFunctions, Building
  <2> QED
    BY <2>1, <2>3, OwnersStay DEF Owners
<1> QED
  BY <1>1, <1>2, <1>3, <1>4, <1>5, <1>6 DEF Next, Terminated

\* Whether a call is good: some line compiled before, or this one, has the name and as many arguments.
LEMMA CallableIs ==
  ASSUME Inv, Owners, Building, NEW name, NEW n
  PROVE  Callable(name, n) <=> \E c \in Compiled(line - 1) \cup {line} :
           mod.lines[c].Proto.Name = name /\ Len(mod.lines[c].Proto.Args) = n
<1>1. /\ line \in 1 .. Len(mod.lines) /\ NameOf(line) \in DOMAIN module /\ Current.line = line
      /\ Current = module[NameOf(line)] /\ Types /\ EachFinished
  BY DEF Inv, Positions, Current
<1>2. pc # "Crashed" /\ pc # "Undefined"
  BY DEF Building
<1>3. line \in Nat /\ line - 1 \in Int
  BY <1>1
<1>4. Passed = line - 1
  BY <1>2 DEF Passed
<1>5. Compiled(line - 1) = CompiledLines(Passed)
  BY <1>1, <1>3, <1>4, CompiledIs
<1>6. \A c : Owner(c) <=> c \in Compiled(line - 1) \cup {line}
  BY <1>5 DEF Owner
<1>7. ASSUME Callable(name, n) PROVE \E c : Owner(c) /\ NameOf(c) = name /\ Len(ArgsOf(c)) = n
  <2>1. name \in DOMAIN module /\ Len(module[name].args) = n
    BY <1>7 DEF Callable
  <2> QED
    BY <1>1, <1>2, <2>1 DEF Owners, EachFinished
<1>8. ASSUME NEW c, Owner(c), NameOf(c) = name, Len(ArgsOf(c)) = n PROVE Callable(name, n)
  <2>1. name \in DOMAIN module /\ module[name].line = c
    BY <1>1, <1>2, <1>8 DEF Owners, Owner
  <2>2. Len(module[name].args) = Len(ArgsOf(c))
    BY <1>2, <2>1 DEF Owners
  <2> QED
    BY <1>8, <2>1, <2>2 DEF Callable
<1> QED
  BY <1>6, <1>7, <1>8 DEF NameOf, ArgsOf

-----------------------------------------------------------------------------
(***************************************************************************)
(* The inductive invariant: a call of ExprASTtoIR fails when its node is   *)
(* not good, and a line is compiled when its body is and its name is new.  *)
(***************************************************************************)
Judged(v, n) == Failed(v) <=> ~AllValid(line, n)
KidsJudged(fr) == \A k \in 1 .. Len(fr.vals) : Judged(fr.vals[k], mod.nodes[fr.ast].kids[k])

\* What is in the map is what the line declares.
Named(map, a) == a \in DOMAIN map /\ map[a] # Null
Declared(map) == \A a \in Names : Named(map, a) <=> a \in ToSet(ArgsOf(line))

BuildingJudges ==
  Building /\ DistinctArgs(line) =>
    /\ Declared(NamedValues)
    /\ \A s \in 1 .. Len(stack) : KidsJudged(stack[s])
    /\ pc = "Body" => Judged(ret, Body(line))

EarlierJudged ==
  pc # "Crashed" => \A i \in 1 .. Passed : DistinctArgs(i) => (ValidLine(i) <=> i \notin ReportedLines)

JudgeInv == Owners /\ BuildingJudges /\ EarlierJudged

\* The lines before stay what they are, and so do the verdicts.
LEMMA JudgedStays ==
  ASSUME Types, Types', mod' = mod, line' = line, line \in Int, CompiledLines(line - 1)' = CompiledLines(line - 1)
  PROVE  \A v, n : Judged(v, n)' <=> Judged(v, n)
<1>1. PICK i \in Int : i = line
  OBVIOUS
<1>2. CompiledLines(i - 1)' = CompiledLines(i - 1)
  BY <1>1 DEF CompiledLines
<1>3. \A n : AllValid(i, n)' <=> AllValid(i, n)
  BY <1>2, VerdictStays
<1>4. \A v, n : Judged(v, n) <=> (Failed(v) <=> ~AllValid(i, n))
  BY <1>1 DEF Judged
<1>5. \A v, n : Judged(v, n)' <=> (Failed(v) <=> ~AllValid(i, n)')
  BY <1>1 DEF Judged, AllValid, Failed
<1> QED
  BY <1>3, <1>4, <1>5

LEMMA JudgesThen ==
  ASSUME Types, Types', mod' = mod, line' = line, line \in Int, CompiledLines(line - 1)' = CompiledLines(line - 1),
         DistinctArgs(line) /\ Building' =>
           /\ Declared(NamedValues')
           /\ \A s \in 1 .. Len(stack') : KidsJudged(stack'[s])
           /\ pc' = "Body" => Judged(ret', Body(line))
  PROVE  BuildingJudges'
<1>1. \A v, n : Judged(v, n)' <=> Judged(v, n)
  BY JudgedStays
<1>2. DistinctArgs(line)' = DistinctArgs(line) /\ Body(line)' = Body(line)
  BY DEF DistinctArgs, Body
<1>3. \A fr : KidsJudged(fr)' <=> KidsJudged(fr)
  BY <1>1 DEF KidsJudged
<1>4. \A map : Declared(map)' <=> Declared(map)
  BY DEF Declared, Named, ArgsOf, Null
<1> QED
  BY <1>1, <1>2, <1>3, <1>4, Zenon DEF BuildingJudges

LEMMA EarlierSame ==
  ASSUME Types, Types', EarlierJudged, pc # "Crashed", mod' = mod, ReportedLines' = ReportedLines,
         Passed' = Passed, Passed \in Int
  PROVE  EarlierJudged'
<1>1. \A i \in Int : CompiledLines(i - 1)' = CompiledLines(i - 1)
  BY DEF CompiledLines
<1>2. \A i \in Int : ValidLine(i)' <=> ValidLine(i)
  BY <1>1, VerdictStays
<1>3. \A i : DistinctArgs(i)' <=> DistinctArgs(i)
  BY DEF DistinctArgs
<1>4. \A i \in 1 .. Passed : DistinctArgs(i) => (ValidLine(i) <=> i \notin ReportedLines)
  BY DEF EarlierJudged
<1>5. (\A i \in 1 .. Passed : DistinctArgs(i) => (ValidLine(i) <=> i \notin ReportedLines))'
  BY <1>2, <1>3, <1>4
<1> QED
  BY <1>5 DEF EarlierJudged

LEMMA EarlierNext ==
  ASSUME Types, Types', EarlierJudged, pc # "Crashed", mod' = mod, line \in Nat, line >= 1,
         Passed = line - 1, Passed' = line,
         ReportedLines' \in {ReportedLines, ReportedLines \cup {line}},
         \A i \in 1 .. line : CompiledLines(i - 1)' = CompiledLines(i - 1),
         DistinctArgs(line) => (ValidLine(line) <=> line \notin ReportedLines')
  PROVE  EarlierJudged'
<1>1. ASSUME NEW i \in 1 .. line PROVE ValidLine(i)' <=> ValidLine(i)
  <2>1. i \in Int
    OBVIOUS
  <2> QED
    BY <2>1, VerdictStays
<1>2. \A i : DistinctArgs(i)' <=> DistinctArgs(i)
  BY DEF DistinctArgs
<1>3. ASSUME NEW i \in 1 .. line, DistinctArgs(i) PROVE ValidLine(i) <=> i \notin ReportedLines'
  <2>1. CASE i = line
    BY <1>3, <2>1
  <2>2. CASE i # line
    <3>1. i \in 1 .. Passed
      BY <2>2
    <3>2. i \in ReportedLines' <=> i \in ReportedLines
      BY <2>2
    <3> QED
      BY <1>3, <3>1, <3>2 DEF EarlierJudged
  <2> QED
    BY <2>1, <2>2
<1>4. (\A i \in 1 .. Passed : DistinctArgs(i) => (ValidLine(i) <=> i \notin ReportedLines))'
  BY <1>1, <1>2, <1>3
<1> QED
  BY <1>4 DEF EarlierJudged

-----------------------------------------------------------------------------
(***************************************************************************)
(* The steps of ExprASTtoIR                                                *)
(***************************************************************************)
\* A step of ExprASTtoIR leaves the lines before alone.
LEMMA RestsAre ==
  ASSUME Inv, pc = "Expr", Rests
  PROVE  /\ Types /\ IsProgram(mod) /\ Building /\ mod' = mod /\ line' = line /\ line \in Nat
         /\ CompiledLines(line - 1)' = CompiledLines(line - 1)
<1>1. Types /\ IsProgram(mod) /\ Building /\ line \in 1 .. Len(mod.lines)
  BY DEF Inv, Positions, Building
<1>2. CompiledLines(line - 1)' = CompiledLines(line - 1)
  BY DEF CompiledLines, ReportedLines, Rests
<1> QED
  BY <1>1, <1>2 DEF Rests

LEMMA KidJudged ==
  ASSUME NEW fr \in CallFrame, NEW gr, NEW v \in AnyValue, KidsJudged(fr), Judged(v, NextKid(fr)),
         gr.ast = fr.ast, gr.vals = Append(fr.vals, v)
  PROVE  KidsJudged(gr)
<1> DEFINE vals == fr.vals
           new == gr.vals
           n == Len(fr.vals)
           J(x, k) == Judged(x, mod.nodes[fr.ast].kids[k])
<1>1. vals \in Seq(AnyValue) /\ n \in Nat
  BY FrameIs
<1>2. Len(new) = n + 1 /\ (\A k \in 1 .. n : new[k] = vals[k]) /\ new[n + 1] = v
  BY <1>1, AppendLast
<1>3. \A k \in 1 .. n : J(vals[k], k)
  BY DEF KidsJudged
<1>4. J(v, n + 1)
  BY DEF NextKid
<1> HIDE DEF n, vals, new, J
<1>5. \A k \in 1 .. n + 1 : k \in 1 .. n \/ k = n + 1
  BY <1>1
<1>6. \A k \in 1 .. Len(new) : J(new[k], k)
  BY <1>2, <1>3, <1>4, <1>5
<1> QED
  BY <1>6 DEF KidsJudged, new, J

\* What a call returns is right for its node: the call for the parent node has got it for that kid.
LEMMA ReturnedJudges ==
  ASSUME Inv, Inv', Descends(stack, Body(line)), BuildingJudges, pc = "Expr", NEW v \in AnyValue, Return(v), Rests,
         DistinctArgs(line) => Judged(v, Top.ast) /\ Declared(NamedValues')
  PROVE  BuildingJudges'
<1>1. /\ Types /\ Types' /\ Building /\ mod' = mod /\ line' = line /\ line \in Int
      /\ CompiledLines(line - 1)' = CompiledLines(line - 1)
  BY RestsAre DEF Inv
<1>2. /\ stack \in Seq(CallFrame) /\ Len(stack) \in Nat /\ Len(stack) >= 1
      /\ \A s \in 1 .. Len(stack) : stack[s] \in CallFrame
      /\ Top = stack[Len(stack)]
  BY TopIs
<1>3. DistinctArgs(line) => \A s \in 1 .. Len(stack) : KidsJudged(stack[s])
  BY <1>1 DEF BuildingJudges
<1>4. CASE Len(stack) = 1
  <2>1. stack' = <<>> /\ ret' = v /\ pc' = "Body" /\ Len(stack') = 0
    BY <1>4 DEF Return
  <2>2. Top.ast = Body(line)
    BY <1>2, <1>4 DEF Descends
  <2>3. \A s \in 1 .. Len(stack') : KidsJudged(stack'[s])
    BY <2>1
  <2> QED
    BY <1>1, <2>1, <2>2, <2>3, JudgesThen
<1>5. CASE Len(stack) # 1
  <2> DEFINE n == Len(stack) - 1
  <2>0. stack' = [Front(stack) EXCEPT ![Len(stack) - 1].vals = Append(@, v)] /\ pc' = "Expr"
    BY <1>1, <1>5, Zenon DEF Return, Inv, Building
  <2>r. Len(stack) >= 2
    <3> DEFINE l == Len(stack)
    <3>1. l \in Nat /\ l >= 1 /\ l # 1
      BY <1>2, <1>5
    <3> HIDE DEF l
    <3>2. l >= 2
      BY <3>1
    <3> QED
      BY <3>2 DEF l
  <2>1. /\ Len(stack') = n /\ n \in Nat /\ n >= 1
        /\ \A i \in 1 .. n : i # n => stack'[i] = stack[i]
        /\ stack'[n].ast = stack[n].ast /\ stack'[n].vals = Append(stack[n].vals, v)
    BY <1>2, <2>0, <2>r, ReturnStack
  <2>2. Len(stack) = n + 1
    BY <1>2
  <2> HIDE DEF n
  <2>3. \A i \in 1 .. n : i \in 1 .. Len(stack)
    BY <2>1, <2>2
  <2>4. Top.ast = NextKid(stack[n])
    <3>1. n + 1 \in 1 .. Len(stack) /\ n + 1 # 1 /\ (n + 1) - 1 = n
      BY <2>1, <2>2
    <3> QED
      BY <1>2, <2>2, <3>1 DEF Descends
  <2>5. ASSUME DistinctArgs(line), NEW s \in 1 .. n PROVE KidsJudged(stack'[s])
    <3>1. stack[s] \in CallFrame /\ KidsJudged(stack[s])
      BY <1>2, <1>3, <2>3, <2>5
    <3>2. CASE s # n
      BY <2>1, <3>1, <3>2
    <3>3. CASE s = n
      <4>1. Judged(v, NextKid(stack[n]))
        BY <2>4, <2>5
      <4> QED
        BY <2>1, <3>1, <3>3, <4>1, KidJudged
    <3> QED
      BY <3>2, <3>3
  <2> QED
    BY <1>1, <2>0, <2>1, <2>5, JudgesThen
<1> QED
  BY <1>4, <1>5

LEMMA VisitedJudges ==
  ASSUME Inv, Inv', BuildingJudges, pc = "Expr", Visit
  PROVE  BuildingJudges'
<1> DEFINE fr == FrameOf(NextKid(Top))
           n == Len(stack)
           S == CallFrame \cup {fr}
<1>1. stack' = Append(stack, fr) /\ pc' = pc /\ NamedValues' = NamedValues /\ Rests
  BY DEF Visit, Rest, Rests, NextKid, ast
<1>2. /\ Types /\ Types' /\ Building /\ mod' = mod /\ line' = line /\ line \in Int
      /\ CompiledLines(line - 1)' = CompiledLines(line - 1)
  BY <1>1, RestsAre DEF Inv
<1>3. stack \in Seq(CallFrame) /\ n \in Nat
  BY TopIs
<1>4. fr.vals = <<>> /\ Len(fr.vals) = 0
  BY DEF FrameOf
<1>5. stack \in Seq(S) /\ fr \in S
  BY <1>3, SeqMonotonic
<1> HIDE DEF fr, S
<1>6. Len(stack') = n + 1 /\ (\A s \in 1 .. n : stack'[s] = stack[s]) /\ stack'[n + 1] = fr
  BY <1>1, <1>5, AppendLast
<1>7. KidsJudged(fr)
  BY <1>4 DEF KidsJudged
<1>8. DistinctArgs(line) => Declared(NamedValues) /\ \A s \in 1 .. n : KidsJudged(stack[s])
  BY <1>2 DEF BuildingJudges
<1> HIDE DEF n
<1>9. \A s \in 1 .. n + 1 : s \in 1 .. n \/ s = n + 1
  BY <1>3
<1>10. DistinctArgs(line) => \A s \in 1 .. Len(stack') : KidsJudged(stack'[s])
  BY <1>6, <1>7, <1>8, <1>9
<1> QED
  BY <1>1, <1>2, <1>8, <1>10, JudgesThen

\* What makes the active call's node good
LEMMA TopJudged ==
  ASSUME Inv, Owners, BuildingJudges, pc = "Expr", DistinctArgs(line)
  PROVE  /\ \A k \in 1 .. Len(Top.vals) : /\ k \in 1 .. Len(ast.kids)
                                          /\ Failed(Top.vals[k]) <=> ~AllValid(line, ast.kids[k])
         /\ AllValid(line, Top.ast) <=>
              /\ ast.kind = "Variable" => ast.val \in ToSet(ArgsOf(line))
              /\ ast.kind = "Binary" => ast.val \in {"+", "-", "*", "<"}
              /\ ast.kind = "Call" => Callable(ast.val, Len(ast.kids))
              /\ \A k \in 1 .. Len(ast.kids) : AllValid(line, ast.kids[k])
         /\ Declared(NamedValues)
<1>1. /\ Len(stack) \in Nat /\ Len(stack) >= 1 /\ Top = stack[Len(stack)]
      /\ Top.ast \in DOMAIN mod.nodes /\ ast = mod.nodes[Top.ast] /\ Len(Top.vals) \in Nat
      /\ IsProgram(mod) /\ Building
  BY TopIs DEF Inv, Building
<1>2. KidsJudged(Top) /\ Declared(NamedValues)
  <2> DEFINE n == Len(stack)
  <2>1. n \in Nat /\ n >= 1
    BY <1>1
  <2> HIDE DEF n
  <2>2. n \in 1 .. n
    BY <2>1
  <2> QED
    BY <1>1, <2>2 DEF BuildingJudges, n
<1>3. Len(Top.vals) <= Len(ast.kids)
  BY TopIs DEF FrameOK
<1>4. DOMAIN ast.kids = 1 .. Len(ast.kids) /\ Len(ast.kids) \in Nat
  BY <1>1, KidsAre
<1>5. \A k \in 1 .. Len(Top.vals) : k \in 1 .. Len(ast.kids)
  <2> DEFINE n == Len(Top.vals)
             m == Len(ast.kids)
  <2>1. n \in Nat /\ m \in Nat /\ n <= m
    BY <1>1, <1>3, <1>4
  <2> HIDE DEF n, m
  <2>2. \A k \in 1 .. n : k \in 1 .. m
    BY <2>1
  <2> QED
    BY <2>2 DEF n, m
<1>6. \A k \in 1 .. Len(Top.vals) : Failed(Top.vals[k]) <=> ~AllValid(line, ast.kids[k])
  BY <1>1, <1>2 DEF KidsJudged, Judged
<1>7. ValidNode(line, ast) <=>
        /\ ast.kind = "Variable" => ast.val \in ToSet(ArgsOf(line))
        /\ ast.kind = "Binary" => ast.val \in {"+", "-", "*", "<"}
        /\ ast.kind = "Call" => Callable(ast.val, Len(ast.kids))
  <2>1. Callable(ast.val, Len(ast.kids)) <=> \E c \in Compiled(line - 1) \cup {line} :
          mod.lines[c].Proto.Name = ast.val /\ Len(mod.lines[c].Proto.Args) = Len(ast.kids)
    BY <1>1, CallableIs
  <2> QED
    BY <2>1, Zenon DEF ValidNode, ArgsOf
<1>8. AllValid(line, Top.ast) <=> ValidNode(line, ast) /\ \A k \in 1 .. Len(ast.kids) : AllValid(line, ast.kids[k])
  BY <1>1, <1>4, AllValidIs
<1> QED
  BY <1>2, <1>5, <1>6, <1>7, <1>8, Zenon

LEMMA QuietJudges ==
  ASSUME Inv, Inv', Owners, Descends(stack, Body(line)), BuildingJudges, pc = "Expr", NEW v \in AnyValue, Return(v),
         Rests, NamedValues' = NamedValues, DistinctArgs(line) => Judged(v, Top.ast)
  PROVE  BuildingJudges'
<1>1. DistinctArgs(line) => Declared(NamedValues')
  BY TopJudged
<1> QED
  BY <1>1, ReturnedJudges

\* An error is right for a node that is not good.
LEMMA FailureJudges ==
  ASSUME Inv, Inv', Owners, Descends(stack, Body(line)), BuildingJudges, pc = "Expr", NEW v \in AnyValue, Failed(v),
         Return(v), Rests, NamedValues' = NamedValues, DistinctArgs(line) => ~AllValid(line, Top.ast)
  PROVE  BuildingJudges'
BY QuietJudges DEF Judged

LEMMA NumberJudges ==
  ASSUME Inv, Inv', Owners, Descends(stack, Body(line)), BuildingJudges, NumberExprASTtoIR
  PROVE  BuildingJudges'
<1> DEFINE v == Value("const", 0, Top.ast)
<1>1. pc = "Expr" /\ ast.kind = "Number" /\ Return(v) /\ Rests /\ NamedValues' = NamedValues
  BY DEF NumberExprASTtoIR, At, Rest, Rests
<1>2. /\ v \in AnyValue /\ Top.ast \in DOMAIN mod.nodes /\ ast = mod.nodes[Top.ast]
      /\ IsProgram(mod) /\ Len(mod.lines) \in Nat
  BY <1>1, ConstantIs, TopIs, ProgramIs DEF Inv
<1>3. Len(ast.kids) = 0 /\ \A k \in 1 .. 0 : FALSE
  BY <1>1, <1>2, ProgramIs
<1>4. ~Failed(v)
  BY DEF Failed, Error, Value
<1>5. ASSUME DistinctArgs(line) PROVE Judged(v, Top.ast)
  <2>1. AllValid(line, Top.ast)
    BY <1>1, <1>3, <1>5, TopJudged
  <2> QED
    BY <1>4, <2>1 DEF Judged
<1> HIDE DEF v
<1> QED
  BY <1>1, <1>2, <1>5, QuietJudges

LEMMA VariableName ==
  ASSUME IsProgram(mod), NEW n \in DOMAIN mod.nodes, mod.nodes[n].kind = "Variable"
  PROVE  mod.nodes[n].val \in Names
<1>1. n \in 1 .. Len(mod.nodes)
  BY ProgramIs
<1> QED
  BY <1>1, Zenon DEF IsProgram, IsNode

LEMMA VariableJudges ==
  ASSUME Inv, Inv', Owners, Descends(stack, Body(line)), BuildingJudges, VariableExprASTtoIR
  PROVE  BuildingJudges'
<1> DEFINE V == IF ast.val \in DOMAIN NamedValues THEN NamedValues[ast.val] ELSE Null
           v == IF V = Null THEN Failure("undefined variable") ELSE V
<1>1. /\ pc = "Expr" /\ ast.kind = "Variable" /\ NamedValues' = With(NamedValues, ast.val, V) /\ Return(v)
      /\ Rests
  BY Zenon DEF VariableExprASTtoIR, At, Rest, Rests
<1>2. /\ Top.ast \in DOMAIN mod.nodes /\ ast = mod.nodes[Top.ast] /\ IsProgram(mod)
      /\ Len(mod.lines) \in Nat /\ Building
  BY <1>1, TopIs, ProgramIs DEF Inv, Building
<1>3. \A a \in DOMAIN NamedValues : NamedValues[a] \in AnyValue /\ Recording(NamedValues[a])
  BY <1>2, NamedValuesAre
<1>4. V \in AnyValue /\ Recording(V)
  BY <1>2, <1>3, NullAndFailure DEF Recording
<1>5. Failure("undefined variable") \in AnyValue /\ Failed(Failure("undefined variable"))
  <2>1. "undefined variable" \in Error
    BY DEF Error
  <2> QED
    BY <1>2, <2>1, NullAndFailure
<1>6. V # Null => ~Failed(V)
  BY <1>4 DEF Recording, Failed, Error
<1>7. V # Null <=> Named(NamedValues, ast.val)
  BY DEF Named
<1> HIDE DEF V
<1>8. v \in AnyValue /\ (Failed(v) <=> V = Null)
  BY <1>4, <1>5, <1>6
<1>9. ast.val \in Names
  BY <1>1, <1>2, VariableName
<1>10. Len(ast.kids) = 0 /\ \A k \in 1 .. 0 : FALSE
  <2>1. ast.kind = "Variable" /\ Top.ast \in DOMAIN mod.nodes /\ ast = mod.nodes[Top.ast]
    BY <1>1, <1>2
  <2> HIDE DEF v
  <2>2. Len(ast.kids) = 0
    BY <1>2, <2>1, ProgramIs
  <2>3. \A k \in 1 .. 0 : FALSE
    OBVIOUS
  <2> QED
    BY <2>2, <2>3
<1>11. ASSUME DistinctArgs(line) PROVE Judged(v, Top.ast)
  <2>1. AllValid(line, Top.ast) <=> ast.val \in ToSet(ArgsOf(line))
    BY <1>1, <1>10, <1>11, TopJudged
  <2>2. Named(NamedValues, ast.val) <=> ast.val \in ToSet(ArgsOf(line))
    BY <1>1, <1>9, <1>11, TopJudged DEF Declared
  <2> QED
    BY <1>7, <1>8, <2>1, <2>2 DEF Judged
<1> HIDE DEF v
<1>12. ASSUME DistinctArgs(line) PROVE Declared(NamedValues')
  <2>1. \A a \in Names : Named(NamedValues, a) <=> a \in ToSet(ArgsOf(line))
    BY <1>1, <1>12, TopJudged DEF Declared
  <2>2. Named(NamedValues', ast.val) <=> V # Null
    BY <1>1 DEF Named, With
  <2>3. \A a : a # ast.val => (Named(NamedValues', a) <=> Named(NamedValues, a))
    BY <1>1 DEF Named, With
  <2> QED
    BY <1>7, <2>1, <2>2, <2>3 DEF Declared
<1> QED
  BY <1>1, <1>8, <1>11, <1>12, ReturnedJudges

\* The operands of the operator
LEMMA BinaryIs ==
  ASSUME Inv, Owners, BuildingJudges, pc = "Expr", ast.kind = "Binary", Len(Top.vals) = 2
  PROVE  /\ Top.vals[1] \in AnyValue /\ Top.vals[2] \in AnyValue
         /\ DistinctArgs(line) =>
              (AllValid(line, Top.ast) <=>
                 /\ ast.val \in {"+", "-", "*", "<"}
                 /\ ~Failed(Top.vals[1]) /\ ~Failed(Top.vals[2]))
<1>1. Len(ast.kids) = 2
  BY TopIs, ProgramIs DEF Inv
<1>2. 1 \in 1 .. 2 /\ 2 \in 1 .. 2 /\ \A k \in 1 .. 2 : k = 1 \/ k = 2
  OBVIOUS
<1>3. 1 \in 1 .. Len(Top.vals) /\ 2 \in 1 .. Len(Top.vals)
  BY <1>2, Zenon
<1>4. Top.vals[1] \in AnyValue /\ Top.vals[2] \in AnyValue
  BY <1>3, TopValues
<1>5. ASSUME DistinctArgs(line)
      PROVE  AllValid(line, Top.ast) <=>
               ast.val \in {"+", "-", "*", "<"} /\ ~Failed(Top.vals[1]) /\ ~Failed(Top.vals[2])
  <2>1. \A k \in 1 .. 2 : Failed(Top.vals[k]) <=> ~AllValid(line, ast.kids[k])
    BY <1>5, TopJudged
  <2>2. AllValid(line, Top.ast) <=>
          ast.val \in {"+", "-", "*", "<"} /\ \A k \in 1 .. 2 : AllValid(line, ast.kids[k])
    BY <1>1, <1>5, TopJudged
  <2> QED
    BY <1>2, <2>1, <2>2
<1> QED
  BY <1>4, <1>5

LEMMA BinaryFailedJudges ==
  ASSUME Inv, Inv', Owners, Descends(stack, Body(line)), BuildingJudges, BinaryFailed
  PROVE  BuildingJudges'
<1> DEFINE L == Top.vals[1]
           R == Top.vals[2]
           bad == Failure("invalid binary operator")
<1>1. /\ pc = "Expr" /\ ast.kind = "Binary" /\ Len(Top.vals) = 2
      /\ \/ Failed(L) /\ Return(L)
         \/ Failed(R) /\ Return(R)
         \/ ast.val \notin {"+", "-", "*", "<"} /\ Return(bad)
      /\ NamedValues' = NamedValues /\ Rests
  BY Zenon DEF BinaryFailed, At, Rest, Rests
<1>2. "invalid binary operator" \in Error /\ Len(mod.lines) \in Nat
  BY ProgramIs DEF Error, Inv
<1>3. bad \in AnyValue /\ Failed(bad)
  BY <1>2, NullAndFailure
<1>4. L \in AnyValue /\ R \in AnyValue
  BY <1>1, BinaryIs
<1>5. DistinctArgs(line) =>
        (AllValid(line, Top.ast) <=> ast.val \in {"+", "-", "*", "<"} /\ ~Failed(L) /\ ~Failed(R))
  BY <1>1, BinaryIs
<1> HIDE DEF L, R, bad
<1> QED
  BY <1>1, <1>3, <1>4, <1>5, FailureJudges

\* The value of the last instruction is no error.
LEMMA EmittedJudges ==
  ASSUME Inv, Inv', Owners, Descends(stack, Body(line)), BuildingJudges, pc = "Expr", NEW instrs, Len(instrs) \in Nat,
         Emit(instrs), Rests, NamedValues' = NamedValues, DistinctArgs(line) => AllValid(line, Top.ast)
  PROVE  BuildingJudges'
<1> DEFINE nm == NameOf(line)
           n == Len(module[nm].code)
           l == Len(instrs)
           v == Value("instr", insert, n + l)
<1>1. Types /\ insert = line /\ nm \in DOMAIN module /\ insert \in 0 .. Len(mod.lines)
  BY DEF Inv, Positions, Building, Types
<1>2. n \in Nat /\ l \in Nat
  BY <1>1, CodeIs
<1>3. Return(v)
  BY <1>1, Zenon DEF Emit, NameOf
<1> HIDE DEF n, l
<1>4. n + l \in Nat /\ "instr" \in {"const", "arg", "instr", "null"} \cup Error
  BY <1>2
<1>5. v \in AnyValue /\ v.kind = "instr"
  BY <1>1, <1>4, ValueIs
<1> HIDE DEF v
<1>6. ~Failed(v)
  BY <1>5 DEF Failed, Error
<1> QED
  BY <1>3, <1>5, <1>6, QuietJudges DEF Judged

LEMMA BinaryOperationJudges ==
  ASSUME Inv, Inv', Owners, Descends(stack, Body(line)), BuildingJudges, BinaryOperation
  PROVE  BuildingJudges'
<1> DEFINE v == Value("const", 0, Top.ast)
           instrs == Create(ast.val, Top.vals)
<1>1. /\ pc = "Expr" /\ ast.kind = "Binary" /\ Len(Top.vals) = 2 /\ ast.val \in {"+", "-", "*", "<"}
      /\ \A i \in 1 .. 2 : ~Failed(Top.vals[i])
      /\ Return(v) \/ Emit(instrs)
      /\ NamedValues' = NamedValues /\ Rests
  BY Zenon DEF BinaryOperation, At, Rest, Rests
<1>2. ~Failed(Top.vals[1]) /\ ~Failed(Top.vals[2])
  BY <1>1
<1>3. DistinctArgs(line) => AllValid(line, Top.ast)
  BY <1>1, <1>2, BinaryIs
<1>4. v \in AnyValue
  BY <1>1, ConstantIs
<1>5. ~Failed(v)
  BY DEF Failed, Error, Value
<1>6. Len(instrs) \in Nat
  BY DEF Create
<1> HIDE DEF v, instrs
<1>7. CASE Return(v)
  BY <1>1, <1>3, <1>4, <1>5, <1>7, QuietJudges DEF Judged
<1>8. CASE Emit(instrs)
  BY <1>1, <1>3, <1>6, <1>8, EmittedJudges
<1> QED
  BY <1>1, <1>7, <1>8

LEMMA CallRejectedJudges ==
  ASSUME Inv, Inv', Owners, Descends(stack, Body(line)), BuildingJudges, CallRejected
  PROVE  BuildingJudges'
<1> DEFINE e == IF ast.val \in DOMAIN module THEN "incorrect # arguments" ELSE "undefined function"
           v == Failure(e)
<1>1. /\ pc = "Expr" /\ ast.kind = "Call" /\ ~Callable(ast.val, Len(ast.kids)) /\ Return(v)
      /\ NamedValues' = NamedValues /\ Rests
  BY Zenon DEF CallRejected, At, Rest, Rests
<1>2. e \in Error /\ Len(mod.lines) \in Nat
  BY ProgramIs DEF Error, Inv
<1>3. v \in AnyValue /\ Failed(v)
  BY <1>2, NullAndFailure
<1>4. DistinctArgs(line) => ~AllValid(line, Top.ast)
  BY <1>1, TopJudged
<1> HIDE DEF v
<1> QED
  BY <1>1, <1>3, <1>4, FailureJudges

LEMMA CallFailedJudges ==
  ASSUME Inv, Inv', Owners, Descends(stack, Body(line)), BuildingJudges, CallFailed
  PROVE  BuildingJudges'
<1> DEFINE v == Last(Top.vals)
           n == Len(Top.vals)
<1>1. /\ pc = "Expr" /\ Top.vals # <<>> /\ Failed(v) /\ Return(v)
      /\ NamedValues' = NamedValues /\ Rests
  BY Zenon DEF CallFailed, At, Rest, Rests
<1>2. v \in AnyValue
  BY <1>1, TopValues
<1>3. n \in 1 .. n /\ v = Top.vals[n]
  <2> DEFINE vals == Top.vals
             V == AnyValue
  <2>1. vals \in Seq(V) /\ vals # <<>>
    BY <1>1, TopIs
  <2> HIDE DEF vals, V
  <2>2. Len(vals) \in Nat \ {0} /\ Last(vals) = vals[Len(vals)]
    BY <2>1, FrontLast
  <2> HIDE DEF n
  <2>3. n \in Nat \ {0} => n \in 1 .. n
    OBVIOUS
  <2> QED
    BY <2>2, <2>3 DEF n, vals
<1> HIDE DEF n, v
<1>4. DistinctArgs(line) => ~AllValid(line, Top.ast)
  BY <1>1, <1>3, TopJudged DEF n
<1> QED
  BY <1>1, <1>2, <1>4, FailureJudges

LEMMA CreateCallJudges ==
  ASSUME Inv, Inv', Owners, Descends(stack, Body(line)), BuildingJudges, CreateCall
  PROVE  BuildingJudges'
<1> DEFINE vals == Top.vals
           instrs == <<Instr("call", Top.vals)>>
<1>1. /\ pc = "Expr" /\ ast.kind = "Call" /\ Len(vals) = Len(ast.kids)
      /\ IF vals = <<>> THEN Callable(ast.val, 0) ELSE ~Failed(Last(vals))
      /\ Emit(instrs)
      /\ NamedValues' = NamedValues /\ Rests
  BY Zenon DEF CreateCall, At, Rest, Rests
<1>2. vals \in Seq(AnyValue) /\ Len(vals) \in Nat /\ FrameOK(Top, FALSE, ast, module, Current)
  BY <1>1, TopIs
<1>3. Callable(ast.val, Len(ast.kids))
  <2>1. vals = <<>> => Len(vals) = 0
    OBVIOUS
  <2> QED
    BY <1>1, <1>2, <2>1 DEF FrameOK, Callable
<1>4. \A k \in 1 .. Len(vals) : ~Failed(vals[k])
  <2>1. \A k \in 1 .. Len(vals) : k < Len(vals) => ~Failed(vals[k])
    BY <1>1, TopValues
  <2> HIDE DEF vals
  <2>2. \A k \in 1 .. Len(vals) : vals # <<>> /\ (k < Len(vals) \/ k = Len(vals))
    BY <1>2
  <2>3. Last(vals) = vals[Len(vals)]
    BY DEF Last
  <2> QED
    BY <1>1, <2>1, <2>2, <2>3
<1>5. DistinctArgs(line) => AllValid(line, Top.ast)
  BY <1>1, <1>3, <1>4, TopJudged
<1>6. Len(instrs) \in Nat
  OBVIOUS
<1> HIDE DEF instrs
<1> QED
  BY <1>1, <1>5, <1>6, EmittedJudges

LEMMA ArgumentJudges ==
  ASSUME Inv, Inv', BuildingJudges, BinaryOperand \/ CallArgument
  PROVE  BuildingJudges'
<1>1. pc = "Expr" /\ Visit
  BY Zenon DEF BinaryOperand, CallArgument, At
<1> QED
  BY <1>1, VisitedJudges

LEMMA ExprJudges ==
  ASSUME Inv, Inv', Owners, Descends(stack, Body(line)), BuildingJudges, ExprASTtoIR
  PROVE  BuildingJudges'
BY NumberJudges, VariableJudges, ArgumentJudges, BinaryFailedJudges, BinaryOperationJudges, CallRejectedJudges,
   CallFailedJudges, CreateCallJudges DEF ExprASTtoIR

-----------------------------------------------------------------------------
(***************************************************************************)
(* A function begins and ends                                              *)
(***************************************************************************)
\* A line is valid when its name is new and its body is good.
LEMMA ValidLineIs ==
  ASSUME Types, line \in Nat, Passed = line - 1
  PROVE  ValidLine(line) <=>
           (\A c \in CompiledLines(Passed) : NameOf(c) # NameOf(line)) /\ AllValid(line, Body(line))
<1>1. line - 1 \in Int
  OBVIOUS
<1>2. Compiled(line - 1) = CompiledLines(Passed)
  BY <1>1, CompiledIs
<1> QED
  BY <1>2 DEF ValidLine, AllValid, NameOf, Body

LEMMA BeginJudges ==
  ASSUME Inv, Inv', Counted, Owners, EarlierJudged, BeginFunction
  PROVE  BuildingJudges' /\ EarlierJudged'
<1> DEFINE nm == NameOf(line)
           args == ArgsOf(line)
           g == [PrototypeASTtoIR(mod.lines[line].Proto) EXCEPT !.entry = TRUE]
<1>1. /\ mod' = mod /\ line' = line /\ pc = "Line" /\ line \in 1 .. Len(mod.lines) /\ Passed = line - 1
      /\ Types /\ Types' /\ IsProgram(mod)
  BY BeginIs DEF Inv
<1>2. line \in Nat /\ line >= 1 /\ Passed \in Int
  BY <1>1
<1>3. CASE nm \in DOMAIN module
  <2>1. Report("cannot be redefined") /\ "cannot be redefined" \in Error
    BY <1>3, BeginIs DEF Error
  <2>2. /\ pc' = "Undefined" /\ Passed' = line /\ ReportedLines' = ReportedLines \cup {line}
        /\ \A i \in 1 .. line : CompiledLines(i - 1)' = CompiledLines(i - 1)
    BY <1>1, <2>1, PassedReport
  <2>3. module[nm].line \in CompiledLines(Passed) /\ NameOf(module[nm].line) = nm
    BY <1>1, <1>3 DEF Owners, Owner, Building, Inv, EachFinished
  <2>4. ~ValidLine(line)
    BY <1>1, <1>2, <2>3, ValidLineIs
  <2>5. EarlierJudged'
    BY <1>1, <1>2, <2>2, <2>4, EarlierNext
  <2> QED
    BY <2>2, <2>5 DEF BuildingJudges, Building
<1>4. CASE nm \notin DOMAIN module
  <2>1. /\ NamedValues' = Argument(g.args) /\ stack' = <<FrameOf(Body(line))>> /\ pc' = "Expr" /\ log' = log
        /\ g.args = setNames(args)
    BY <1>4, BeginIs
  <2>2. ReportedLines' = ReportedLines /\ Passed' = Passed
    BY <1>1, <2>1 DEF ReportedLines, Passed
  <2>3. CompiledLines(line - 1)' = CompiledLines(line - 1)
    BY <1>1, <2>2 DEF CompiledLines
  <2>4. EarlierJudged'
    BY <1>1, <1>2, <2>2, EarlierSame
  <2>5. args \in Seq(Names)
    BY <1>1, ProgramIs DEF ArgsOf
  <2> HIDE DEF g, args
  <2>6. ASSUME DistinctArgs(line) PROVE Declared(NamedValues')
    <3>1. g.args = args
      BY <2>1, <2>5, <2>6, DistinctNamesStay DEF DistinctArgs, args, ArgsOf
    <3>2. NamedValues' = Argument(args)
      BY <2>1, <3>1
    <3>3. \A a : Value("arg", line, a) # Null
      BY DEF Value, Null
    <3>4. DOMAIN Argument(args) = ToSet(args) /\ \A a \in ToSet(args) : Argument(args)[a] # Null
      BY <3>3 DEF Argument
    <3> QED
      BY <3>2, <3>4 DEF Declared, Named, args
  <2>7. \A s \in 1 .. Len(stack') : KidsJudged(stack'[s])
    <3>1. Len(stack') = 1 /\ stack'[1].vals = <<>>
      BY <2>1 DEF FrameOf
    <3>2. (\A s \in 1 .. 1 : s = 1) /\ (\A k \in 1 .. 0 : FALSE) /\ Len(<<>>) = 0
      OBVIOUS
    <3> QED
      BY <3>1, <3>2 DEF KidsJudged
  <2>8. BuildingJudges'
    BY <1>1, <1>2, <2>1, <2>3, <2>6, <2>7, JudgesThen
  <2> QED
    BY <2>4, <2>8
<1> QED
  BY <1>3, <1>4

LEMMA FinishJudges ==
  ASSUME Inv, Inv', Counted, Owners, BuildingJudges, EarlierJudged, FinishFunction
  PROVE  BuildingJudges' /\ EarlierJudged'
<1>1. /\ Passed = line - 1 /\ Passed' = line /\ ReportedLines' = ReportedLines /\ line \notin ReportedLines
      /\ line \in Nat /\ line >= 1
  BY PassedFinish
<1>2. /\ pc = "Body" /\ ~Failed(ret) /\ mod' = mod /\ pc' = "Line" /\ Types /\ Types' /\ Building
  BY DEF FinishFunction, Inv, Building
<1>3. ASSUME DistinctArgs(line) PROVE ValidLine(line)
  <2>1. AllValid(line, Body(line))
    BY <1>2, <1>3 DEF BuildingJudges, Judged
  <2>2. ASSUME NEW c \in CompiledLines(Passed) PROVE NameOf(c) # NameOf(line)
    <3>1. module[NameOf(c)].line = c /\ module[NameOf(line)].line = line
      BY <1>2, <2>2, BodyIs DEF Owners
    <3>2. c # line
      BY <1>1, <2>2 DEF CompiledLines
    <3> QED
      BY <3>1, <3>2
  <2> QED
    BY <1>1, <1>2, <2>1, <2>2, ValidLineIs
<1>4. \A i \in 1 .. line : CompiledLines(i - 1)' = CompiledLines(i - 1)
  BY <1>1 DEF CompiledLines
<1>5. EarlierJudged'
  BY <1>1, <1>2, <1>3, <1>4, EarlierNext
<1> QED
  BY <1>2, <1>5 DEF BuildingJudges, Building

LEMMA RemoveJudges ==
  ASSUME Inv, Inv', Counted, BuildingJudges, EarlierJudged, RemoveFunction
  PROVE  BuildingJudges' /\ EarlierJudged'
<1>1. /\ pc = "Body" /\ mod' = mod /\ line' = line /\ Report(ret.kind) /\ ret.kind \in Error /\ Failed(ret)
      /\ Types /\ Types' /\ Building
  BY DEF RemoveFunction, Failed, Inv, Building
<1>2. line \in 1 .. Len(mod.lines) /\ line \in Nat /\ line >= 1
  BY <1>1, BodyIs
<1>3. /\ pc' = "Undefined" /\ Passed = line - 1 /\ Passed' = line /\ ReportedLines' = ReportedLines \cup {line}
      /\ \A i \in 1 .. line : CompiledLines(i - 1)' = CompiledLines(i - 1)
  BY <1>1, <1>2, PassedReport
<1>4. DistinctArgs(line) => ~ValidLine(line)
  <2>1. DistinctArgs(line) => ~AllValid(line, Body(line))
    BY <1>1 DEF BuildingJudges, Judged
  <2> QED
    BY <1>1, <1>2, <1>3, <2>1, ValidLineIs
<1>5. EarlierJudged'
  BY <1>1, <1>2, <1>3, <1>4, EarlierNext
<1> QED
  BY <1>3, <1>5 DEF BuildingJudges, Building

LEMMA LoopJudges ==
  ASSUME Inv, Inv', Counted, EarlierJudged, ParserResult \/ Crash \/ GoOn \/ LinesDone
  PROVE  BuildingJudges' /\ EarlierJudged'
<1>1. ~Building'
  BY DEF ParserResult, Crash, GoOn, LinesDone, Report, Building
<1>2. CASE ParserResult
  <2>1. line = 0 /\ ((pc' = "Line" /\ line' = 1) \/ (pc' = "Undefined" /\ line' = line))
    BY <1>2 DEF ParserResult, Counted, Report
  <2>2. Passed' = 0
    BY <2>1 DEF Passed
  <2>3. \A i \in 1 .. 0 : FALSE
    OBVIOUS
  <2> QED
    BY <1>1, <2>2, <2>3 DEF EarlierJudged, BuildingJudges
<1>3. CASE Crash
  BY <1>1, <1>3 DEF Crash, EarlierJudged, BuildingJudges
<1>4. CASE GoOn \/ LinesDone
  <2>1. /\ mod' = mod /\ log' = log
        /\ \/ pc = "Undefined" /\ pc' = "Line" /\ line' = line + 1
           \/ pc = "Line" /\ pc' = "Done" /\ line' = line
    BY <1>4 DEF GoOn, LinesDone
  <2>2. line \in Nat /\ Types /\ Types'
    <3> DEFINE l == Len(mod.lines)
    <3>1. l \in Nat /\ line \in 0 .. l + 1
      BY ProgramIs DEF Inv, Types
    <3> HIDE DEF l
    <3> QED
      BY <3>1 DEF Inv
  <2>3. ReportedLines' = ReportedLines /\ Passed' = Passed /\ Passed \in Int /\ pc # "Crashed"
    BY <2>1, <2>2 DEF ReportedLines, Passed
  <2>4. EarlierJudged'
    BY <2>1, <2>2, <2>3, EarlierSame
  <2> QED
    BY <1>1, <2>4 DEF BuildingJudges
<1> QED
  BY <1>2, <1>3, <1>4

-----------------------------------------------------------------------------
(***************************************************************************)
(* The theorem                                                             *)
(***************************************************************************)
LEMMA JudgeInit == Fresh => JudgeInv
<1> SUFFICES ASSUME Fresh PROVE JudgeInv
  OBVIOUS
<1>1. DOMAIN module = {} /\ pc = "Get" /\ line = 0
  BY DEF Fresh
<1>2. Passed = -1
  BY <1>1 DEF Passed
<1>3. (\A i \in 1 .. -1 : FALSE) /\ 1 .. -1 = {}
  OBVIOUS
<1>4. CompiledLines(Passed) = {}
  BY <1>2, <1>3 DEF CompiledLines
<1> QED
  BY <1>1, <1>2, <1>3, <1>4 DEF JudgeInv, Owners, BuildingJudges, Building, EarlierJudged

LEMMA JudgeNext == Inv /\ Counted /\ MeaningInv /\ JudgeInv /\ [Next]_vars => JudgeInv'
<1> SUFFICES ASSUME Inv, Counted, MeaningInv, JudgeInv, [Next]_vars PROVE JudgeInv'
  OBVIOUS
<1>1. Inv' /\ Owners' /\ Owners /\ BuildingJudges /\ EarlierJudged /\ Descends(stack, Body(line))
  BY NextKeeps, OwnersNext DEF JudgeInv, MeaningInv
<1>2. CASE ParserResult \/ Crash \/ GoOn \/ LinesDone
  BY <1>1, <1>2, LoopJudges DEF JudgeInv
<1>3. CASE BeginFunction
  BY <1>1, <1>3, BeginJudges DEF JudgeInv
<1>4. CASE FinishFunction
  BY <1>1, <1>4, FinishJudges DEF JudgeInv
<1>5. CASE RemoveFunction
  BY <1>1, <1>5, RemoveJudges DEF JudgeInv
<1>6. CASE ExprASTtoIR
  <2>1. Rests /\ pc = "Expr" /\ pc' \in {"Expr", "Body"}
    BY <1>6, ExprIs
  <2>2. ReportedLines' = ReportedLines /\ Passed' = Passed /\ mod' = mod /\ pc # "Crashed"
    BY <2>1 DEF ReportedLines, Passed, Rests
  <2>3. Types /\ Types' /\ Passed \in Int
    <3>1. line \in Nat
      BY <2>1, RestsAre
    <3> QED
      BY <1>1, <2>1, <3>1 DEF Passed, Inv
  <2>4. EarlierJudged'
    BY <1>1, <2>2, <2>3, EarlierSame
  <2>5. BuildingJudges'
    BY <1>1, <1>6, ExprJudges
  <2> QED
    BY <1>1, <2>4, <2>5 DEF JudgeInv
<1>7. CASE UNCHANGED vars
  <2>1. /\ mod' = mod /\ pc' = pc /\ line' = line /\ stack' = stack /\ ret' = ret
        /\ NamedValues' = NamedValues /\ log' = log
    BY <1>7 DEF vars
  <2>2. /\ ReportedLines' = ReportedLines /\ Passed' = Passed /\ (Building' <=> Building)
        /\ Types /\ Types' /\ line \in Int
    <3> DEFINE l == Len(mod.lines)
    <3>1. l \in Nat /\ line \in 0 .. l + 1
      BY ProgramIs DEF Inv, Types
    <3> HIDE DEF l
    <3>2. line \in Int
      BY <3>1
    <3> QED
      BY <1>1, <2>1, <3>2 DEF ReportedLines, Passed, Building, Inv
  <2>3. Passed \in Int /\ CompiledLines(line - 1)' = CompiledLines(line - 1)
    BY <2>1, <2>2 DEF Passed, CompiledLines
  <2>4. EarlierJudged'
    <3>1. CASE pc = "Crashed"
      BY <2>1, <3>1 DEF EarlierJudged
    <3>2. CASE pc # "Crashed"
      BY <1>1, <2>1, <2>2, <2>3, <3>2, EarlierSame
    <3> QED
      BY <3>1, <3>2
  <2>5. BuildingJudges'
    <3>1. DistinctArgs(line) /\ Building' =>
            /\ Declared(NamedValues')
            /\ \A s \in 1 .. Len(stack') : KidsJudged(stack'[s])
            /\ pc' = "Body" => Judged(ret', Body(line))
      BY <1>1, <2>1, <2>2 DEF BuildingJudges
    <3> QED
      BY <2>1, <2>2, <2>3, <3>1, JudgesThen
  <2> QED
    BY <1>1, <2>4, <2>5 DEF JudgeInv
<1> QED
  BY <1>2, <1>3, <1>4, <1>5, <1>6, <1>7 DEF Next, Terminated

\* Of the lines passed so far, those are compiled whose name is new and whose body uses
\* only what it may, whatever the program: nothing else is accepted, and nothing that
\* is valid is rejected.
THEOREM AcceptsValid == Spec => []AcceptsTheValid
<1>1. Init => JudgeInv /\ Counted /\ MeaningInv
  BY JudgeInit, CountedInit, MeaningInit DEF Init, Fresh
<1>2. Inv /\ JudgeInv => AcceptsTheValid
  <2> SUFFICES ASSUME Inv, EarlierJudged, pc \in {"Line", "Undefined"},
                      NEW i \in 1 .. line - (IF pc = "Line" THEN 1 ELSE 0), DistinctArgs(i)
               PROVE  ValidLine(i) <=> i \notin Rejected(i)
    BY DEF JudgeInv, AcceptsTheValid
  <2>1. i \in 1 .. Passed /\ i \in Nat
    BY DEF Passed
  <2>2. ValidLine(i) <=> i \notin ReportedLines
    BY <2>1 DEF EarlierJudged
  <2>3. Rejected(i) = ReportedLines \cap 0 .. i
    <3> DEFINE R == Reported
    <3>1. log \in Seq(R)
      BY DEF Inv, Types
    <3> HIDE DEF R
    <3>2. DOMAIN log = 1 .. Len(log)
      BY <3>1, LenProperties
    <3> QED
      BY <3>2 DEF Rejected, ReportedLines
  <2>4. i \in 0 .. i
    BY <2>1
  <2> QED
    BY <2>2, <2>3, <2>4
<1> QED
  BY <1>1, <1>2, Invariant, CountedNext, MeaningNext, JudgeNext, PTL DEF Spec

-----------------------------------------------------------------------------
(***************************************************************************)
(* The calls of a function.  CallsOf is defined by recursion over the      *)
(* nodes of the AST, and what is between two places of a walk is what the  *)
(* active calls of ExprASTtoIR have got so far.                            *)
(***************************************************************************)
\* Sequences of nodes are sequences of numbers.
Number == Int

\* The calls of the first k kids of node n
KidsCalls(n, k) == FlattenSeq([i \in 1 .. k |-> CallsOf(mod.nodes[n].kids[i])])

LEMMA CallsOfIs ==
  ASSUME IsProgram(mod)
  PROVE  \A n \in DOMAIN mod.nodes :
           /\ CallsOf(n) \in Seq(Number)
           /\ CallsOf(n) = KidsCalls(n, Len(mod.nodes[n].kids)) \o OwnCall(n)
<1> DEFINE N == Len(mod.nodes)
           S == Seq(Number)
           Kids(m, g) == [i \in DOMAIN mod.nodes[m].kids |-> g[mod.nodes[m].kids[i]]]
           Calls(m, g) == FlattenSeq(Kids(m, g)) \o OwnCall(m)
           step == [m \in 1 .. N |-> [g \in [1 .. N -> S] |-> Calls(m, g)]]
<1>1. N \in Nat /\ DOMAIN mod.nodes = 1 .. N
  BY ProgramIs
<1>2. ASSUME NEW m \in 1 .. N
      PROVE  /\ Len(mod.nodes[m].kids) \in Nat /\ DOMAIN mod.nodes[m].kids = 1 .. Len(mod.nodes[m].kids)
             /\ \A i \in DOMAIN mod.nodes[m].kids : /\ mod.nodes[m].kids[i] \in 1 .. m - 1
                                                    /\ mod.nodes[m].kids[i] \in 1 .. N
  BY <1>1, KidsAre
<1>3. ASSUME NEW m \in 1 .. N, NEW g \in [1 .. N -> S] PROVE Calls(m, g) \in S
  <2> DEFINE l == Len(mod.nodes[m].kids)
             f == Kids(m, g)
  <2>1. l \in Nat /\ DOMAIN mod.nodes[m].kids = 1 .. l
    BY <1>2
  <2> HIDE DEF l
  <2>2. f \in [1 .. l -> S]
    BY <1>2, <2>1
  <2>3. f \in Seq(Seq(Number))
    <3> HIDE DEF f
    <3> QED
      BY <2>1, <2>2
  <2>4. FlattenSeq(f) \in Seq(Number)
    <3> HIDE DEF f
    <3>1. <<>> \in Seq(Number)
      OBVIOUS
    <3> QED
      BY <2>3, <3>1, FlattenAppend
  <2>5. OwnCall(m) \in Seq(Number)
    BY <1>1 DEF OwnCall, Number
  <2> HIDE DEF f
  <2>6. FlattenSeq(f) \o OwnCall(m) \in Seq(Number)
    BY <2>4, <2>5, ConcatProperties
  <2> QED
    BY <2>6 DEF f
<1>4. ASSUME NEW m \in 1 .. N, NEW g, NEW h, \A k \in 1 .. m - 1 : g[k] = h[k]
      PROVE  Calls(m, g) = Calls(m, h)
  <2>1. Kids(m, g) = Kids(m, h)
    BY <1>2, <1>4
  <2> HIDE DEF Kids
  <2> QED
    BY <2>1
<1>5. <<>> \in S
  OBVIOUS
<1> HIDE DEF N, S, Calls
<1>6. /\ step \in [1 .. N -> [[1 .. N -> S] -> S]]
      /\ \A m \in 1 .. N : \A g \in [1 .. N -> S] : step[m][g] = Calls(m, g)
  BY <1>3
<1> HIDE DEF step
<1>7. PICK s \in [1 .. N -> S] : \A n \in 1 .. N : s[n] = step[n][s]
  <2>1. \A m \in 1 .. N : \A g, h \in [1 .. N -> S] :
           (\A k \in 1 .. m - 1 : g[k] = h[k]) => step[m][g] = step[m][h]
    <3> SUFFICES ASSUME NEW m \in 1 .. N, NEW g \in [1 .. N -> S], NEW h \in [1 .. N -> S],
                        \A k \in 1 .. m - 1 : g[k] = h[k]
                 PROVE  step[m][g] = step[m][h]
      OBVIOUS
    <3>1. Calls(m, g) = Calls(m, h)
      BY <1>4
    <3> QED
      BY <1>6, <3>1
  <2>2. step \in Steps(N, S)
    BY <1>6, <2>1 DEF Steps
  <2> QED
    BY <1>1, <1>5, <2>2, Recursion, SMTT(30)
<1> DEFINE calls == CHOOSE x : x = [m \in DOMAIN mod.nodes |-> Calls(m, x)]
<1>8. s = [m \in DOMAIN mod.nodes |-> Calls(m, s)]
  BY <1>1, <1>6, <1>7
<1>9. calls = [m \in DOMAIN mod.nodes |-> Calls(m, calls)]
  BY <1>8, Zenon
<1>10. \A m : CallsOf(m) = calls[m]
  BY Zenon DEF CallsOf, Calls, Kids
<1> HIDE DEF calls
<1>11. \A n \in 1 .. N : calls[n] = Calls(n, calls)
  BY <1>1, <1>9
<1>12. \A m \in 1 .. N : calls[m] \in S
  <2> DEFINE T == {m \in Nat : m \in 1 .. N => calls[m] \in S}
  <2>1. ASSUME NEW m \in Nat, \A k \in 0 .. m - 1 : k \in T PROVE m \in T
    <3> SUFFICES ASSUME m \in 1 .. N PROVE calls[m] \in S
      OBVIOUS
    <3> DEFINE g == [k \in 1 .. N |-> IF k < m THEN calls[k] ELSE <<>>]
    <3>1. \A k \in 1 .. N : k < m => calls[k] \in S
      BY <2>1
    <3>2. g \in [1 .. N -> S]
      BY <1>5, <3>1
    <3>3. \A k \in 1 .. m - 1 : calls[k] = g[k]
      BY <1>1
    <3> HIDE DEF g
    <3> QED
      BY <1>3, <1>4, <1>11, <3>2, <3>3
  <2> HIDE DEF T
  <2>2. Nat \subseteq T
    BY <2>1, StrongInduction
  <2> QED
    BY <1>1, <2>2 DEF T
<1>13. ASSUME NEW n \in 1 .. N PROVE CallsOf(n) = KidsCalls(n, Len(mod.nodes[n].kids)) \o OwnCall(n)
  <2>1. Kids(n, calls) = [i \in 1 .. Len(mod.nodes[n].kids) |-> CallsOf(mod.nodes[n].kids[i])]
    BY <1>2, <1>10
  <2> QED
    BY <1>10, <1>11, <2>1 DEF Calls, KidsCalls
<1> QED
  BY <1>1, <1>10, <1>12, <1>13 DEF S

\* The calls of one kid more
LEMMA KidsCallsNext ==
  ASSUME IsProgram(mod), NEW n \in DOMAIN mod.nodes, NEW k \in Nat
  PROVE  /\ k <= Len(mod.nodes[n].kids) => KidsCalls(n, k) \in Seq(Number)
         /\ KidsCalls(n, 0) = <<>>
         /\ k + 1 <= Len(mod.nodes[n].kids) =>
              KidsCalls(n, k + 1) = KidsCalls(n, k) \o CallsOf(mod.nodes[n].kids[k + 1])
<1> DEFINE l == Len(mod.nodes[n].kids)
           kid(i) == mod.nodes[n].kids[i]
           f(j) == [i \in 1 .. j |-> CallsOf(kid(i))]
<1>1. l \in Nat /\ \A i \in 1 .. l : kid(i) \in DOMAIN mod.nodes
  BY KidsAre
<1> HIDE DEF l, kid
<1>2. \A i \in 1 .. l : CallsOf(kid(i)) \in Seq(Number)
  BY <1>1, CallsOfIs
<1>3. f(0) = <<>>
  OBVIOUS
<1>4. FlattenSeq(<<>>) = <<>>
  <2>1. <<>> \in Seq(Seq(Number)) /\ <<>> \in Seq(Number)
    OBVIOUS
  <2> QED
    BY <2>1, FlattenAppend
<1>5. ASSUME k <= l PROVE FlattenSeq(f(k)) \in Seq(Number)
  <2>1. \A i \in 1 .. k : CallsOf(kid(i)) \in Seq(Number)
    BY <1>1, <1>2, <1>5
  <2>2. f(k) \in [1 .. k -> Seq(Number)]
    BY <2>1
  <2> HIDE DEF f
  <2>3. f(k) \in Seq(Seq(Number)) /\ <<>> \in Seq(Number)
    BY <2>2
  <2> QED
    BY <2>3, FlattenAppend
<1>6. ASSUME k + 1 <= l PROVE FlattenSeq(f(k + 1)) = FlattenSeq(f(k)) \o CallsOf(kid(k + 1))
  <2> DEFINE a == f(k)
             b == f(k + 1)
  <2>1. \A i \in 1 .. k + 1 : CallsOf(kid(i)) \in Seq(Number)
    BY <1>1, <1>2, <1>6
  <2>2. \A i \in 1 .. k : CallsOf(kid(i)) \in Seq(Number)
    BY <2>1
  <2>3. /\ a \in [1 .. k -> Seq(Number)] /\ b \in [1 .. k + 1 -> Seq(Number)]
        /\ (\A i \in 1 .. k : a[i] = b[i]) /\ b[k + 1] = CallsOf(kid(k + 1))
    BY <2>1, <2>2
  <2> HIDE DEF a, b
  <2>4. FlattenSeq(b) = FlattenSeq(a) \o b[k + 1]
    <3>1. a \in [1 .. k -> Seq(Number)] /\ b \in [1 .. k + 1 -> Seq(Number)]
      BY <2>3
    <3>2. \A i \in 1 .. k : a[i] = b[i]
      BY <2>3
    <3> QED
      BY <3>1, <3>2, FlattenNext
  <2> QED
    BY <2>3, <2>4 DEF a, b
<1> HIDE DEF f
<1> QED
  BY <1>3, <1>4, <1>5, <1>6 DEF KidsCalls, f, kid, l

\* The calls made for what a call of ExprASTtoIR has got so far, and for all that the
\* active calls have got, from the body's down.
Sofar(fr) == KidsCalls(fr.ast, Len(fr.vals))
Along(st) == FlattenSeq([s \in 1 .. Len(st) |-> Sofar(st[s])])

LEMMA SofarIs ==
  ASSUME IsProgram(mod), NEW fr \in CallFrame, Len(fr.vals) <= Len(mod.nodes[fr.ast].kids)
  PROVE  /\ Sofar(fr) \in Seq(Number)
         /\ Len(fr.vals) = 0 => Sofar(fr) = <<>>
         /\ Len(fr.vals) = Len(mod.nodes[fr.ast].kids) => CallsOf(fr.ast) = Sofar(fr) \o OwnCall(fr.ast)
<1>1. fr.ast \in DOMAIN mod.nodes /\ Len(fr.vals) \in Nat
  BY FrameIs
<1>2. Sofar(fr) \in Seq(Number) /\ KidsCalls(fr.ast, 0) = <<>>
  BY <1>1, KidsCallsNext DEF Sofar
<1>3. CallsOf(fr.ast) = KidsCalls(fr.ast, Len(mod.nodes[fr.ast].kids)) \o OwnCall(fr.ast)
  BY <1>1, CallsOfIs
<1> QED
  BY <1>2, <1>3 DEF Sofar

\* One value more
LEMMA SofarReceives ==
  ASSUME IsProgram(mod), NEW fr \in CallFrame, NEW gr, NEW v \in AnyValue,
         gr.ast = fr.ast, gr.vals = Append(fr.vals, v), Len(fr.vals) < Len(mod.nodes[fr.ast].kids)
  PROVE  /\ Sofar(gr) = Sofar(fr) \o CallsOf(NextKid(fr))
         /\ Sofar(gr) \in Seq(Number) /\ CallsOf(NextKid(fr)) \in Seq(Number)
<1> DEFINE n == fr.ast
           k == Len(fr.vals)
           l == Len(mod.nodes[n].kids)
<1>1. n \in DOMAIN mod.nodes /\ k \in Nat /\ fr.vals \in Seq(AnyValue)
  BY FrameIs
<1>2. l \in Nat /\ \A i \in 1 .. l : mod.nodes[n].kids[i] \in DOMAIN mod.nodes
  BY <1>1, KidsAre
<1>3. Len(gr.vals) = k + 1
  BY <1>1, AppendLast
<1> HIDE DEF k
<1>4. k + 1 <= l /\ k + 1 \in 1 .. l /\ k + 1 \in Nat
  BY <1>1, <1>2 DEF k
<1>5. KidsCalls(n, k + 1) = KidsCalls(n, k) \o CallsOf(mod.nodes[n].kids[k + 1])
  BY <1>1, <1>4, KidsCallsNext
<1>6. KidsCalls(n, k + 1) \in Seq(Number)
  BY <1>1, <1>4, KidsCallsNext
<1>7. CallsOf(mod.nodes[n].kids[k + 1]) \in Seq(Number)
  BY <1>2, <1>4, CallsOfIs
<1> QED
  BY <1>3, <1>5, <1>6, <1>7 DEF Sofar, NextKid, k

\* One call of ExprASTtoIR more
LEMMA AlongNext ==
  ASSUME NEW n \in Nat, NEW st, NEW tt, Len(st) = n, Len(tt) = n + 1,
         \A i \in 1 .. n : st[i] = tt[i], \A i \in 1 .. n + 1 : Sofar(tt[i]) \in Seq(Number)
  PROVE  /\ Along(st) \in Seq(Number) /\ Along(tt) \in Seq(Number)
         /\ n = 0 => Along(st) = <<>>
         /\ Along(tt) = Along(st) \o Sofar(tt[n + 1])
<1> DEFINE a == [s \in 1 .. n |-> Sofar(st[s])]
           b == [s \in 1 .. n + 1 |-> Sofar(tt[s])]
<1>1. /\ a \in [1 .. n -> Seq(Number)] /\ b \in [1 .. n + 1 -> Seq(Number)]
      /\ (\A i \in 1 .. n : a[i] = b[i]) /\ b[n + 1] = Sofar(tt[n + 1])
  <2>1. \A i \in 1 .. n : i \in 1 .. n + 1
    OBVIOUS
  <2>2. \A i \in 1 .. n : Sofar(st[i]) = Sofar(tt[i]) /\ Sofar(st[i]) \in Seq(Number)
    BY <2>1
  <2> QED
    BY <2>2
<1>2. Along(st) = FlattenSeq(a) /\ Along(tt) = FlattenSeq(b)
  BY DEF Along
<1> HIDE DEF a, b
<1>3. /\ FlattenSeq(a) \in Seq(Number) /\ FlattenSeq(b) \in Seq(Number)
      /\ n = 0 => FlattenSeq(a) = <<>>
      /\ FlattenSeq(b) = FlattenSeq(a) \o b[n + 1]
  <2>1. \A f \in [1 .. n -> Seq(Number)], g \in [1 .. n + 1 -> Seq(Number)] :
          (\A i \in 1 .. n : f[i] = g[i]) =>
            /\ FlattenSeq(f) \in Seq(Number) /\ FlattenSeq(g) \in Seq(Number)
            /\ n = 0 => FlattenSeq(f) = <<>>
            /\ FlattenSeq(g) = FlattenSeq(f) \o g[n + 1]
    BY FlattenNext
  <2> QED
    BY <1>1, <2>1
<1> QED
  BY <1>1, <1>2, <1>3

\* One instruction more
MarkOf(c) == IF c.op = "call" THEN <<c.ast>> ELSE <<>>

LEMMA CallsInNext ==
  ASSUME IsProgram(mod), NEW code \in Seq(Instruction), NEW c \in Instruction
  PROVE  /\ CallsIn(code) \in Seq(Number)
         /\ code = <<>> => CallsIn(code) = <<>>
         /\ CallsIn(Append(code, c)) = CallsIn(code) \o MarkOf(c)
<1> DEFINE C == Instruction
           n == Len(code)
           more == Append(code, c)
           a == [i \in DOMAIN code |-> MarkOf(code[i])]
           b == [i \in DOMAIN more |-> MarkOf(more[i])]
<1>1. \A x \in C : MarkOf(x) \in Seq(Number)
  <2>1. \A x \in C : x.ast \in DOMAIN mod.nodes
    BY DEF Instruction
  <2>2. \A x \in C : x.ast \in Number
    BY <2>1, ProgramIs DEF Number
  <2> HIDE DEF C
  <2> QED
    BY <2>2 DEF MarkOf
<1>2. code \in Seq(C) /\ c \in C
  OBVIOUS
<1> HIDE DEF C
<1>3. /\ n \in Nat /\ DOMAIN code = 1 .. n /\ \A i \in 1 .. n : code[i] \in C
      /\ code = <<>> => n = 0
  BY <1>2, LenProperties, SeqEntries
<1>4. /\ more \in Seq(C) /\ Len(more) = n + 1 /\ DOMAIN more = 1 .. n + 1
      /\ (\A i \in 1 .. n : more[i] = code[i]) /\ more[n + 1] = c
  BY <1>2, AppendLast, LenProperties
<1>5. \A i \in 1 .. n + 1 : more[i] \in C
  BY <1>4, SeqEntries
<1>6. CallsIn(code) = FlattenSeq(a) /\ CallsIn(more) = FlattenSeq(b)
  BY DEF CallsIn, MarkOf
<1> HIDE DEF n, more
<1>7. /\ a \in [1 .. n -> Seq(Number)] /\ b \in [1 .. n + 1 -> Seq(Number)]
      /\ (\A i \in 1 .. n : a[i] = b[i]) /\ b[n + 1] = MarkOf(c)
  <2>1. n + 1 \in 1 .. n + 1 /\ \A i \in 1 .. n : i \in 1 .. n + 1
    BY <1>3
  <2> QED
    BY <1>1, <1>3, <1>4, <1>5, <2>1
<1> HIDE DEF a, b
<1>8. /\ FlattenSeq(a) \in Seq(Number)
      /\ n = 0 => FlattenSeq(a) = <<>>
      /\ FlattenSeq(b) = FlattenSeq(a) \o b[n + 1]
  BY <1>3, <1>7, FlattenNext
<1> QED
  BY <1>3, <1>6, <1>7, <1>8 DEF more

-----------------------------------------------------------------------------
(***************************************************************************)
(* The inductive invariant: as long as nothing has failed, the function    *)
(* that is being built makes the calls of all that the active calls have   *)
(* got, in order.                                                          *)
(***************************************************************************)
NoneFailed(fr) == \A k \in 1 .. Len(fr.vals) : ~Failed(fr.vals[k])
Whole(st) == \A s \in 1 .. Len(st) : NoneFailed(st[s])

BuildingCalls ==
  /\ pc = "Expr" /\ Whole(stack) => CallsIn(Current.code) = Along(stack)
  /\ pc = "Body" /\ ~Failed(ret) => CallsIn(Current.code) = CallsOf(Body(line))

CallsInv == BuildingCalls /\ CallsInSourceOrder

\* All this is about the program that is compiled, and that never changes.
LEMMA CallsThen ==
  ASSUME mod' = mod
  PROVE  /\ \A n : CallsOf(n)' = CallsOf(n)
         /\ \A st : Along(st)' = Along(st)
<1> DEFINE Calls(n, x) == FlattenSeq([i \in DOMAIN mod.nodes[n].kids |-> x[mod.nodes[n].kids[i]]]) \o OwnCall(n)
<1>1. \A x : [n \in DOMAIN mod'.nodes |-> Calls(n, x)'] = [n \in DOMAIN mod.nodes |-> Calls(n, x)]
  BY DEF OwnCall
<1>2. (CHOOSE x : x = [n \in DOMAIN mod'.nodes |-> Calls(n, x)'])
      = CHOOSE x : x = [n \in DOMAIN mod.nodes |-> Calls(n, x)]
  BY <1>1, Zenon
<1>3. ASSUME NEW n PROVE CallsOf(n)' = CallsOf(n)
  BY <1>2, Zenon DEF CallsOf
<1>4. ASSUME NEW st PROVE Along(st)' = Along(st)
  <2>1. \A n, k : KidsCalls(n, k)' = KidsCalls(n, k)
    BY <1>3 DEF KidsCalls
  <2>2. \A fr : Sofar(fr)' = Sofar(fr)
    BY <2>1 DEF Sofar
  <2> QED
    BY <2>2 DEF Along
<1> QED
  BY <1>3, <1>4

LEMMA BuildingThen ==
  ASSUME mod' = mod, line' = line,
         pc' = "Expr" /\ Whole(stack') => CallsIn(Current'.code) = Along(stack'),
         pc' = "Body" /\ ~Failed(ret') => CallsIn(Current'.code) = CallsOf(Body(line))
  PROVE  BuildingCalls'
<1>1. Body(line)' = Body(line)
  BY DEF Body
<1>2. CallsOf(Body(line))' = CallsOf(Body(line)) /\ Along(stack)' = Along(stack')
  BY <1>1, CallsThen
<1>3. Whole(stack)' <=> Whole(stack')
  BY DEF Whole, NoneFailed, Failed
<1>4. Failed(ret)' <=> Failed(ret')
  BY DEF Failed
<1> QED
  BY <1>2, <1>3, <1>4, Zenon DEF BuildingCalls

LEMMA FinishedCalls ==
  ASSUME CallsInSourceOrder, mod' = mod,
         \A name \in DOMAIN module' : module'[name].value # Null =>
           name \in DOMAIN module /\ module'[name] = module[name]
  PROVE  CallsInSourceOrder'
<1>1. \A n : CallsOf(n)' = CallsOf(n)
  BY CallsThen
<1> QED
  BY <1>1, Zenon DEF CallsInSourceOrder

\* What the active calls have got is a sequence of nodes.
LEMMA SofarOnStack ==
  ASSUME Inv, pc = "Expr"
  PROVE  \A s \in 1 .. Len(stack) : Sofar(stack[s]) \in Seq(Number)
<1> SUFFICES ASSUME NEW s \in 1 .. Len(stack) PROVE Sofar(stack[s]) \in Seq(Number)
  OBVIOUS
<1>1. IsProgram(mod) /\ stack[s] \in CallFrame
  BY TopIs DEF Inv
<1>2. Len(stack[s].vals) <= Len(mod.nodes[stack[s].ast].kids)
  BY DEF Inv, Frames, FrameOK
<1> QED
  BY <1>1, <1>2, SofarIs

\* The call on top returns: what it has got, and its own call, are all the calls of its node.
LEMMA ReturnedCalls ==
  ASSUME Inv, Descends(stack, Body(line)), BuildingCalls, pc = "Expr", NEW v \in AnyValue, Return(v), Rests,
         ~Failed(v) => /\ NoneFailed(Top) /\ Len(Top.vals) = Len(ast.kids)
                       /\ CallsIn(Current'.code) = CallsIn(Current.code) \o OwnCall(Top.ast)
  PROVE  BuildingCalls'
<1>1. IsProgram(mod) /\ Building /\ mod' = mod /\ line' = line
  BY DEF Inv, Building, Rests
<1>2. /\ stack \in Seq(CallFrame) /\ Len(stack) \in Nat /\ Len(stack) >= 1
      /\ \A s \in 1 .. Len(stack) : stack[s] \in CallFrame
      /\ Top = stack[Len(stack)] /\ Top \in CallFrame /\ Top.ast \in DOMAIN mod.nodes /\ ast = mod.nodes[Top.ast]
  BY TopIs
<1>3. \A s \in 1 .. Len(stack) : Sofar(stack[s]) \in Seq(Number)
  BY SofarOnStack
<1>4. Len(Top.vals) <= Len(ast.kids)
  BY TopIs DEF FrameOK
<1>5. Sofar(Top) \in Seq(Number) /\ OwnCall(Top.ast) \in Seq(Number)
  <2>1. Sofar(Top) \in Seq(Number)
    BY <1>1, <1>2, <1>4, SofarIs
  <2>2. Top.ast \in Number
    BY <1>1, <1>2, ProgramIs DEF Number
  <2> QED
    BY <2>1, <2>2 DEF OwnCall
<1>6. ~Failed(v) => CallsOf(Top.ast) = Sofar(Top) \o OwnCall(Top.ast)
  BY <1>1, <1>2, <1>4, SofarIs
<1> DEFINE n == Len(stack) - 1
<1>7. n \in Nat /\ Len(stack) = n + 1
  BY <1>2
<1> DEFINE below == [s \in 1 .. n |-> stack[s]]
<1> HIDE DEF n
<1>8. Len(below) = n /\ \A s \in 1 .. n : below[s] = stack[s]
  BY <1>7
<1> HIDE DEF below
<1>9. Along(below) \in Seq(Number) /\ Along(stack) = Along(below) \o Sofar(Top) /\ (n = 0 => Along(below) = <<>>)
  <2>1. \A i \in 1 .. n + 1 : Sofar(stack[i]) \in Seq(Number)
    BY <1>3, <1>7
  <2>2. Along(stack) = Along(below) \o Sofar(stack[n + 1])
    BY <1>7, <1>8, <2>1, AlongNext
  <2>3. Along(below) \in Seq(Number) /\ (n = 0 => Along(below) = <<>>)
    BY <1>7, <1>8, <2>1, AlongNext
  <2> QED
    BY <1>2, <1>7, <2>2, <2>3
<1>10. Whole(stack) /\ ~Failed(v) => CallsIn(Current'.code) = Along(below) \o CallsOf(Top.ast)
  <2> SUFFICES ASSUME Whole(stack), ~Failed(v) PROVE CallsIn(Current'.code) = Along(below) \o CallsOf(Top.ast)
    OBVIOUS
  <2>1. CallsIn(Current.code) = Along(below) \o Sofar(Top)
    BY <1>9 DEF BuildingCalls
  <2>2. CallsIn(Current'.code) = (Along(below) \o Sofar(Top)) \o OwnCall(Top.ast)
    BY <2>1
  <2>3. (Along(below) \o Sofar(Top)) \o OwnCall(Top.ast) = Along(below) \o (Sofar(Top) \o OwnCall(Top.ast))
    BY <1>5, <1>9, ConcatAssociative
  <2> QED
    BY <1>6, <2>2, <2>3
<1>11. CASE n = 0
  <2>1. stack' = <<>> /\ ret' = v /\ pc' = "Body"
    BY <1>7, <1>11 DEF Return
  <2>2. Len(stack) = 1 /\ Top.ast = Body(line)
    BY <1>2, <1>7, <1>11 DEF Descends
  <2>3. ASSUME ~Failed(v) PROVE CallsIn(Current'.code) = CallsOf(Body(line))
    <3>1. Whole(stack)
      <4>1. \A s \in 1 .. 1 : stack[s] = Top
        BY <1>2, <2>2
      <4> QED
        BY <2>2, <2>3, <4>1 DEF Whole
    <3>2. CallsIn(Current'.code) = <<>> \o CallsOf(Top.ast)
      BY <1>9, <1>10, <1>11, <2>3, <3>1
    <3>3. CallsOf(Top.ast) \in Seq(Number)
      BY <1>1, <1>2, CallsOfIs
    <3> QED
      BY <2>2, <3>2, <3>3, ConcatEmptySeq
  <2> QED
    BY <1>1, <2>1, <2>3, BuildingThen
<1>12. CASE n # 0
  <2>1. Len(stack) # 1 /\ Len(stack) >= 2
    BY <1>7, <1>12
  <2>2. stack' = [Front(stack) EXCEPT ![Len(stack) - 1].vals = Append(@, v)] /\ pc' = "Expr"
    BY <1>1, <2>1, Zenon DEF Return, Inv, Building
  <2>3. /\ Len(stack') = n /\ n >= 1
        /\ \A i \in 1 .. n : i # n => stack'[i] = stack[i]
        /\ stack'[n].ast = stack[n].ast /\ stack'[n].vals = Append(stack[n].vals, v)
    BY <1>2, <2>1, <2>2, ReturnStack DEF n
  <2>4. n \in 1 .. Len(stack) /\ n < Len(stack) /\ stack[n] \in CallFrame
    BY <1>2, <1>7, <2>3
  <2>5. Len(stack[n].vals) < Len(mod.nodes[stack[n].ast].kids)
    BY <2>4 DEF Inv, Frames, FrameOK
  <2>6. Top.ast = NextKid(stack[n])
    <3>1. n + 1 \in 1 .. Len(stack) /\ n + 1 # 1 /\ (n + 1) - 1 = n
      BY <1>7, <2>3
    <3>2. stack[n + 1].ast = NextKid(stack[n])
      BY <3>1 DEF Descends
    <3> QED
      BY <1>2, <1>7, <3>2
  <2>7. /\ Sofar(stack'[n]) = Sofar(stack[n]) \o CallsOf(Top.ast)
        /\ Sofar(stack'[n]) \in Seq(Number) /\ CallsOf(Top.ast) \in Seq(Number)
    BY <1>1, <2>3, <2>4, <2>5, <2>6, SofarReceives
  <2> DEFINE m == n - 1
             first == [s \in 1 .. m |-> stack[s]]
  <2>8. m \in Nat /\ n = m + 1
    BY <1>7, <2>3
  <2> HIDE DEF m
  <2>9. Len(first) = m /\ \A s \in 1 .. m : first[s] = stack[s]
    BY <2>8
  <2> HIDE DEF first
  <2>10. \A i \in 1 .. m : i \in 1 .. n /\ i # n /\ i \in 1 .. n + 1 /\ first[i] = below[i] /\ first[i] = stack'[i]
    BY <1>8, <2>3, <2>8, <2>9
  <2>11. /\ Along(first) \in Seq(Number) /\ Along(below) = Along(first) \o Sofar(stack[n])
    <3>1. \A i \in 1 .. m + 1 : Sofar(below[i]) \in Seq(Number)
      BY <1>3, <1>7, <1>8, <2>8
    <3>2. Along(first) \in Seq(Number) /\ Along(below) = Along(first) \o Sofar(below[m + 1])
      <4>1. Len(below) = m + 1 /\ Len(first) = m /\ \A i \in 1 .. m : first[i] = below[i]
        BY <1>8, <2>8, <2>9, <2>10
      <4> QED
        BY <2>8, <3>1, <4>1, AlongNext
    <3>3. below[m + 1] = stack[n]
      BY <1>8, <2>3, <2>8
    <3> QED
      BY <3>2, <3>3
  <2>12. Along(stack') = Along(first) \o Sofar(stack'[n])
    <3>1. \A i \in 1 .. m + 1 : i \in 1 .. m \/ i = n
      BY <2>8
    <3>2. \A i \in 1 .. m : Sofar(stack'[i]) \in Seq(Number)
      BY <1>3, <1>7, <2>9, <2>10
    <3>3. \A i \in 1 .. m + 1 : Sofar(stack'[i]) \in Seq(Number)
      BY <2>7, <3>1, <3>2
    <3>4. Len(stack') = m + 1 /\ \A i \in 1 .. m : first[i] = stack'[i]
      BY <2>3, <2>8, <2>10
    <3>5. Along(stack') = Along(first) \o Sofar(stack'[m + 1])
      BY <2>8, <2>9, <3>3, <3>4, AlongNext
    <3> QED
      BY <2>8, <3>5
  <2>13. Along(stack') = Along(below) \o CallsOf(Top.ast)
    <3>1. Sofar(stack[n]) \in Seq(Number)
      BY <1>3, <2>4
    <3>2. (Along(first) \o Sofar(stack[n])) \o CallsOf(Top.ast)
          = Along(first) \o (Sofar(stack[n]) \o CallsOf(Top.ast))
      BY <2>7, <2>11, <3>1, ConcatAssociative
    <3> QED
      BY <2>7, <2>11, <2>12, <3>2
  <2>14. ASSUME Whole(stack') PROVE Whole(stack) /\ ~Failed(v)
    <3> DEFINE vals == stack[n].vals
               new == stack'[n].vals
               l == Len(vals)
    <3>1. vals \in Seq(AnyValue) /\ l \in Nat
      BY <2>4, FrameIs
    <3>2. Len(new) = l + 1 /\ (\A k \in 1 .. l : new[k] = vals[k]) /\ new[l + 1] = v
      BY <2>3, <3>1, AppendLast
    <3>n. n \in 1 .. n
      BY <2>3, <1>7
    <3>3. \A k \in 1 .. Len(new) : ~Failed(new[k])
      BY <2>3, <2>14, <3>n DEF Whole, NoneFailed
    <3> HIDE DEF l, vals, new
    <3>4. l + 1 \in 1 .. l + 1 /\ \A k \in 1 .. l : k \in 1 .. l + 1
      BY <3>1
    <3>5. ~Failed(v) /\ \A k \in 1 .. l : ~Failed(vals[k])
      BY <3>2, <3>3, <3>4
    <3>6. NoneFailed(stack[n])
      BY <3>5 DEF NoneFailed, l, vals
    <3>7. \A s \in 1 .. n : s # n => NoneFailed(stack[s])
      BY <2>3, <2>14 DEF Whole
    <3>8. \A s \in 1 .. Len(stack) : s \in 1 .. n \/ s = Len(stack)
      BY <1>7
    <3> QED
      BY <1>2, <3>5, <3>6, <3>7, <3>8 DEF Whole
  <2> QED
    BY <1>1, <1>10, <2>2, <2>13, <2>14, BuildingThen
<1> QED
  BY <1>11, <1>12

-----------------------------------------------------------------------------
(***************************************************************************)
(* What the steps of ExprASTtoIR do to it                                  *)
(***************************************************************************)
\* The calls of the function that is being built are a sequence of nodes.
LEMMA CallsAre ==
  ASSUME Inv, pc = "Expr"
  PROVE  CallsIn(Current.code) \in Seq(Number) /\ Current.code \in Seq(Instruction)
<1>1. IsProgram(mod) /\ Types /\ NameOf(line) \in DOMAIN module /\ Top.ast \in DOMAIN mod.nodes
  BY TopIs DEF Inv, Positions, Building
<1>2. Current.code \in Seq(Instruction)
  BY <1>1, CodeIs DEF Current
<1> DEFINE c == [op |-> "call", args |-> <<>>, ast |-> Top.ast]
<1>3. c \in Instruction
  <2>1. <<>> \in Seq(AnyValue)
    OBVIOUS
  <2> QED
    BY <1>1, <2>1 DEF Instruction
<1> HIDE DEF c
<1> QED
  BY <1>1, <1>2, <1>3, CallsInNext

LEMMA VisitedCalls ==
  ASSUME Inv, BuildingCalls, pc = "Expr", Visit
  PROVE  BuildingCalls'
<1> DEFINE k == NextKid(Top)
           n == Len(stack)
           fr == FrameOf(k)
           S == CallFrame \cup {fr}
<1>1. stack' = Append(stack, fr) /\ pc' = pc /\ module' = module /\ Rests /\ mod' = mod /\ line' = line
  BY DEF Visit, Rest, Rests, NextKid, ast
<1>2. stack \in Seq(CallFrame) /\ n \in Nat /\ n >= 1 /\ IsProgram(mod)
  BY TopIs DEF Inv
<1>3. fr.ast = k /\ Len(fr.vals) = 0
  BY DEF FrameOf
<1>4. stack \in Seq(S) /\ fr \in S
  BY <1>2, SeqMonotonic
<1> HIDE DEF k, fr, S
<1>5. Len(stack') = n + 1 /\ (\A s \in 1 .. n : stack'[s] = stack[s]) /\ stack'[n + 1] = fr
  BY <1>1, <1>4, AppendLast
<1>6. Sofar(fr) = <<>> /\ Sofar(fr) \in Seq(Number)
  <2>1. KidsCalls(fr.ast, 0) = FlattenSeq(<<>>)
    BY DEF KidsCalls
  <2>2. FlattenSeq(<<>>) = <<>>
    <3>1. <<>> \in Seq(Seq(Number)) /\ <<>> \in Seq(Number)
      OBVIOUS
    <3> QED
      BY <3>1, FlattenAppend
  <2>3. Sofar(fr) = KidsCalls(fr.ast, 0)
    BY <1>3, Zenon DEF Sofar
  <2>4. <<>> \in Seq(Number)
    OBVIOUS
  <2> QED
    BY <2>1, <2>2, <2>3, <2>4
<1>7. \A s \in 1 .. n : Sofar(stack[s]) \in Seq(Number)
  BY SofarOnStack
<1>l. Len(stack) = n
  OBVIOUS
<1> HIDE DEF n
<1>8. Along(stack) \in Seq(Number) /\ Along(stack') = Along(stack) \o Sofar(fr)
  <2>1. \A s \in 1 .. n + 1 : s \in 1 .. n \/ s = n + 1
    BY <1>2
  <2>2. \A s \in 1 .. n + 1 : Sofar(stack'[s]) \in Seq(Number)
    BY <1>5, <1>6, <1>7, <2>1
  <2>3. \A s \in 1 .. n : stack[s] = stack'[s]
    BY <1>5
  <2>4. Along(stack) \in Seq(Number) /\ Along(stack') = Along(stack) \o Sofar(stack'[n + 1])
    BY <1>2, <1>5, <1>l, <2>2, <2>3, AlongNext
  <2> QED
    BY <1>5, <2>4
<1>9. Along(stack') = Along(stack)
  BY <1>6, <1>8, ConcatEmptySeq
<1>10. Whole(stack') => Whole(stack)
  <2>1. \A s \in 1 .. n : s \in 1 .. n + 1
    BY <1>2
  <2> QED
    BY <1>5, <1>l, <2>1 DEF Whole
<1>11. Current' = Current
  BY <1>1, SameExtends DEF Building
<1> QED
  BY <1>1, <1>9, <1>10, <1>11, BuildingThen DEF BuildingCalls

\* A call returns and the module stays what it is: its node is no call, and all of the
\* node's kids have their values.
LEMMA QuietCalls ==
  ASSUME Inv, Descends(stack, Body(line)), CallsInv, pc = "Expr", NEW v \in AnyValue, Return(v), Rests,
         module' = module,
         ~Failed(v) => NoneFailed(Top) /\ Len(Top.vals) = Len(ast.kids) /\ ast.kind # "Call"
  PROVE  CallsInv'
<1>1. Current' = Current
  BY SameExtends DEF Building
<1>2. ast = mod.nodes[Top.ast]
  BY TopIs
<1>3. ast.kind # "Call" => OwnCall(Top.ast) = <<>>
  BY <1>2 DEF OwnCall
<1>4. CallsIn(Current.code) = CallsIn(Current.code) \o <<>>
  BY CallsAre, ConcatEmptySeq
<1>5. BuildingCalls'
  BY <1>1, <1>3, <1>4, ReturnedCalls DEF CallsInv
<1>6. CallsInSourceOrder'
  BY FinishedCalls DEF CallsInv, Rests
<1> QED
  BY <1>5, <1>6 DEF CallsInv

LEMMA NumberCalls ==
  ASSUME Inv, Descends(stack, Body(line)), CallsInv, NumberExprASTtoIR
  PROVE  CallsInv'
<1> DEFINE v == Value("const", 0, Top.ast)
<1>1. pc = "Expr" /\ ast.kind = "Number" /\ Return(v) /\ Rests /\ module' = module
  BY DEF NumberExprASTtoIR, At, Rest, Rests
<1>2. v \in AnyValue /\ Top.ast \in DOMAIN mod.nodes /\ ast = mod.nodes[Top.ast] /\ IsProgram(mod)
  BY <1>1, ConstantIs, TopIs DEF Inv
<1>3. Len(Top.vals) = 0 /\ Len(ast.kids) = 0
  <2>1. Len(ast.kids) = 0
    BY <1>1, <1>2, ProgramIs
  <2>2. Len(Top.vals) <= Len(ast.kids) /\ Len(Top.vals) \in Nat
    BY <1>1, TopIs DEF FrameOK
  <2> QED
    BY <2>1, <2>2
<1>4. NoneFailed(Top)
  BY <1>3 DEF NoneFailed
<1> HIDE DEF v
<1> QED
  BY <1>1, <1>2, <1>3, <1>4, QuietCalls

LEMMA VariableCalls ==
  ASSUME Inv, Descends(stack, Body(line)), CallsInv, VariableExprASTtoIR
  PROVE  CallsInv'
<1> DEFINE V == IF ast.val \in DOMAIN NamedValues THEN NamedValues[ast.val] ELSE Null
           v == IF V = Null THEN Failure("undefined variable") ELSE V
<1>1. pc = "Expr" /\ ast.kind = "Variable" /\ Return(v) /\ module' = module /\ Rests
  BY Zenon DEF VariableExprASTtoIR, At, Rest, Rests
<1>2. Top.ast \in DOMAIN mod.nodes /\ ast = mod.nodes[Top.ast] /\ IsProgram(mod) /\ Len(mod.lines) \in Nat
  BY <1>1, TopIs, ProgramIs DEF Inv
<1>3. \A a \in DOMAIN NamedValues : NamedValues[a] \in AnyValue
  BY DEF Inv, Types
<1>4. V \in AnyValue
  BY <1>2, <1>3, NullAndFailure
<1>5. Failure("undefined variable") \in AnyValue
  <2>1. "undefined variable" \in Error
    BY DEF Error
  <2> QED
    BY <1>2, <2>1, NullAndFailure
<1> HIDE DEF V
<1>6. v \in AnyValue
  BY <1>4, <1>5
<1>7. Len(Top.vals) = 0 /\ Len(ast.kids) = 0
  <2>1. Len(ast.kids) = 0
    BY <1>1, <1>2, ProgramIs
  <2>2. Len(Top.vals) <= Len(ast.kids) /\ Len(Top.vals) \in Nat
    BY <1>1, TopIs DEF FrameOK
  <2> QED
    BY <2>1, <2>2
<1>8. NoneFailed(Top)
  BY <1>7 DEF NoneFailed
<1> HIDE DEF v
<1> QED
  BY <1>1, <1>6, <1>7, <1>8, QuietCalls

LEMMA BinaryFailedCalls ==
  ASSUME Inv, Descends(stack, Body(line)), CallsInv, BinaryFailed
  PROVE  CallsInv'
<1> DEFINE L == Top.vals[1]
           R == Top.vals[2]
           bad == Failure("invalid binary operator")
<1>1. /\ pc = "Expr" /\ Len(Top.vals) = 2
      /\ (Failed(L) /\ Return(L)) \/ (Failed(R) /\ Return(R)) \/ Return(bad)
      /\ module' = module /\ Rests
  BY Zenon DEF BinaryFailed, At, Rest, Rests
<1>2. "invalid binary operator" \in Error /\ Len(mod.lines) \in Nat
  BY ProgramIs DEF Error, Inv
<1>3. bad \in AnyValue /\ Failed(bad)
  BY <1>2, NullAndFailure
<1>s. 1 \in 1 .. 2 /\ 2 \in 1 .. 2
  OBVIOUS
<1>r. 1 \in 1 .. Len(Top.vals) /\ 2 \in 1 .. Len(Top.vals)
  BY <1>1, <1>s, Zenon
<1>4. L \in AnyValue /\ R \in AnyValue
  BY <1>1, <1>r, TopValues
<1> HIDE DEF L, R, bad
<1> QED
  BY <1>1, <1>3, <1>4, QuietCalls

LEMMA CallFailedCalls ==
  ASSUME Inv, Descends(stack, Body(line)), CallsInv, CallFailed
  PROVE  CallsInv'
<1> DEFINE v == Last(Top.vals)
<1>1. pc = "Expr" /\ Top.vals # <<>> /\ Failed(v) /\ Return(v) /\ module' = module /\ Rests
  BY Zenon DEF CallFailed, At, Rest, Rests
<1>2. v \in AnyValue
  BY <1>1, TopValues
<1> HIDE DEF v
<1> QED
  BY <1>1, <1>2, QuietCalls

LEMMA CallRejectedCalls ==
  ASSUME Inv, Descends(stack, Body(line)), CallsInv, CallRejected
  PROVE  CallsInv'
<1> DEFINE e == IF ast.val \in DOMAIN module THEN "incorrect # arguments" ELSE "undefined function"
           v == Failure(e)
<1>1. pc = "Expr" /\ Return(v) /\ module' = module /\ Rests
  BY Zenon DEF CallRejected, At, Rest, Rests
<1>2. e \in Error /\ Len(mod.lines) \in Nat
  BY ProgramIs DEF Error, Inv
<1>3. v \in AnyValue /\ Failed(v)
  BY <1>2, NullAndFailure
<1> HIDE DEF v
<1> QED
  BY <1>1, <1>3, QuietCalls

\* The instructions go to the end of the function's code.
LEMMA EmittedCode ==
  ASSUME Inv, pc = "Expr", NEW instrs \in Seq(Instruction), Emit(instrs), Rests
  PROVE  Current'.code = Current.code \o instrs
<1> DEFINE nm == NameOf(line)
           F == Current
           g == [F EXCEPT !.code = @ \o instrs]
<1>1. insert = line /\ nm \in DOMAIN module /\ FunctionOK(F)
  BY DEF Inv, Positions, Building, Types, Current
<1>2. mod.lines[insert].Proto.Name = nm /\ module[nm] = F
  BY <1>1 DEF NameOf, Current
<1>3. module' = [module EXCEPT ![nm] = g]
  <2>1. module' = [module EXCEPT ![nm].code = @ \o instrs]
    BY <1>2, Zenon DEF Emit
  <2>2. [module EXCEPT ![nm].code = @ \o instrs] = [module EXCEPT ![nm] = [module[nm] EXCEPT !.code = @ \o instrs]]
    OBVIOUS
  <2> QED
    BY <1>2, <2>1, <2>2, Zenon
<1>4. g.code = F.code \o instrs
  BY <1>1, CodeAdded
<1> HIDE DEF g, F, nm
<1>5. module'[nm] = g
  BY <1>1, <1>3
<1>6. Current' = g
  BY <1>5 DEF Current, NameOf, Rests, nm
<1> QED
  BY <1>4, <1>6 DEF F

\* The node's own instructions are added when all of the node's kids have their values.
LEMMA EmittedCalls ==
  ASSUME Inv, Descends(stack, Body(line)), CallsInv, pc = "Expr", NEW instrs \in Seq(Instruction),
         Len(instrs) >= 1, Emit(instrs), Rests, NoneFailed(Top), Len(Top.vals) = Len(ast.kids),
         CallsIn(Current.code \o instrs) = CallsIn(Current.code) \o OwnCall(Top.ast)
  PROVE  CallsInv'
<1> DEFINE v == Value("instr", line, Len(Current.code) + Len(instrs))
<1>1. /\ Return(v) /\ v \in AnyValue
      /\ \A name \in DOMAIN module' : module'[name].value # Null =>
                  name \in DOMAIN module /\ module'[name] = module[name]
  BY EmitIs
<1> HIDE DEF v
<1>2. BuildingCalls'
  BY <1>1, EmittedCode, ReturnedCalls DEF CallsInv
<1>3. CallsInSourceOrder'
  BY <1>1, FinishedCalls DEF CallsInv, Rests
<1> QED
  BY <1>2, <1>3 DEF CallsInv

\* What one instruction adds, or two
LEMMA CallsAdded ==
  ASSUME IsProgram(mod), NEW code \in Seq(Instruction), NEW a \in Instruction, NEW b \in Instruction
  PROVE  /\ CallsIn(code \o <<a>>) = CallsIn(code) \o MarkOf(a)
         /\ MarkOf(a) = <<>> /\ MarkOf(b) = <<>> => CallsIn(code \o <<a, b>>) = CallsIn(code)
<1> DEFINE C == Instruction
<1>1. code \in Seq(C) /\ a \in C /\ b \in C
  OBVIOUS
<1> HIDE DEF C
<1>2. code \o <<a>> = Append(code, a) /\ Append(code, a) \in Seq(C)
  BY <1>1, AppendIsConcat, AppendLast
<1>3. code \o <<a, b>> = Append(Append(code, a), b)
  <2>1. code \o <<a, b>> = (code \o <<a>>) \o <<b>>
    <3>1. <<a>> \in Seq(C) /\ <<b>> \in Seq(C)
      BY <1>1
    <3>2. <<a>> \o <<b>> = <<a, b>>
      <4> DEFINE x == <<a>>
                 y == <<b>>
                 z == <<a, b>>
      <4>1. /\ x \in Seq(C) /\ y \in Seq(C) /\ z \in Seq(C)
            /\ Len(x) = 1 /\ Len(y) = 1 /\ Len(z) = 2
            /\ x[1] = a /\ y[1] = b /\ z[1] = a /\ z[2] = b
        BY <1>1
      <4> HIDE DEF x, y, z
      <4>2. /\ x \o y \in Seq(C) /\ Len(x \o y) = Len(x) + Len(y)
            /\ \A i \in 1 .. Len(x) + Len(y) : (x \o y)[i] = IF i <= Len(x) THEN x[i] ELSE y[i - Len(x)]
        BY <4>1, ConcatProperties, Zenon
      <4> DEFINE w == x \o y
      <4> HIDE DEF w
      <4>3. w \in Seq(C) /\ Len(w) = Len(z) /\ \A i \in 1 .. Len(z) : z[i] = w[i]
        <5>1. /\ w \in Seq(C) /\ Len(w) = 1 + 1
              /\ \A i \in 1 .. 1 + 1 : w[i] = IF i <= 1 THEN x[i] ELSE y[i - 1]
          BY <4>1, <4>2, Zenon DEF w
        <5> QED
          BY <4>1, <5>1
      <4>4. z = w
        BY <4>1, <4>3, SeqEqual
      <4> QED
        BY <4>4 DEF w, x, y, z
    <3>3. (code \o <<a>>) \o <<b>> = code \o (<<a>> \o <<b>>)
      BY <1>1, <3>1, ConcatAssociative
    <3> QED
      BY <3>2, <3>3
  <2> QED
    BY <1>1, <1>2, <2>1, AppendIsConcat
<1>4. /\ CallsIn(Append(code, a)) = CallsIn(code) \o MarkOf(a)
      /\ CallsIn(Append(Append(code, a), b)) = CallsIn(Append(code, a)) \o MarkOf(b)
      /\ CallsIn(code) \in Seq(Number)
  BY <1>1, <1>2, CallsInNext DEF C
<1>5. CallsIn(code) \o <<>> = CallsIn(code)
  BY <1>4, ConcatEmptySeq
<1> QED
  BY <1>2, <1>3, <1>4, <1>5

LEMMA BinaryOperationCalls ==
  ASSUME Inv, Descends(stack, Body(line)), CallsInv, BinaryOperation
  PROVE  CallsInv'
<1> DEFINE const == Value("const", 0, Top.ast)
           op == ast.val
           a == Instr(op, Top.vals)
           cmp == Value("instr", insert, Len(Current.code) + 1)
           b == Instr("uitofp", <<cmp>>)
           instrs == Create(op, Top.vals)
<1>1. /\ pc = "Expr" /\ ast.kind = "Binary" /\ Len(Top.vals) = 2 /\ op \in {"+", "-", "*", "<"}
      /\ \A i \in 1 .. 2 : ~Failed(Top.vals[i])
      /\ Rests
      /\ \/ Return(const) /\ module' = module
         \/ Emit(instrs)
  BY Zenon DEF BinaryOperation, At, Rest, Rests
<1>2. Top.ast \in DOMAIN mod.nodes /\ ast = mod.nodes[Top.ast] /\ IsProgram(mod) /\ Len(ast.kids) = 2
  BY <1>1, TopIs, ProgramIs DEF Inv
<1>3. NoneFailed(Top)
  BY <1>1, Zenon DEF NoneFailed
<1>4. OwnCall(Top.ast) = <<>>
  BY <1>1, <1>2 DEF OwnCall
<1>5. Len(Top.vals) = Len(ast.kids)
  BY <1>1, <1>2, Zenon
<1>6. CASE Return(const) /\ module' = module
  <2>1. const \in AnyValue
    BY <1>1, ConstantIs
  <2> HIDE DEF const
  <2> QED
    BY <1>1, <1>3, <1>5, <1>6, <2>1, QuietCalls
<1>7. CASE Emit(instrs)
  <2>1. op \in {"call"} \cup Operator /\ op # "call"
    BY <1>1 DEF Operator
  <2>2. a \in Instruction /\ b \in Instruction
    <3>1. \A k \in 1 .. Len(Top.vals) : ~Failed(Top.vals[k])
      BY <1>1, Zenon
    <3> QED
      BY <1>1, <2>1, <3>1, InstrIs, ConversionIs
  <2>3. MarkOf(a) = <<>> /\ MarkOf(b) = <<>>
    BY <2>1 DEF MarkOf, Instr
  <2>4. instrs = <<a, b>> \/ instrs = <<a>>
    <3>1. module[mod.lines[insert].Proto.Name] = Current
      BY <1>1 DEF Inv, Positions, Building, Current, NameOf
    <3> QED
      BY <3>1, Zenon DEF Create
  <2> DEFINE I == Instruction
  <2> HIDE DEF instrs, a, b, I, op
  <2>5. instrs \in Seq(I) /\ Len(instrs) >= 1
    <3>1. a \in I /\ b \in I
      BY <2>2 DEF I
    <3>2. <<a, b>> \in Seq(I) /\ Len(<<a, b>>) = 2 /\ <<a>> \in Seq(I) /\ Len(<<a>>) = 1
      BY <3>1
    <3>3. CASE instrs = <<a, b>>
      BY <3>2, <3>3
    <3>4. CASE instrs = <<a>>
      BY <3>2, <3>4
    <3> QED
      BY <2>4, <3>3, <3>4
  <2>6. CallsIn(Current.code) \in Seq(Number) /\ Current.code \in Seq(Instruction)
    BY <1>1, CallsAre
  <2>7. CallsIn(Current.code) \o <<>> = CallsIn(Current.code)
    BY <2>6, ConcatEmptySeq
  <2>8. CallsIn(Current.code \o instrs) = CallsIn(Current.code) \o OwnCall(Top.ast)
    <3>1. CASE instrs = <<a, b>>
      BY <1>2, <1>4, <2>2, <2>3, <2>6, <2>7, <3>1, CallsAdded
    <3>2. CASE instrs = <<a>>
      BY <1>2, <1>4, <2>2, <2>3, <2>6, <2>7, <3>2, CallsAdded
    <3> QED
      BY <2>4, <3>1, <3>2
  <2> QED
    BY <1>1, <1>3, <1>5, <1>7, <2>5, <2>8, EmittedCalls DEF I
<1> QED
  BY <1>1, <1>6, <1>7

LEMMA CreateCallCalls ==
  ASSUME Inv, Descends(stack, Body(line)), CallsInv, CreateCall
  PROVE  CallsInv'
<1> DEFINE vals == Top.vals
           a == Instr("call", vals)
           instrs == <<a>>
<1>1. /\ pc = "Expr" /\ ast.kind = "Call" /\ Len(vals) = Len(ast.kids)
      /\ IF vals = <<>> THEN Callable(ast.val, 0) ELSE ~Failed(Last(vals))
      /\ Emit(instrs) /\ Rests
  BY Zenon DEF CreateCall, At, Rest, Rests
<1>2. /\ vals \in Seq(AnyValue) /\ Len(vals) \in Nat
      /\ FrameOK(Top, FALSE, ast, module, Current)
      /\ Top.ast \in DOMAIN mod.nodes /\ ast = mod.nodes[Top.ast] /\ IsProgram(mod)
  BY <1>1, TopIs DEF Inv
<1>3. ast.val \in DOMAIN module /\ Len(module[ast.val].args) = Len(vals)
  <2>1. vals = <<>> => Len(vals) = 0
    OBVIOUS
  <2> QED
    BY <1>1, <1>2, <2>1 DEF FrameOK, Callable
<1>4. \A k \in 1 .. Len(vals) : ~Failed(vals[k])
  <2>1. \A k \in 1 .. Len(vals) : k < Len(vals) => ~Failed(vals[k])
    BY <1>1, TopValues
  <2> HIDE DEF vals
  <2>2. \A k \in 1 .. Len(vals) : vals # <<>> /\ (k < Len(vals) \/ k = Len(vals))
    BY <1>2
  <2>3. Last(vals) = vals[Len(vals)]
    BY DEF Last
  <2> QED
    BY <1>1, <2>1, <2>2, <2>3
<1>5. a \in Instruction
  <2>1. "call" \in {"call"} \cup Operator
    OBVIOUS
  <2> QED
    BY <1>1, <1>3, <1>4, <2>1, InstrIs
<1>6. NoneFailed(Top)
  BY <1>4 DEF NoneFailed
<1>7. MarkOf(a) = OwnCall(Top.ast)
  BY <1>1, <1>2 DEF MarkOf, Instr, OwnCall
<1> DEFINE I == Instruction
<1> HIDE DEF a, I
<1>8. instrs \in Seq(I) /\ Len(instrs) >= 1
  BY <1>5 DEF I
<1>9. CallsIn(Current.code \o instrs) = CallsIn(Current.code) \o OwnCall(Top.ast)
  <2>1. Current.code \in Seq(Instruction)
    BY <1>1, CallsAre
  <2> QED
    BY <1>2, <1>5, <1>7, <2>1, CallsAdded
<1> HIDE DEF instrs
<1> QED
  BY <1>1, <1>6, <1>8, <1>9, EmittedCalls DEF I

LEMMA ArgumentCalls ==
  ASSUME Inv, CallsInv, BinaryOperand \/ CallArgument
  PROVE  CallsInv'
<1>1. pc = "Expr" /\ Visit
  BY Zenon DEF BinaryOperand, CallArgument, At
<1>2. BuildingCalls'
  BY <1>1, VisitedCalls DEF CallsInv
<1>3. CallsInSourceOrder'
  BY <1>1, FinishedCalls DEF CallsInv, Visit, Rest
<1> QED
  BY <1>2, <1>3 DEF CallsInv

LEMMA ExprCalls ==
  ASSUME Inv, Descends(stack, Body(line)), CallsInv, ExprASTtoIR
  PROVE  CallsInv'
BY NumberCalls, VariableCalls, ArgumentCalls, BinaryFailedCalls, BinaryOperationCalls, CallRejectedCalls,
   CallFailedCalls, CreateCallCalls DEF ExprASTtoIR

-----------------------------------------------------------------------------
(***************************************************************************)
(* A function begins and ends                                              *)
(***************************************************************************)
LEMMA IdleCalls ==
  ASSUME ~Building', CallsInSourceOrder'
  PROVE  CallsInv'
BY DEF CallsInv, BuildingCalls, Building

LEMMA LoopCalls ==
  ASSUME Inv, CallsInv, ParserResult \/ Crash \/ GoOn \/ LinesDone
  PROVE  CallsInv'
<1>1. mod' = mod /\ module' = module /\ pc' \in {"Line", "Undefined", "Done", "Crashed"}
  BY DEF ParserResult, Crash, GoOn, LinesDone, Report
<1>2. CallsInSourceOrder'
  BY <1>1, FinishedCalls DEF CallsInv
<1> QED
  BY <1>1, <1>2, IdleCalls DEF Building

\* A new function makes no calls, and nothing has been got.
LEMMA BeginCalls ==
  ASSUME Inv, CallsInv, BeginFunction
  PROVE  CallsInv'
<1> DEFINE d == mod.lines[line]
           nm == NameOf(line)
           P == PrototypeASTtoIR(d.Proto)
           g == [P EXCEPT !.entry = TRUE]
           l == Len(mod.lines)
<1>1. /\ Types /\ IsProgram(mod) /\ EachFinished /\ pc = "Line" /\ l \in Nat
      /\ mod' = mod /\ line' = line
  BY ProgramIs DEF BeginFunction, Inv
<1>2. line \in 1 .. l
  <2>1. line <= l /\ line >= 1 /\ line \in 0 .. l + 1
    BY <1>1 DEF BeginFunction, Inv, Positions, Types
  <2> HIDE DEF l
  <2> QED
    BY <1>1, <2>1
<1>3. CASE nm \in DOMAIN module
  <2>1. hasBody(module[nm])
    BY <1>1, <1>3 DEF EachFinished, hasBody
  <2>2. Report("cannot be redefined") /\ module' = module
    BY <1>3, <2>1, Zenon DEF BeginFunction, NameOf
  <2>3. ~Building'
    BY <2>2 DEF Report, Building
  <2>4. CallsInSourceOrder'
    BY <1>1, <2>2, FinishedCalls DEF CallsInv
  <2> QED
    BY <2>3, <2>4, IdleCalls
<1>4. CASE nm \notin DOMAIN module
  <2>1. ~P.entry /\ g.line = line /\ g.code = <<>> /\ g.value = Null
    BY <1>1, <1>2, NewFunction
  <2>2. module' = With(module, nm, g) /\ stack' = <<FrameOf(d.Body)>> /\ pc' = "Expr"
    BY <1>4, <2>1, Zenon DEF BeginFunction, NameOf, hasBody
  <2> HIDE DEF P, g, nm
  <2>3. /\ DOMAIN module' = DOMAIN module \cup {nm} /\ module'[nm] = g
        /\ \A name \in DOMAIN module : name # nm /\ module'[name] = module[name]
    BY <1>4, <2>2 DEF With
  <2>4. Current' = g
    BY <1>1, <2>3 DEF Current, NameOf, nm
  <2>5. CallsInSourceOrder'
    BY <1>1, <2>1, <2>3, FinishedCalls DEF CallsInv
  <2> DEFINE fr == FrameOf(d.Body)
  <2>6. fr \in CallFrame /\ Len(fr.vals) = 0
    <3>1. d.Body \in DOMAIN mod.nodes
      BY <1>1, <1>2, ProgramIs
    <3> QED
      BY <3>1, FrameOfIs
  <2>7. Sofar(fr) = <<>> /\ Sofar(fr) \in Seq(Number)
    <3>1. Len(mod.nodes[fr.ast].kids) \in Nat
      BY <1>1, <2>6, FrameIs, ProgramIs
    <3>2. Len(fr.vals) <= Len(mod.nodes[fr.ast].kids)
      <4> DEFINE k == Len(mod.nodes[fr.ast].kids)
      <4> HIDE DEF fr, k
      <4>1. k \in Nat
        BY <3>1 DEF k
      <4> QED
        BY <2>6, <4>1 DEF k
    <3> QED
      BY <1>1, <2>6, <3>2, SofarIs
  <2> HIDE DEF fr
  <2>8. Along(stack') = <<>>
    <3> DEFINE none == [s \in 1 .. 0 |-> fr]
    <3>1. stack' = <<fr>>
      BY <2>2 DEF fr
    <3>2. Len(none) = 0 /\ Len(stack') = 0 + 1 /\ stack'[0 + 1] = fr /\ 0 \in Nat
      BY <3>1
    <3>3. (\A i \in 1 .. 0 : none[i] = stack'[i]) /\ \A i \in 1 .. 0 + 1 : Sofar(stack'[i]) \in Seq(Number)
      <4>1. (\A i \in 1 .. 0 : FALSE) /\ \A i \in 1 .. 0 + 1 : i = 0 + 1
        OBVIOUS
      <4>2. \A i \in 1 .. 0 + 1 : Sofar(stack'[i]) = Sofar(fr)
        BY <3>2, <4>1
      <4>3. \A i \in 1 .. 0 : none[i] = stack'[i]
        BY <4>1, Zenon
      <4> QED
        BY <2>7, <4>2, <4>3
    <3> HIDE DEF none
    <3>4. Along(none) = <<>> /\ Along(stack') = Along(none) \o Sofar(stack'[0 + 1])
      BY <3>2, <3>3, AlongNext
    <3>5. <<>> \o Sofar(fr) = Sofar(fr)
      BY <2>7, ConcatEmptySeq
    <3> QED
      BY <2>7, <3>2, <3>4, <3>5
  <2>9. CallsIn(Current'.code) = <<>>
    <3>1. CallsIn(<<>>) = FlattenSeq(<<>>)
      BY DEF CallsIn
    <3>2. <<>> \in Seq(Seq(Number)) /\ <<>> \in Seq(Number)
      OBVIOUS
    <3>3. FlattenSeq(<<>>) = <<>>
      BY <3>2, FlattenAppend
    <3> QED
      BY <2>1, <2>4, <3>1, <3>3
  <2>10. BuildingCalls'
    BY <1>1, <2>2, <2>8, <2>9, BuildingThen
  <2> QED
    BY <2>5, <2>10 DEF CallsInv
<1> QED
  BY <1>3, <1>4

\* A finished function makes the calls of its body.
LEMMA FinishCalls ==
  ASSUME Inv, CallsInv, FinishFunction
  PROVE  CallsInv'
<1> DEFINE nm == NameOf(line)
           F == Current
           g == [F EXCEPT !.value = ret]
<1>1. pc = "Body" /\ ~Failed(ret) /\ mod' = mod /\ pc' = "Line"
  BY DEF FinishFunction
<1>2. F = module[nm] /\ F.line = line
  BY <1>1, BodyIs
<1>3. /\ g.line = F.line /\ g.code = F.code
      /\ DOMAIN module' = DOMAIN module /\ module'[nm] = g
      /\ \A name \in DOMAIN module : name # nm => module'[name] = module[name]
  BY FinishIs
<1> HIDE DEF g, F, nm
<1>4. CallsIn(g.code) = CallsOf(Body(line))
  BY <1>1, <1>3 DEF CallsInv, BuildingCalls, F
<1>5. ASSUME NEW name \in DOMAIN module', module'[name].value # Null
      PROVE  CallsIn(module'[name].code) = CallsOf(Body(module'[name].line))
  <2>1. CASE name = nm
    BY <1>2, <1>3, <1>4, <2>1
  <2>2. CASE name # nm
    BY <1>3, <1>5, <2>2 DEF CallsInv, CallsInSourceOrder, Body
  <2> QED
    BY <2>1, <2>2
<1>6. CallsInSourceOrder'
  <2>1. \A n : CallsOf(n)' = CallsOf(n)
    BY <1>1, CallsThen
  <2>2. \A i : mod'.lines[i].Body = Body(i)
    BY <1>1 DEF Body
  <2> QED
    BY <1>5, <2>1, <2>2, Zenon DEF CallsInSourceOrder
<1> QED
  BY <1>1, <1>6, IdleCalls DEF Building

LEMMA RemoveCalls ==
  ASSUME Inv, CallsInv, RemoveFunction
  PROVE  CallsInv'
<1>1. pc' = "Undefined" /\ mod' = mod /\ module' = eraseFromParent(NameOf(line))
  BY DEF RemoveFunction, Report, NameOf
<1>2. \A name \in DOMAIN module' : name \in DOMAIN module /\ module'[name] = module[name]
  BY <1>1 DEF eraseFromParent
<1>3. CallsInSourceOrder'
  BY <1>1, <1>2, FinishedCalls DEF CallsInv
<1> QED
  BY <1>1, <1>3, IdleCalls DEF Building

-----------------------------------------------------------------------------
(***************************************************************************)
(* The theorem                                                             *)
(***************************************************************************)
LEMMA CallsInit == Fresh => CallsInv
<1> SUFFICES ASSUME Fresh PROVE CallsInv
  OBVIOUS
<1>1. DOMAIN module = {} /\ pc = "Get"
  BY DEF Fresh
<1> QED
  BY <1>1 DEF CallsInv, BuildingCalls, CallsInSourceOrder

LEMMA CallsNext == Inv /\ MeaningInv /\ CallsInv /\ [Next]_vars => CallsInv'
<1> SUFFICES ASSUME Inv, MeaningInv, CallsInv, [Next]_vars PROVE CallsInv'
  OBVIOUS
<1>1. CASE ParserResult \/ Crash \/ GoOn \/ LinesDone
  BY <1>1, LoopCalls
<1>2. CASE BeginFunction
  BY <1>2, BeginCalls
<1>3. CASE FinishFunction
  BY <1>3, FinishCalls
<1>4. CASE RemoveFunction
  BY <1>4, RemoveCalls
<1>5. CASE ExprASTtoIR
  BY <1>5, ExprCalls DEF MeaningInv
<1>6. CASE UNCHANGED vars
  <2>1. /\ mod' = mod /\ pc' = pc /\ line' = line /\ stack' = stack /\ ret' = ret /\ module' = module
    BY <1>6 DEF vars
  <2>2. CallsInSourceOrder'
    BY <2>1, FinishedCalls DEF CallsInv
  <2>3. Current' = Current
    BY <2>1 DEF Current, NameOf
  <2>4. BuildingCalls'
    BY <2>1, <2>3, BuildingThen DEF CallsInv, BuildingCalls
  <2> QED
    BY <2>2, <2>4 DEF CallsInv
<1> QED
  BY <1>1, <1>2, <1>3, <1>4, <1>5, <1>6 DEF Next, Terminated

\* Every finished function makes the calls of its body, each once and in the order of
\* the source, whatever the program: a line of which some part failed is never finished,
\* and what was generated for it before the failure is in no function that stays.
THEOREM MakesItsCalls == Spec => []CallsInSourceOrder
<1>1. Init => MeaningInv /\ CallsInv
  BY MeaningInit, CallsInit DEF Init, Fresh
<1>2. CallsInv => CallsInSourceOrder
  BY DEF CallsInv
<1> QED
  BY <1>1, <1>2, Invariant, MeaningNext, CallsNext, PTL DEF Spec
=============================================================================
