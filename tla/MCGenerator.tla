----------------------------- MODULE MCGenerator -----------------------------
(***************************************************************************)
(* Model checking of Generator on the ASTs of all small modules.           *)
(***************************************************************************)
EXTENDS Generator

a == "a"
a1 == "a1"
f == "f"
g == "g"

SomeNames == {a, a1, f, g}

\* Expressions, as trees
Num == [kind |-> "Number", val |-> "", kids |-> <<>>]
Var(x) == [kind |-> "Variable", val |-> x, kids |-> <<>>]
Bin(op, l, r) == [kind |-> "Binary", val |-> op, kids |-> <<l, r>>]
Call(x, args) == [kind |-> "Call", val |-> x, kids |-> args]

Bins(Ops, L, R) == {Bin(op, l, r) : op \in Ops, l \in L, r \in R}
Calls(E) == {Call(x, args) : x \in {f, g}, args \in {<<>>} \cup {<<e>> : e \in E}}

Atoms == {Num, Var(a), Var(a1)}
SomeCalls == Calls({Num, Var(a)})
Bodies ==
  Atoms \cup Bins({"+", "<", "/"}, Atoms, Atoms) \cup SomeCalls
  \cup Bins({"-", "<"}, SomeCalls \cup {Num}, SomeCalls \cup {Var(a)}) \cup Calls(SomeCalls)
  \cup {Call(f, <<l, r>>) : l \in {Num, Call(f, <<>>)}, r \in {Var(a), Call(g, <<>>)}}
FewBodies == {Num, Var(a), Call(f, <<Var(a)>>), Call(g, <<>>)}
Args == {<<>>, <<a>>, <<a, a>>}

Def(name, args, body) == [Proto |-> [Name |-> name, Args |-> args], Body |-> body]
Defs(N, A, B) == {Def(n, x, b) : n \in N, x \in A, b \in B}

\* The nodes of a tree, after those there are, in the order the parser makes them
RECURSIVE Flatten(_, _)
Flatten(nodes, t) ==
  LET step(st, kid) ==
        LET ns == Flatten(st.nodes, kid)
        IN  [nodes |-> ns, kids |-> Append(st.kids, Len(ns))]
      st == FoldLeft(step, [nodes |-> nodes, kids |-> <<>>], t.kids)
  IN  Append(st.nodes, [t EXCEPT !.kids = st.kids])

Program(defs) ==
  FoldLeft(LAMBDA p, d :
             LET ns == Flatten(p.nodes, d.Body)
             IN  [p EXCEPT !.nodes = ns, !.lines = Append(@, [d EXCEPT !.Body = Len(ns)])],
           [ok |-> TRUE, nodes |-> <<>>, lines |-> <<>>], defs)

ParserFailed == [ok |-> FALSE, nodes |-> <<>>, lines |-> <<>>]

SomePrograms ==
  {ParserFailed}
  \cup {Program(<<d, e>>) : d \in Defs({f}, Args, FewBodies), e \in Defs({f, g}, Args, Bodies)}
  \cup {Program(<<d, e, h>>) : d, e, h \in Defs({f, g}, {<<>>, <<a>>}, FewBodies)}

\* Functions with any three argument names
ThreeArgs == {Program(<<d>>) : d \in Defs({f}, {<<x, y, z>> : x, y, z \in {a, a1}}, Atoms)}
OneOperator == {Program(<<Def(f, <<a>>, b)>>) : b \in Bins(Operator, {Num, Var(a)}, Atoms)}
=============================================================================
