------------------------------ MODULE MCParser ------------------------------
(***************************************************************************)
(* Model checking of Parser against the grammar its header states.         *)
(*                                                                         *)
(* Grammar[n] are the strings of token kinds of length n that derive from  *)
(* primary, from expression and from a comma-separated argument list,      *)
(* built from the shorter ones; nothing of the parser is used.             *)
(***************************************************************************)
EXTENDS Parser

BinOps == {"<", ">", "grtr_eq", "lssr_eq", "+", "-", "*", "/"} \cap Kinds

Cat(S, T) == {s \o t : s \in S, t \in T}
One(K) == {<<k>> : k \in K \cap Kinds}

Nothing == [primary |-> {}, expression |-> {}, args |-> {}, prototype |-> {}, definition |-> {},
            modules |-> {}]

\* G holds the grammar of the lengths below n.
At(G, n) == IF n \in DOMAIN G THEN G[n] ELSE Nothing

PrimaryOf(G, n) ==
  (IF n = 1 THEN One({"identifier", "real_number"}) ELSE {})
  \cup Cat(Cat(One({"("}), At(G, n - 2).expression), One({")"}))
  \cup Cat(Cat(Cat(One({"identifier"}), One({"("})),
               IF n = 3 THEN {<<>>} ELSE At(G, n - 3).args), One({")"}))

\* expression ::= primary | primary binop expression
ExpressionOf(G, n) ==
  PrimaryOf(G, n) \cup
  UNION {Cat(Cat(G[i].primary, One(BinOps)), At(G, n - 1 - i).expression) : i \in 1 .. n - 1}

ArgsOf(G, n) ==
  ExpressionOf(G, n) \cup
  UNION {Cat(Cat(G[i].expression, One({","})), At(G, n - 1 - i).args) : i \in 1 .. n - 1}

\* prototype ::= id (id ':' id)* '=>'; here without its arrow
PrototypeOf(G, n) ==
  (IF n = 1 THEN One({"identifier"}) ELSE {})
  \cup Cat(At(G, n - 3).prototype, Cat(Cat(One({"identifier"}), One({":"})), One({"identifier"})))

DefinitionOf(G, n) ==
  UNION {Cat(Cat(G[i].prototype, One({"func_arrow"})), At(G, n - 1 - i).expression) : i \in 1 .. n - 1}

\* A module is a sequence of definitions and (single) line breaks.
ModulesOf(G, n) ==
  DefinitionOf(G, n)
  \cup UNION {Cat(G[i].modules, At(G, n - i).definition) : i \in 1 .. n - 1}
  \cup (IF n = 1 THEN One({"line_break"})
        ELSE Cat({m \in At(G, n - 1).modules : Last(m) # "line_break"}, One({"line_break"})))

Grammar ==
  FoldLeft(LAMBDA G, n :
             Append(G, [primary |-> PrimaryOf(G, n), expression |-> ExpressionOf(G, n),
                        args |-> ArgsOf(G, n), prototype |-> PrototypeOf(G, n),
                        definition |-> DefinitionOf(G, n), modules |-> ModulesOf(G, n)]),
           <<>>, [n \in 1 .. MaxTokens |-> n])

Modules == {<<>>} \cup UNION {Grammar[n].modules : n \in DOMAIN Grammar}
Sentences == Cat(Modules, {<<"eof">>})
ViablePrefixes == UNION {{SubSeq(s, 1, i) : i \in 0 .. Len(s)} : s \in Sentences}

KindsOf(s) == [i \in DOMAIN s |-> s[i].kind]

\* The parser accepts exactly the modules of the grammar: what it accepts is one,
\* and when it reports an error no module begins with the tokens read so far.
DecidesTheGrammar ==
  /\ pc = "Done" /\ err = "none" => KindsOf(toks) \in Sentences
  /\ err # "none" => KindsOf(toks) \notin ViablePrefixes
=============================================================================
