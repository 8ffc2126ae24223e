----------------------------- MODULE MCCompiler -----------------------------
(***************************************************************************)
(* Model checking of Compiler: files of two or three definitions, whole,   *)
(* cut short after any character, or with any one character missing.       *)
(* "extern" is spelled "ax".                                               *)
(***************************************************************************)
EXTENDS Compiler

ExternIs == <<"a", "x">>
SomeChars == {"a", "x", "1", ".", "=", ">", "<", "(", ")", ",", ":", ";", "+", "-", "*", "/", "_", " ", "$",
              "LF", "CR"}
SomeIdents == {"axa", "xxa", "xxa1", "xax1", "xx1", "a", "x", "a1", "x1", "aa", "xx", "xa", "xax", "ax1", "xa1", "a1a"}
SomeNumerals == {"1", "1.", ".1", ".", "11."}

Spell(text) == [i \in 1 .. Len(text) |-> SubSeq(text, i, i)]

First == {"a=>1.", "a x:a=>x+1.*x", "a=>x"}
Second == {"x=>a()", "x a1:a=>(a1-.)<a(1.)", "a x:x=>x(x,1.)/x", "a=>.1", "ax1_=>1"}
Between == {<<>>, <<";">>, <<" ", "$", "a", "$", "LF">>, <<"$", "a", "LF">>, <<"CR", "LF">>}

Files ==
  {Spell(d) \o s \o Spell(e) : d \in First, s \in Between, e \in Second}
  \cup {Spell(d) : d \in {"a=>x;a=>1.;x=>a()", "a a:a=>x a1 a:x=>a a=>a(a())", "a x:x x:x=>x xa=>a(xa(),1.)"}}

CutShort(f) == {SubSeq(f, 1, i) : i \in 0 .. Len(f)}
OneMissing(f) == {SubSeq(f, 1, i - 1) \o SubSeq(f, i + 1, Len(f)) : i \in 1 .. Len(f)}

SomeSources == UNION {CutShort(f) \cup OneMissing(f) : f \in Files}
=============================================================================
