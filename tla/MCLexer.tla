------------------------------- MODULE MCLexer -------------------------------
(***************************************************************************)
(* Model checking of Lexer.  "extern" is one letter here, so that it and   *)
(* longer identifiers that begin with it fit in a short source.            *)
(*                                                                         *)
(* Characters that take part in tokens and characters of the layout meet   *)
(* in short sources only, and each of the two kinds is alone in longer     *)
(* ones.                                                                   *)
(***************************************************************************)
EXTENDS Lexer, TLC

ExternIs == <<"x">>

InTokens == {"a", "x", "1", ".", ">", "=", "/"}
InOperators == {"a", ">", "<", ":", "=", "/"}
InLayout == {"a", " ", "CR", "LF", ";", "$"}

SomeSources ==
  (InTokens :> 5) @@ (InOperators :> 4) @@ (InLayout :> 6)
    @@ ((InTokens \cup InOperators \cup InLayout) :> 3)
=============================================================================
