----------------------------- MODULE TokenStream -----------------------------
(***************************************************************************)
(* What the parser relies on of the lexer: each call of Lexer::get()       *)
(* appends one of the tokens that may come next.                           *)
(***************************************************************************)
EXTENDS Tokens

VARIABLE toks

Init == toks = <<>>
Next == \E t \in NextTokens(toks) : toks' = Append(toks, t)
Spec == Init /\ [][Next]_toks
=============================================================================
