------------------------------- MODULE Tokens -------------------------------
(***************************************************************************)
(* What the lexer hands to the parser: the token codes of Lexer.h, the     *)
(* binary-operator precedence table of Parser.cpp, and the token stream    *)
(* as the parser may rely on it.                                           *)
(*                                                                         *)
(* A token is a record: its kind, and the text the lexer's registers       *)
(* identifier_str and real_num_value hold after it ("" when it sets none). *)
(***************************************************************************)
EXTENDS Integers, Sequences, SequencesExt

CONSTANTS
  Idents,     \* spellings of identifiers
  Numerals,   \* spellings of numbers
  Kinds,      \* the token kinds the source text may contain
  MaxTokens   \* bound on the number of tokens before the end of file

(***************************************************************************)
(* Token codes.  A character that is no other token is returned as its own *)
(* (unsigned) value; "_" and "{" stand for the characters the grammar does *)
(* not know, and "char255" for the largest value istream::get can return.  *)
(* The lexer turns ';' into a line break, so ';' is not a kind of its own. *)
(***************************************************************************)
Kind ==
  {"eof", "assign", "not_eq", "grtr_eq", "lssr_eq", "func_arrow", "extern", "line_break",
   "identifier", "relative_number", "real_number",
   "(", ")", "*", "+", ",", "-", "/", ":", "<", "=", ">", "_", "{", "char255"}

TokCode(k) ==
  CASE k = "eof" -> -1
    [] k = "assign" -> -11
    [] k = "not_eq" -> -12
    [] k = "grtr_eq" -> -13
    [] k = "lssr_eq" -> -14
    [] k = "func_arrow" -> -101
    [] k = "extern" -> -201
    [] k = "line_break" -> -301
    [] k = "identifier" -> -302
    [] k = "relative_number" -> -303
    [] k = "real_number" -> -304
    [] k = "(" -> 40 [] k = ")" -> 41 [] k = "*" -> 42 [] k = "+" -> 43
    [] k = "," -> 44 [] k = "-" -> 45 [] k = "/" -> 47 [] k = ":" -> 58
    [] k = "<" -> 60 [] k = "=" -> 61 [] k = ">" -> 62 [] k = "_" -> 95
    [] k = "{" -> 123
    [] OTHER -> 255   \* "char255"

ASSUME KindsAssumption == Kinds \subseteq Kind
ASSUME MaxTokensAssumption == MaxTokens \in Nat

binop_array_offset == 120
binop_array_size == 500

\* The table is indexed by token code + offset; an entry never set stays 0.
init_binop_precedence ==
  LET at(k) == TokCode(k) + binop_array_offset
  IN  [i \in 0 .. binop_array_size - 1 |->
        CASE i \in {at("<"), at(">"), at("grtr_eq"), at("lssr_eq")} -> 10
          [] i \in {at("+"), at("-")} -> 20
          [] i \in {at("*"), at("/")} -> 40
          [] OTHER -> 0]

\* The precedence of a token, -1 for one that is no declared binary operator.
GetTokPrecedence(k) ==
  LET i == TokCode(k) + binop_array_offset
  IN  IF i < 0 \/ init_binop_precedence[i] <= 0 THEN -1 ELSE init_binop_precedence[i]

-----------------------------------------------------------------------------
Text == Idents \cup Numerals \cup {"", "extern"}

TextsOf(k) ==
  CASE k = "identifier" -> Idents
    [] k \in {"real_number", "relative_number"} -> Numerals
    [] k = "extern" -> {"extern"}
    [] OTHER -> {""}

Token == UNION {[kind : {k}, text : TextsOf(k)] : k \in Kind}

(***************************************************************************)
(* The tokens that may come after the stream s: the end of file repeats    *)
(* for ever, and no line break follows a line break.  MaxTokens bounds the *)
(* source.                                                                 *)
(***************************************************************************)
NextTokens(s) ==
  LET Ended == Len(s) >= MaxTokens \/ (s # <<>> /\ Last(s).kind = "eof")
      Broken == s # <<>> /\ Last(s).kind = "line_break"
      Allowed == (IF Ended THEN {} ELSE IF Broken THEN Kinds \ {"line_break"} ELSE Kinds)
                   \cup {"eof"}
  IN  UNION {[kind : {k}, text : TextsOf(k)] : k \in Allowed}
=============================================================================
