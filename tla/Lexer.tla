-------------------------------- MODULE Lexer --------------------------------
(***************************************************************************)
(* grComp/Lexer.cpp: Lexer::get(), called again and again on one source,   *)
(* and the Reader it takes its characters from.                            *)
(*                                                                         *)
(* An action reads at most one character, so every loop of get() is there  *)
(* with its exit conditions.  Characters are chosen as they are read.  The *)
(* text of an identifier or number is kept as its place in the source.     *)
(***************************************************************************)
EXTENDS Integers, Sequences, SequencesExt, FiniteSets

CONSTANTS
  MaxChars,      \* for each alphabet a source may be over, the bound on its length
  Extern,        \* the spelling of "extern"
  Indeterminate  \* a value of the uninitialised cur_tok other than tok_line_break

Alpha == {"a", "x"}
Digit == {"0", "1"}
Alnum == Alpha \cup Digit
Space == {" ", "CR"}      \* isspace and not '\n'
Break == {";", "LF"}
Single == {"(", ")", "*", "+", ",", "-", "/", "_", "{"}
Char == Alnum \cup Space \cup Break \cup Single \cup {".", "$", ">", "<", ":", "="}

SourceChars == UNION DOMAIN MaxChars

ASSUME MaxCharsAssumption ==
  /\ SourceChars \subseteq Char
  /\ \A alphabet \in DOMAIN MaxChars : MaxChars[alphabet] \in Nat
\* There is a longest source.
ASSUME MaxCharsBound ==
  \E longest \in DOMAIN MaxChars :
    \A alphabet \in DOMAIN MaxChars : MaxChars[alphabet] <= MaxChars[longest]
ASSUME ExternAssumption == Extern \in Seq(Alpha)

VARIABLES
  input,    \* the characters Reader::get() has returned
  pc,       \* Idle between calls of get(), else what get() is reading
  start,    \* where the token (or comment) being read began
  cur_tok,
  out       \* the tokens returned so far, each with its place in the source

vars == <<input, pc, start, cur_tok, out>>

last_char == IF input = <<>> THEN " " ELSE Last(input)

\* identifier_str and NumStr: what was read of the token before last_char.
text == SubSeq(input, start, Len(input) - 1)
hadDot == "." \in ToSet(text)

\* Reader::get(): the next character of the stream, or EOF, again and again.
Read ==
  LET over == {alphabet \in DOMAIN MaxChars :
                 ToSet(input) \subseteq alphabet /\ Len(input) < MaxChars[alphabet]}
  IN  \E c \in (UNION over) \cup {"EOF"} : input' = Append(input, c)

\* RETURN
Return(kind, begin, end) ==
  /\ cur_tok' = kind
  /\ out' = Append(out, [kind |-> kind, first |-> begin, last |-> end])
  /\ pc' = "Idle"
  /\ UNCHANGED start

\* A token of one character, last_char
ReturnChar(kind) == Read /\ Return(kind, Len(input), Len(input))

\* The tokens of two characters
Pair ==
  [grtr_eq |-> <<">", "=">>, lssr_eq |-> <<"<", "=">>, assign |-> <<":", "=">>,
   func_arrow |-> <<"=", ">">>, not_eq |-> <<"=", "/">>]

-----------------------------------------------------------------------------
\* cur_tok has no initialiser (Lexer.h); whether it looks like a line break is
\* anybody's guess, and a leading line break is dropped or not.
Init ==
  /\ input = <<>>
  /\ pc = "Idle"
  /\ start = 0
  /\ cur_tok \in {"line_break", Indeterminate}
  /\ out = <<>>

\* The parser calls get(); it may do so once more after the end of file.
Call ==
  /\ pc = "Idle" /\ Cardinality({i \in DOMAIN out : out[i].kind = "eof"}) < 2
  /\ pc' = "Get"
  /\ UNCHANGED <<input, start, cur_tok, out>>

SkipSpace ==
  /\ pc = "Get" /\ last_char \in Space
  /\ Read
  /\ UNCHANGED <<pc, start, cur_tok, out>>

\* What may be longer than one character, by its first one
Begins ==
  [Identifier |-> Alpha, Number |-> Digit \cup {"."}, Operator |-> {">", "<", ":", "="},
   Comment |-> {"$"}]

Begin ==
  /\ pc = "Get"
  /\ \E state \in DOMAIN Begins : last_char \in Begins[state] /\ pc' = state
  /\ Read
  /\ start' = Len(input)
  /\ UNCHANGED <<cur_tok, out>>

\* The conditions of the three loops
NumberGoesOn_ManyDots == last_char \in Digit \cup {"."}   \* mutant
NumberGoesOn == last_char \in Digit \/ (last_char = "." /\ ~hadDot)
CommentStops_NotCR == {"LF", "$"}   \* mutant
CommentStops == {"LF", "CR", "$"}

GoesOn ==
  \/ pc = "Identifier" /\ last_char \in Alnum
  \/ pc = "Number" /\ NumberGoesOn
  \/ pc = "Comment" /\ last_char \notin CommentStops \cup {"EOF"}

More ==
  /\ GoesOn
  /\ Read
  /\ UNCHANGED <<pc, start, cur_tok, out>>

\* last_char is not part of the token any more.
End(state, kind) ==
  /\ pc = state /\ ~GoesOn
  /\ Return(kind, start, Len(input) - 1)
  /\ UNCHANGED input

IdentifierEnd == End("Identifier", IF text = Extern THEN "extern" ELSE "identifier")
NumberEnd == End("Number", IF hadDot THEN "real_number" ELSE "relative_number")

\* '>', '<', ':' and '=', alone or with the character after them
IsPair(kind) == pc = "Operator" /\ <<input[start], last_char>> = Pair[kind]
OperatorSingle ==
  /\ pc = "Operator" /\ \A kind \in DOMAIN Pair : ~IsPair(kind)
  /\ End("Operator", input[start])

\* Mutant: the character after the pair is not read, last_char stays the second.
OperatorPair_KeepsSecond ==
  \E kind \in DOMAIN Pair :
    IsPair(kind) /\ Return(kind, start, Len(input)) /\ UNCHANGED input

OperatorPair ==
  \E kind \in DOMAIN Pair :
    IsPair(kind) /\ Read /\ Return(kind, start, Len(input))

\* The character that ends a comment is eaten with it, and get() calls itself.
CommentEnd ==
  /\ pc = "Comment" /\ last_char \in CommentStops
  /\ Read
  /\ pc' = "Get"
  /\ UNCHANGED <<start, cur_tok, out>>

\* A line break is a token unless the token before it was one; if so, get()
\* calls itself.
LineBreak_Always == pc = "Get" /\ last_char \in Break /\ ReturnChar("line_break")   \* mutant

LineBreak ==
  /\ pc = "Get" /\ last_char \in Break
  /\ IF cur_tok # "line_break" THEN ReturnChar("line_break")
                               ELSE Read /\ UNCHANGED <<pc, start, cur_tok, out>>

\* Mutants: the end of file is no token; it does not end a comment.
EofToken_AsCharacter == "EOF"
EofToken == "eof"
EofEnds_NotComment == {"Get"}
EofEnds == {"Get", "Comment"}

EndOfFile ==
  /\ pc \in EofEnds /\ last_char = "EOF"
  /\ Return(EofToken, Len(input), Len(input))
  /\ UNCHANGED input

OtherChar == pc = "Get" /\ last_char \in Single /\ ReturnChar(last_char)

get ==
  \/ SkipSpace \/ Begin \/ More \/ IdentifierEnd \/ NumberEnd
  \/ OperatorSingle \/ OperatorPair \/ CommentEnd \/ LineBreak \/ EndOfFile \/ OtherChar

Next == Call \/ get

Spec == Init /\ [][Next]_vars

\* get() is sequential code: once called it goes on.
FairSpec == Spec /\ WF_vars(get)
-----------------------------------------------------------------------------
Kind ==
  {"eof", "assign", "not_eq", "grtr_eq", "lssr_eq", "func_arrow", "extern", "line_break",
   "identifier", "relative_number", "real_number", ">", "<", ":", "="} \cup Single

TypeOK ==
  /\ input \in Seq(SourceChars \cup {"EOF"})
  /\ pc \in {"Idle", "Get", "Identifier", "Number", "Operator", "Comment"}
  /\ start \in 0 .. Len(input)
  /\ cur_tok \in Kind \cup {Indeterminate}
  /\ out \in Seq([kind : Kind, first : 1 .. Len(input), last : 1 .. Len(input)])

(***************************************************************************)
(* Longest match.  Every token is spelled by its characters, and would not *)
(* be with one more.                                                       *)
(***************************************************************************)
\* s is the spelling of a token of kind k
Spells(s, k) ==
  LET digits == {i \in DOMAIN s : s[i] \in Digit}
  IN  /\ k = "identifier" => s[1] \in Alpha /\ ToSet(s) \subseteq Alnum /\ s # Extern
      /\ k = "extern" => s = Extern
      /\ k = "relative_number" => digits = DOMAIN s
      /\ k = "real_number" => \E dot \in DOMAIN s : s[dot] = "." /\ digits = DOMAIN s \ {dot}
      /\ k = "line_break" => s[1] \in Break /\ Len(s) = 1
      /\ k = "eof" => s = <<"EOF">>
      /\ k \in DOMAIN Pair => s = Pair[k]
      /\ k \in Single \cup Begins.Operator => s = <<k>>

LongestMatch ==
  \A i \in DOMAIN out :
    LET t == out[i]
        more == SubSeq(input, t.first, t.last + 1)
    IN  /\ Spells(SubSeq(input, t.first, t.last), t.kind)
        /\ t.last < Len(input) => \A k \in Kind : ~Spells(more, k)

(***************************************************************************)
(* Layout.  Between two calls every character but the one of lookahead is  *)
(* accounted for, once: it is white space, or belongs to a comment ('$' to *)
(* the end of the line or the next '$', both included), or to one token,   *)
(* or it is a line break after a line break token.  Before the first token *)
(* a line break may be dropped: cur_tok is indeterminate.                  *)
(***************************************************************************)
\* open[i]: the character after the i-th is inside a comment.
open[i \in 0 .. Len(input)] ==
  IF i = 0 THEN FALSE
  ELSE IF open[i - 1] THEN input[i] \notin {"LF", "CR", "$"} ELSE input[i] = "$"

Layout(i) == input[i] \in Space \/ open[i - 1] \/ open[i]
Before(i) == {j \in DOMAIN out : out[j].last < i}
Redundant(i) ==
  /\ input[i] \in Break
  /\ Before(i) # {} => out[Cardinality(Before(i))].kind = "line_break"

EveryCharacterOnce ==
  pc = "Idle" =>
    \A i \in 1 .. Len(input) - 1 :
      LET tokens == Cardinality({j \in DOMAIN out : i \in out[j].first .. out[j].last})
      IN  IF Layout(i) THEN tokens = 0
          ELSE tokens = 1 \/ (tokens = 0 /\ Redundant(i))

\* get() reads one character further than the token it returns and no more, and
\* nothing after the end of the stream.
OneCharacterAhead ==
  /\ pc = "Idle" /\ out # <<>> /\ Last(out).kind # "eof" => Len(input) = Last(out).last + 1
  /\ \A i \in 1 .. Len(input) - 1 : input[i] # "EOF"

\* Every call of get() returns, whatever the source: an unterminated comment, a
\* run of blank lines, a number at the end of the file.
GetReturns == pc = "Get" ~> pc = "Idle"

(***************************************************************************)
(* What the parser is promised: Tokens!NextTokens.                         *)
(***************************************************************************)
\* What get() leaves for the parser in identifier_str and the number's register
Texts ==
  [identifier |-> "name", extern |-> "extern", real_number |-> "number",
   relative_number |-> "number"]
TokenOf(k) == [kind |-> k, text |-> IF k \in DOMAIN Texts THEN Texts[k] ELSE ""]
toks == [i \in DOMAIN out |-> TokenOf(out[i].kind)]

Promise ==
  INSTANCE TokenStream WITH Idents <- {"name"}, Numerals <- {"number"}, Kinds <- Kind \ {"eof"},
                            MaxTokens <- Max(Range(MaxChars)) + 2

\* The tokens get() returns are such a stream: line breaks never come twice in a
\* row, and after the end of file there is only the end of file.
PromiseKept == Promise!Spec
=============================================================================
