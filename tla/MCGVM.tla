-------------------------------- MODULE MCGVM ---------------------------------
(***************************************************************************)
(* Programs for GVM, and what is checked of it.                            *)
(***************************************************************************)
EXTENDS GVM, FiniteSets

\* Float arithmetic is left open; here the bytes are exclusive-ored, so to speak.
FloatArithAny(op, a, b) == [k \in DOMAIN a |-> (a[k] + b[k] + Position(Operations, op)) % 256]

\* Every instruction that is implemented, with arguments that meet every condition:
\* inside, at the end of and outside the memory, zero, negative, the extremes.
Straight ==
  {Simple(name) : name \in {"NO_OP", "END", "PRINTschar"}}
    \cup {WithArg("MOVE", a) : a \in {1, 2, 40000}} \cup {WithArg("PRINTascii", n) : n \in {0, 2, 40000}}
    \cup {SET(<<>>), SET(<<7>>), SET(<<0, 128>>), SET(<<255, 255>>)}
    \cup {Math("Cur", m[1], m[2], 32767) : m \in {<<"ADD", "int">>, <<"MUL", "int">>, <<"SUB", "float">>}}
    \cup {Math("Cur", m[1], m[2], 0 - 1) : m \in {<<"DIV", "int">>, <<"MOD", "int">>, <<"MUL", "char">>}}
    \cup {Math("CurP", m[1], m[2], 1) : m \in {<<"SUB", "int">>, <<"DIV", "char">>, <<"MOD", "char">>}}

Jumps == {WithArg("JUMP", k) : k \in 1 .. 3}
Unimplemented == {WithArg("MOVEP", 0)}
Cuts ==
  {Cut(Code("MOVE"), <<0>>), Cut(Code("SET"), <<>>), Cut(Code("SET"), <<2, 0, 7>>),
   Cut(Code("PRINTascii"), <<1>>), Cut(MathCode("ADD", "int", "Cur"), <<1>>),
   Cut(MathCode("MOD", "char", "CurP"), <<>>)}

Alphabet == Straight \cup Jumps \cup Unimplemented \cup Cuts

\* A jump goes to an instruction, or just after the last; only the last is cut.
InPlace(p) ==
  \A k \in DOMAIN p :
    /\ p[k].name = "JUMP" => p[k].arg <= Len(p) + 1
    /\ p[k].name = "CUT" => k = Len(p)
Source(p) == [program |-> p, bytes |-> Assemble(p)]
Assembled == {Source(p) : p \in {q \in UNION {[1 .. n -> Alphabet] : n \in 1 .. 3} : InPlace(q)}}

\* Programs of a declared instruction that the interpreter does not know
Movep == {Source(<<SET(<<2>>), WithArg("MOVEP", 0)>>)}

-----------------------------------------------------------------------------
\* A program goes on for ever only by jumping again and again, or at an instruction
\* the switch does not know.
LoopsOnlyByJumping ==
  \/ <>(pc # "Run")
  \/ <>[]AtUnknown
  \/ []<>At(Code("JUMP"))

\* "move cursor to arg1 pointers value" (Instructions.h)
MovepMoves ==
  \A a \in 0 .. MemSize - AddrSize :
    (At(Code("MOVEP")) /\ Address(AddrSize) = a) ~> cursor = Unsigned(Load(a, AddrSize))
=============================================================================
