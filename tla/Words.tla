------------------------------- MODULE Words ---------------------------------
(***************************************************************************)
(* The values of gVM as the machine keeps them: sequences of bytes, the    *)
(* low byte first, negative numbers in two's complement.  An address is an *)
(* unsigned number, an int and a char are signed.                          *)
(***************************************************************************)
EXTENDS Integers, Sequences

CONSTANTS
  AddrSize,          \* sizeof(maddress): 8 in the code
  IntSize,           \* sizeof(int): 4 in the code
  FloatSize,         \* sizeof(float)
  FloatArith(_, _, _) \* float arithmetic, which is left open: operation, bytes, bytes -> bytes

ASSUME WordSizesAssumption == {AddrSize, IntSize, FloatSize} \subseteq Nat \ {0}

Byte == 0 .. 255

\* How many values k bytes can have
Pow256[k \in Nat] == IF k = 0 THEN 1 ELSE 256 * Pow256[k - 1]

Unsigned(bytes) ==
  LET low[k \in 0 .. Len(bytes)] ==
        IF k = 0 THEN 0 ELSE low[k - 1] + bytes[k] * Pow256[k - 1]
  IN  low[Len(bytes)]
Signed(bytes) ==
  LET n == Unsigned(bytes) IN IF 2 * n >= Pow256[Len(bytes)] THEN n - Pow256[Len(bytes)] ELSE n
Word(n, size) == [i \in 1 .. size |-> (n \div Pow256[i - 1]) % 256]

\* The types of core/Instructions.h, in the order of MATH_OPERATOR_TYPES
Types == <<"float", "int", "char">>
SizeOf == [float |-> FloatSize, int |-> IntSize, char |-> 1]

Operations == <<"ADD", "SUB", "MUL", "DIV", "MOD">>

-----------------------------------------------------------------------------
Abs(n) == IF n < 0 THEN -n ELSE n

\* C++ division truncates, and the remainder has the sign of the dividend.
Quotient(a, b) == IF (a < 0) = (b < 0) THEN Abs(a) \div Abs(b) ELSE -(Abs(a) \div Abs(b))

Exact(op, a, b) ==
  CASE op = "ADD" -> a + b
    [] op = "SUB" -> a - b
    [] op = "MUL" -> a * b
    [] op = "DIV" -> Quotient(a, b)
    [] op = "MOD" -> a - b * Quotient(a, b)

\* a op= b is undefined: by zero, or the result (or, for the remainder, the
\* quotient) is no int.  A char is promoted: its result is an int and is cut off.
IsInt(n) == -(Pow256[IntSize] \div 2) <= n /\ n < Pow256[IntSize] \div 2
IsUndefined(op, type, a, b) ==
  /\ type # "float"
  /\ \/ op \in {"DIV", "MOD"} /\ Signed(b) = 0
     \/ ~IsInt(Exact(IF op = "MOD" THEN "DIV" ELSE op, Signed(a), Signed(b)))

\* The bytes of a after a op= b, where that is defined
Result(op, type, a, b) ==
  IF type = "float" THEN FloatArith(op, a, b)
  ELSE Word(Exact(op, Signed(a), Signed(b)), SizeOf[type])
=============================================================================
