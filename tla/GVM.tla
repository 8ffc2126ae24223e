--------------------------------- MODULE GVM ---------------------------------
(***************************************************************************)
(* gVM/execute.cpp: execute_program() on the bytes of a program and the    *)
(* stack memory of gVM/Memory.h.  One action per case of the switch.       *)
(*                                                                         *)
(* Nothing checks an address, an operand or how many bytes of the program  *)
(* are left.  What C++ leaves undefined ends the execution here, with pc   *)
(* saying what it was.                                                     *)
(***************************************************************************)
EXTENDS Instructions

CONSTANTS
  Sources,    \* programs: their bytes, and the instructions they were assembled from
  MemSize,    \* 2048 in the code
  InitBytes   \* what the uninitialised stack memory may hold

ASSUME SourcesAssumption == \A s \in Sources : s.bytes \in Seq(Byte)
\* An int counts the bytes of the stack memory.
ASSUME MemSizeAssumption == MemSize \in Nat /\ 2 * MemSize < Pow256[IntSize]
ASSUME InitBytesAssumption == InitBytes \subseteq Byte

VARIABLES
  program,      \* the instructions this program was assembled from, if it was
  instructions, \* its bytes
  curr_instr, cursor,
  memory,       \* m_buffer
  printed,      \* the last thing printed
  pc            \* "Run", "Done", or what undefined behaviour it came to

vars == <<program, instructions, curr_instr, cursor, memory, printed, pc>>

length == Len(instructions)
opcode == instructions[curr_instr + 1]

At(code) == pc = "Run" /\ curr_instr < length /\ opcode = code

\* GET_INSTR_ARG: size bytes after the opcode, which the program has or not
Has(size) == curr_instr + 1 + size <= length
Argument(size) == SubSeq(instructions, curr_instr + 2, curr_instr + 1 + size)

\* A maddress is unsigned.
Address_Signed(size) == Signed(Argument(size))   \* mutant
Address(size) == Unsigned(Argument(size))

Advance(size) == curr_instr' = curr_instr + 1 + size

Undefined(what) ==
  pc' = what /\ UNCHANGED <<program, instructions, curr_instr, cursor, memory, printed>>

\* smem->at(a), as size bytes
InMemory(a, size) == a + size <= MemSize
Load(a, size) == SubSeq(memory, a + 1, a + size)
Stored(a, bytes) ==
  [i \in 1 .. MemSize |-> IF i \in a + 1 .. a + Len(bytes) THEN bytes[i - a] ELSE memory[i]]

-----------------------------------------------------------------------------
Init ==
  /\ \E s \in Sources : program = s.program /\ instructions = s.bytes
  /\ curr_instr = 0 /\ cursor = 0
  /\ memory \in [1 .. MemSize -> InitBytes]
  /\ printed = <<>>
  /\ pc = "Run"

\* The condition of the loop
Leave ==
  /\ pc = "Run" /\ curr_instr >= length
  /\ pc' = "Done"
  /\ UNCHANGED <<program, instructions, curr_instr, cursor, memory, printed>>

NoOp ==
  /\ At(Code("NO_OP"))
  /\ Advance(0)
  /\ UNCHANGED <<program, instructions, cursor, memory, printed, pc>>

End ==
  /\ At(Code("END"))
  /\ Advance(0)
  /\ pc' = "Done"
  /\ UNCHANGED <<program, instructions, cursor, memory, printed>>

Jump ==
  /\ At(Code("JUMP")) /\ Has(AddrSize)
  /\ curr_instr' = Address(AddrSize)
  /\ UNCHANGED <<program, instructions, cursor, memory, printed, pc>>

MoveAdvance_Not == UNCHANGED curr_instr   \* mutant
MoveAdvance == Advance(AddrSize)

Move ==
  /\ At(Code("MOVE")) /\ Has(AddrSize)
  /\ cursor' = Address(AddrSize)
  /\ MoveAdvance
  /\ UNCHANGED <<program, instructions, memory, printed, pc>>

SetAdvance_NotData(len) == Advance(AddrSize)   \* mutant
SetAdvance(len) == Advance(AddrSize + len)

Set ==
  /\ At(Code("SET")) /\ Has(AddrSize)
  /\ LET len == Address(AddrSize)
     IN  IF ~InMemory(cursor, len) THEN Undefined("OutsideMemory")
         ELSE IF ~Has(AddrSize + len) THEN Undefined("OutsideProgram")
         ELSE /\ memory' = Stored(cursor, SubSeq(Argument(AddrSize + len), AddrSize + 1, AddrSize + len))
              /\ SetAdvance(len)
              /\ UNCHANGED <<program, instructions, cursor, printed, pc>>

-----------------------------------------------------------------------------
(***************************************************************************)
(* MATH_OPERATOR: Cur... takes its operand from the program, Cur...P from  *)
(* the memory at an address.                                               *)
(***************************************************************************)
ImplementedMath ==
  {<<"ADD", "int">>, <<"ADD", "float">>, <<"ADD", "char">>, <<"SUB", "int">>, <<"SUB", "float">>,
   <<"SUB", "char">>, <<"MUL", "int">>, <<"MUL", "float">>, <<"MUL", "char">>, <<"DIV", "int">>,
   <<"DIV", "float">>, <<"DIV", "char">>, <<"MOD", "int">>, <<"MOD", "char">>}

AtMath(m, form) == At(MathCode(m[1], m[2], form))

\* *cursor op= operand, an argument of the given size
Assign(m, operand, size) ==
  LET n == SizeOf[m[2]]
  IN  IF ~InMemory(cursor, n) THEN Undefined("OutsideMemory")
      ELSE IF IsUndefined(m[1], m[2], Load(cursor, n), operand) THEN Undefined("Arithmetic")
      ELSE /\ memory' = Stored(cursor, Result(m[1], m[2], Load(cursor, n), operand))
           /\ Advance(size)
           /\ UNCHANGED <<program, instructions, cursor, printed, pc>>

MathCur ==
  \E m \in ImplementedMath :
    /\ AtMath(m, "Cur") /\ Has(SizeOf[m[2]])
    /\ Assign(m, Argument(SizeOf[m[2]]), SizeOf[m[2]])

MathCurP ==
  \E m \in ImplementedMath :
    /\ AtMath(m, "CurP") /\ Has(AddrSize)
    /\ LET add == Address(AddrSize)
       IN  IF InMemory(add, SizeOf[m[2]]) THEN Assign(m, Load(add, SizeOf[m[2]]), AddrSize)
           ELSE Undefined("OutsideMemory")

\* printf("%.*s"): up to a NUL, and no more than len bytes; an unsigned that is no
\* int arrives as a negative precision, which is none.
PrintAscii ==
  /\ At(Code("PRINTascii")) /\ Has(IntSize)
  /\ LET len == Signed(Argument(IntSize))
         nuls == {n \in 0 .. MemSize - cursor - 1 : memory[cursor + n + 1] = 0}
         ends == (IF len >= 0 /\ InMemory(cursor, len) THEN {len} ELSE {}) \cup nuls
         end == CHOOSE n \in ends : \A k \in ends : n <= k
     IN  IF ends = {} THEN Undefined("OutsideMemory")
         ELSE /\ printed' = Load(cursor, end)
              /\ Advance(IntSize)
              /\ UNCHANGED <<program, instructions, cursor, memory, pc>>

PrintSchar ==
  /\ At(Code("PRINTschar"))
  /\ IF ~InMemory(cursor, 1) THEN Undefined("OutsideMemory")
     ELSE /\ printed' = <<Signed(Load(cursor, 1))>>
          /\ Advance(0)
          /\ UNCHANGED <<program, instructions, cursor, memory, pc>>

-----------------------------------------------------------------------------
\* The fixed arguments of the cases, in bytes
ArgumentSize ==
  [code \in Byte |->
     IF code \in {Code("JUMP"), Code("MOVE"), Code("SET")}
        \cup {MathCode(m[1], m[2], "CurP") : m \in ImplementedMath} THEN AddrSize
     ELSE IF code = Code("PRINTascii") THEN IntSize
     ELSE IF \E m \in ImplementedMath : code = MathCode(m[1], m[2], "Cur")
          THEN SizeOf[(CHOOSE m \in ImplementedMath : code = MathCode(m[1], m[2], "Cur"))[2]]
     ELSE 0]

CutShort ==
  /\ pc = "Run" /\ curr_instr < length /\ ~Has(ArgumentSize[opcode])
  /\ Undefined("OutsideProgram")

\* The switch has no default: the loop goes on with the same byte.
Implemented ==
  {Code(name) : name \in {"NO_OP", "END", "JUMP", "MOVE", "SET", "PRINTascii", "PRINTschar"}}
    \cup {MathCode(m[1], m[2], form) : m \in ImplementedMath, form \in {"Cur", "CurP"}}

AtUnknown == pc = "Run" /\ curr_instr < length /\ opcode \notin Implemented
Unknown == AtUnknown /\ UNCHANGED vars

Terminated == pc # "Run" /\ UNCHANGED vars

execute_program ==
  \/ Leave \/ NoOp \/ End \/ Jump \/ Move \/ Set \/ MathCur \/ MathCurP
  \/ PrintAscii \/ PrintSchar \/ CutShort \/ Unknown

Next == execute_program \/ Terminated

Spec == Init /\ [][Next]_vars

\* The interpreter is a loop that never waits.
FairSpec == Spec /\ WF_vars(execute_program)

-----------------------------------------------------------------------------
TypeOK ==
  /\ curr_instr \in Nat /\ cursor \in Nat
  /\ memory \in [1 .. MemSize -> Byte]
  /\ printed \in Seq(-128 .. 255)
  /\ pc \in {"Run", "Done", "OutsideMemory", "OutsideProgram", "Arithmetic"}

(***************************************************************************)
(* Assembled programs: the addresses and lengths fit their bytes, a jump   *)
(* goes to an instruction or just after the last, and only the last        *)
(* instruction is cut short.                                               *)
(***************************************************************************)
IsCutShort(code, data) ==
  \/ Len(data) < ArgumentSize[code]
  \/ /\ code = Code("SET") /\ Len(data) >= AddrSize
     /\ Len(data) - AddrSize < Unsigned(SubSeq(data, 1, AddrSize))

Instruction ==
  {i \in [name : STRING, op : STRING, type : STRING, arg : Int, data : Seq(Byte)] :
     /\ IF i.name \in {"Cur", "CurP"} THEN <<i.op, i.type>> \in ImplementedMath ELSE i.op = ""
     /\ \/ i.name \in {"NO_OP", "END", "PRINTschar", "JUMP", "SET", "Cur"}
        \/ i.name \in {"MOVE", "MOVEP", "CurP"} /\ i.arg \in 0 .. Pow256[AddrSize] - 1
        \/ i.name = "PRINTascii" /\ i.arg \in 0 .. Pow256[IntSize] - 1
        \/ i.name = "CUT" /\ i.arg \in Byte /\ IsCutShort(i.arg, i.data)}

Program ==
  {p \in Seq(Instruction) :
     /\ \A k \in DOMAIN p :
          /\ p[k].name = "JUMP" => p[k].arg \in 1 .. Len(p) + 1
          /\ p[k].name = "CUT" => k = Len(p)
     /\ Offset(p, Len(p) + 1) < Pow256[AddrSize]}

ASSUME AssembledAssumption ==
  \A s \in Sources : s.program \in Program /\ s.bytes = Assemble(s.program)

Places == 1 .. Len(program) + 1
place == IF \E k \in Places : Offset(program, k) = curr_instr
         THEN CHOOSE k \in Places : Offset(program, k) = curr_instr ELSE 0

Abstract == INSTANCE Machine WITH Programs <- Program

\* Assembled programs do what the comments of Instructions.h say: the bytes are
\* taken apart as they were put together, no instruction reads arguments of
\* another or past the end, each has its effect, and execution is undefined only
\* where the arithmetic is, outside the memory, or where the program is cut off.
\* (Of an instruction that is not implemented this says nothing but that it
\* changes nothing: see MovepMoves.)
DoesWhatIsCommented == Abstract!Spec
=============================================================================
