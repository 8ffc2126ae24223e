----------------------------- MODULE Instructions -----------------------------
(***************************************************************************)
(* core/Instructions.h, and the layout of a program in bytes: an opcode    *)
(* and its arguments, one after the other, as operator<< of ProgramMemory  *)
(* puts them.                                                              *)
(*                                                                         *)
(* An instruction is a record: its name, for arithmetic its operation,     *)
(* type and form, a number arg (an address, a length, an operand or, for   *)
(* JUMP, the index of the instruction jumped to) and the bytes of SET.     *)
(***************************************************************************)
EXTENDS SequencesExt, Words

Leading ==
  <<"NO_OP", "END", "SET_AOF", "FLG_AOF", "FLG_CAOF", "JUMP", "JUMPP", "JUMPIF", "JUMPPIF",
    "MOVE", "MOVEP", "SET", "COPY">>
Forms == <<"Cur", "CurP", "CurS", "Stack", "StackP", "StackS">>
Trailing == <<"SINfloat", "COSfloat", "PRINTascii", "PRINTschar">>

Position(s, e) == (CHOOSE i \in DOMAIN s : s[i] = e) - 1

MathCode(op, type, form) ==
  Len(Leading) + Len(Types) * Len(Forms) * Position(Operations, op)
    + Len(Forms) * Position(Types, type) + Position(Forms, form)

Code(name) ==
  IF Contains(Leading, name) THEN Position(Leading, name)
  ELSE Len(Leading) + Len(Operations) * Len(Types) * Len(Forms) + Position(Trailing, name)

-----------------------------------------------------------------------------
Instr(name, arg, data) ==
  [name |-> name, op |-> "", type |-> "", arg |-> arg, data |-> data]
Simple(name) == Instr(name, 0, <<>>)
WithArg(name, arg) == Instr(name, arg, <<>>)
SET(data) == Instr("SET", 0, data)
Math(form, op, type, arg) == [name |-> form, op |-> op, type |-> type, arg |-> arg, data |-> <<>>]

\* What is left of an instruction the end of the program cuts off: its opcode and
\* the first bytes of its arguments.
Cut(code, data) == Instr("CUT", code, data)

Arguments(i, target) ==
  CASE i.name = "CUT" -> i.data
    [] i.name \in {"NO_OP", "END", "PRINTschar"} -> <<>>
    [] i.name = "JUMP" -> Word(target, AddrSize)
    [] i.name \in {"MOVE", "MOVEP", "CurP"} -> Word(i.arg, AddrSize)
    [] i.name = "SET" -> Word(Len(i.data), AddrSize) \o i.data
    [] i.name = "PRINTascii" -> Word(i.arg, IntSize)
    [] i.name = "Cur" -> Word(i.arg, SizeOf[i.type])

Opcode(i) ==
  CASE i.name = "CUT" -> i.arg
    [] i.op # "" -> MathCode(i.op, i.type, i.name)
    [] OTHER -> Code(i.name)

\* Where the k-th instruction of a program begins, for k up to Len(program) + 1
Offset(program, k) ==
  LET offset[j \in 1 .. k] ==
        IF j = 1 THEN 0 ELSE offset[j - 1] + 1 + Len(Arguments(program[j - 1], 0))
  IN  offset[k]

Assemble(program) ==
  FlattenSeq([k \in DOMAIN program |->
                <<Opcode(program[k])>> \o Arguments(program[k], Offset(program, program[k].arg))])
=============================================================================
