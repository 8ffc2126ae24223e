------------------------------- MODULE Machine --------------------------------
(***************************************************************************)
(* What core/Instructions.h says the instructions do, without opcodes and  *)
(* bytes of program: a list of instructions, the place in it, a cursor and *)
(* the memory.  execute_program() implements it on assembled programs.     *)
(***************************************************************************)
EXTENDS Instructions

CONSTANTS Programs, MemSize, InitBytes

VARIABLES program, place, cursor, memory, printed, pc

vars == <<program, place, cursor, memory, printed, pc>>

Init ==
  /\ program \in Programs
  /\ place = 1 /\ cursor = 0
  /\ memory \in [1 .. MemSize -> InitBytes]
  /\ printed = <<>>
  /\ pc = "Run"

i == program[place]
Here(names) == pc = "Run" /\ place \in DOMAIN program /\ i.name \in names

\* The bytes of memory an instruction reads or writes, without those of a text
Extent(a, size) == a + 1 .. a + size
Touches ==
  CASE i.name = "SET" -> Extent(cursor, Len(i.data))
    [] i.name = "Cur" -> Extent(cursor, SizeOf[i.type])
    [] i.name = "CurP" -> Extent(cursor, SizeOf[i.type]) \cup Extent(i.arg, SizeOf[i.type])
    [] i.name = "PRINTschar" -> Extent(cursor, 1)
    [] OTHER -> {}
\* No address is further than just after the memory, not even one nothing is copied to.
InMemory == cursor <= MemSize /\ Touches \subseteq 1 .. MemSize

Value(a) == SubSeq(memory, a + 1, a + SizeOf[i.type])
Operand == IF i.name = "Cur" THEN Word(i.arg, SizeOf[i.type]) ELSE Value(i.arg)
IsDefined == InMemory /\ (i.name \in {"Cur", "CurP"} => ~IsUndefined(i.op, i.type, Value(cursor), Operand))

WriteAtCursor(bytes) ==
  memory' = SubSeq(memory, 1, cursor) \o bytes \o SubSeq(memory, cursor + Len(bytes) + 1, MemSize)

-----------------------------------------------------------------------------
Goto ==
  /\ Here({"NO_OP", "JUMP", "MOVE"})
  /\ place' = IF i.name = "JUMP" THEN i.arg ELSE place + 1
  /\ cursor' = IF i.name = "MOVE" THEN i.arg ELSE cursor
  /\ UNCHANGED <<program, memory, printed, pc>>

Write ==
  /\ Here({"SET", "Cur", "CurP"}) /\ IsDefined
  /\ WriteAtCursor(IF i.name = "SET" THEN i.data ELSE Result(i.op, i.type, Value(cursor), Operand))
  /\ place' = place + 1
  /\ UNCHANGED <<program, cursor, printed, pc>>

\* A text ends at its length or before a NUL, whichever comes first.
Text(n) ==
  /\ cursor + n <= MemSize
  /\ n = i.arg \/ (cursor + n < MemSize /\ memory[cursor + n + 1] = 0)
  /\ \A k \in 1 .. n : k <= i.arg /\ memory[cursor + k] # 0

Show ==
  /\ \/ Here({"PRINTascii"}) /\ \E n \in 0 .. MemSize : Text(n) /\ printed' = SubSeq(memory, cursor + 1, cursor + n)
     \/ Here({"PRINTschar"}) /\ InMemory /\ printed' = <<Signed(<<memory[cursor + 1]>>)>>
  /\ place' = place + 1
  /\ UNCHANGED <<program, cursor, memory, pc>>

\* What no comment defines: outside the memory, or no arithmetic result.
Undefined ==
  /\ \/ Here({"SET", "Cur", "CurP", "PRINTschar"}) /\ ~IsDefined
     \/ Here({"PRINTascii"}) /\ ~ \E n \in 0 .. MemSize : Text(n)
  /\ pc' \in (IF Here({"PRINTascii"}) \/ ~InMemory THEN {"OutsideMemory"} ELSE {"Arithmetic"})
  /\ UNCHANGED <<program, place, cursor, memory, printed>>

\* The end of the program cuts the last instruction short.
CutShort ==
  /\ Here({"CUT"})
  /\ pc' \in {"OutsideProgram", "OutsideMemory"}
  /\ UNCHANGED <<program, place, cursor, memory, printed>>

\* END, or after the last instruction
Stop ==
  /\ \/ Here({"END"}) /\ place' = place + 1
     \/ pc = "Run" /\ place \notin DOMAIN program /\ UNCHANGED place
  /\ pc' = "Done"
  /\ UNCHANGED <<program, cursor, memory, printed>>

Next == Goto \/ Write \/ Show \/ Undefined \/ CutShort \/ Stop

Spec == Init /\ [][Next]_vars
=============================================================================
