---------------------------- MODULE ProgramMemory ----------------------------
(***************************************************************************)
(* gVM/ProgramMemory: the growing buffer a program for the interpreter is  *)
(* built in, from its constructor to its destructor.                       *)
(*                                                                         *)
(* The n-th byte appended is the number n: the code never looks at a byte, *)
(* so a byte that is lost, moved or written twice shows.                   *)
(***************************************************************************)
EXTENDS PowersOfTwo, Sequences, FiniteSets, FiniteSetsExt

CONSTANTS
  ValueSizes, \* sizeof(T) of the values appended
  InitSizes,  \* arguments of ProgramMemory(init_size)
  Junk        \* a byte that was never written

\* An object of C++ takes less than half the range of a size_t, so the size after an
\* append never wraps.
ASSUME SizesAssumption == ValueSizes \subseteq 1 .. Limit - 1 /\ InitSizes \subseteq 0 .. Limit

VARIABLES
  object,       \* "None" before, "Alive" during, "Gone" after its lifetime
  m_size, m_data_size,
  m_data,       \* an address of the heap, or 0
  heap,         \* the live blocks: address to bytes
  thrown,       \* how the last operation ended: with no exception, 0 or bad_alloc
  initial,      \* the bytes counted as data by the constructor
  appended,     \* the bytes appended since
  copied        \* the bytes copied by m_realloc so far

vars == <<object, m_size, m_data_size, m_data, heap, thrown, initial, appended, copied>>

-----------------------------------------------------------------------------
Fresh == CHOOSE a \in 1 .. Cardinality(DOMAIN heap) + 1 : a \notin DOMAIN heap
Block(size) == [i \in 1 .. size |-> Junk]
With(h, a, block) == [b \in DOMAIN h \cup {a} |-> IF b = a THEN block ELSE h[b]]
Without(h, a) == [b \in DOMAIN h \ {a} |-> h[b]]

Init ==
  /\ object = "None"
  /\ m_size = 0 /\ m_data_size = 0 /\ m_data = 0
  /\ heap = <<>>
  /\ thrown = "none"
  /\ initial = 0 /\ appended = 0 /\ copied = 0

ConstructDefault ==
  /\ object = "None"
  /\ object' = "Alive" /\ thrown' = "none"
  /\ UNCHANGED <<m_size, m_data_size, m_data, heap, initial, appended, copied>>

\* Nothing is written into the n bytes of data.
Construct(n) ==
  /\ object = "None"
  /\ object' = "Alive" /\ thrown' = "none"
  /\ m_size' = n /\ initial' = n
  /\ m_data_size' = bigger_pow2(n)
  /\ m_data' = Fresh
  /\ heap' = With(heap, Fresh, Block(bigger_pow2(n)))
  /\ UNCHANGED <<appended, copied>>

\* Appending n bytes needs a larger block.
Grows_Late(n) == m_size > m_data_size   \* mutant
Grows(n) == m_size + n > m_data_size

NewSize_Exact(n) == (m_size + n) % Pow2[W]   \* mutant
NewSize_Double(n) ==   \* mutant
  (2 * (IF m_data_size = 0 THEN bigger_pow2(n) ELSE bigger_pow2(m_size + n))) % Pow2[W]
NewSize(n) == IF m_data_size = 0 THEN bigger_pow2(n) ELSE bigger_pow2(m_size + n)

\* memcpy of the n bytes to m_data + m_size, and the new size
Written(block, n) ==
  [i \in DOMAIN block |-> IF i \in m_size + 1 .. m_size + n THEN appended + i - m_size ELSE block[i]]

Store(h, a, n) ==
  /\ heap' = [h EXCEPT ![a] = Written(@, n)]
  /\ m_size' = m_size + n
  /\ appended' = appended + n
  /\ thrown' = "none"
  /\ UNCHANGED <<object, initial>>

Put(n) ==
  /\ object = "Alive" /\ ~Grows(n)
  /\ Store(heap, m_data, n)
  /\ UNCHANGED <<m_data_size, m_data, copied>>

\* The new block of m_realloc, with the data so far
Copied_Nothing(size) == Block(size)   \* mutant
Copied(size) ==
  [i \in 1 .. size |-> IF m_data_size # 0 /\ i <= m_size THEN heap[m_data][i] ELSE Junk]

\* What m_realloc leaves of the other blocks
Remaining_All == heap   \* mutant
Remaining == IF m_data_size # 0 THEN Without(heap, m_data) ELSE heap

PutGrowing(n) ==
  /\ object = "Alive" /\ Grows(n) /\ m_data_size <= NewSize(n)
  /\ Store(With(Remaining, Fresh, Copied(NewSize(n))), Fresh, n)
  /\ m_data_size' = NewSize(n)
  /\ m_data' = Fresh
  /\ copied' = IF m_data_size # 0 THEN copied + m_size ELSE copied

Throw(what) ==
  /\ thrown' = what
  /\ UNCHANGED <<object, m_size, m_data_size, m_data, heap, initial, appended, copied>>

\* throw 0: the next power of two is no size_t.
PutThrows(n) ==
  /\ object = "Alive" /\ Grows(n) /\ m_data_size > NewSize(n)
  /\ Throw("0")

\* new char[] fails, before anything was changed that outlives it.
OutOfMemory ==
  /\ \/ object = "None"
     \/ object = "Alive" /\ \E n \in ValueSizes : Grows(n) /\ m_data_size <= NewSize(n)
  /\ Throw("bad_alloc")

\* ~ProgramMemory(), m_free()
Destroy ==
  /\ object = "Alive"
  /\ object' = "Gone" /\ thrown' = "none"
  /\ IF m_data_size = 0
     THEN UNCHANGED <<heap, m_size, m_data_size>>
     ELSE heap' = Without(heap, m_data) /\ m_size' = 0 /\ m_data_size' = 0
  /\ UNCHANGED <<m_data, initial, appended, copied>>

Terminated == object = "Gone" /\ UNCHANGED vars

Next ==
  \/ ConstructDefault \/ \E n \in InitSizes : Construct(n)
  \/ \E n \in ValueSizes : Put(n) \/ PutGrowing(n) \/ PutThrows(n)
  \/ OutOfMemory \/ Destroy \/ Terminated

Spec == Init /\ [][Next]_vars
-----------------------------------------------------------------------------
Size == 0 .. Pow2[W] - 1

TypeOK ==
  /\ object \in {"None", "Alive", "Gone"}
  /\ m_size \in Size /\ m_data_size \in Size
  /\ m_data = 0 \/ m_data \in DOMAIN heap \/ object = "Gone"
  /\ \A a \in DOMAIN heap : heap[a] \in Seq(Nat \cup {Junk})
  /\ thrown \in {"none", "0", "bad_alloc"}
  /\ initial \in Size /\ appended \in Nat /\ copied \in Nat

\* The buffer is the block m_data_size says it is, a power of two, and holds the
\* data: operator<< and the reader of get_data() stay inside it, whatever
\* constructor it began with, and after an append that threw.
InsideBuffer ==
  object = "Alive" =>
    /\ m_size <= m_data_size
    /\ m_data_size # 0 => /\ Len(heap[m_data]) = m_data_size
                          /\ \E i \in 0 .. W - 1 : m_data_size = Pow2[i]

\* What was appended is what is in the buffer, in order, once, however often the
\* buffer moved and whichever append threw.
HoldsWhatWasAppended ==
  object = "Alive" =>
    /\ m_size = initial + appended
    /\ \A i \in 1 .. m_size : heap[m_data][i] = IF i <= initial THEN Junk ELSE i - initial

\* The only block of the object is m_data, and it is freed with the object.  (A
\* block of no bytes, the one ProgramMemory(0) allocates, is never freed.)
NoBytesLeaked ==
  \A a \in DOMAIN heap : heap[a] # <<>> => object = "Alive" /\ a = m_data

\* Growing by powers of two: all the copies together are less than the buffer.
CopiesAreLinear == copied <= m_data_size \/ object = "Gone"

\* The exception of m_realloc: only when the data would be more than half of what
\* a size_t can count.
ThrowsOnlyAtLimit ==
  [][\A n \in ValueSizes : PutThrows(n) => m_size + n > Limit]_vars

\* The size asked for, which bigger_pow2 computes bit by bit, is what the function
\* is named for: the least power of two for the data, and 0 if there is none.
GrowsToLeastPowerOfTwo ==
  object = "Alive" =>
    \A n \in ValueSizes :
      Grows(n) =>
        LET powers == {p \in {Pow2[i] : i \in 0 .. W - 1} : p >= m_size + n}
        IN  NewSize(n) = IF powers = {} THEN 0 ELSE Min(powers)
=============================================================================
