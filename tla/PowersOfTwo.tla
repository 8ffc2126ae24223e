----------------------------- MODULE PowersOfTwo -----------------------------
(***************************************************************************)
(* The helper functions of gVM/ProgramMemory: the least power of two that  *)
(* is not less than a size, computed bit by bit on numbers of W bits.      *)
(***************************************************************************)
EXTENDS Integers

CONSTANT W   \* the width of size_t and of unsigned long long in bits (64 in the code)

\* The shifts of closest_pow2 reach 63 places.
ASSUME WAssumption == W \in 1 .. 64

Pow2[i \in Nat] == IF i = 0 THEN 1 ELSE 2 * Pow2[i - 1]

Limit == Pow2[W - 1]    \* the largest power of two of a size_t

-----------------------------------------------------------------------------
(***************************************************************************)
(* A number and the set of its bits                                        *)
(***************************************************************************)
Bits(v) == {i \in 0 .. W - 1 : (v \div Pow2[i]) % 2 = 1}
Number(bits) == CHOOSE v \in 0 .. Pow2[W] - 1 : Bits(v) = bits

\* v |= v >> k
OrShifted(bits, k) == bits \cup {i \in 0 .. W - 1 : i + k \in bits}

Smeared_NoFour(bits) ==   \* mutant
  OrShifted(OrShifted(OrShifted(OrShifted(OrShifted(bits, 1), 2), 8), 16), 32)
Smeared(bits) ==
  OrShifted(OrShifted(OrShifted(OrShifted(OrShifted(OrShifted(bits, 1), 2), 4), 8), 16), 32)

closest_pow2_NoWrap(v) == Number(Smeared(Bits((v - 1) % Pow2[W]))) + 1   \* mutant
closest_pow2(v) == (Number(Smeared(Bits((v - 1) % Pow2[W]))) + 1) % Pow2[W]

bigger_pow2(v) ==
  IF v > closest_pow2(v) THEN (2 * closest_pow2(v)) % Pow2[W] ELSE closest_pow2(v)
=============================================================================
